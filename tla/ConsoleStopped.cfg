\* The container is stopped while its log is followed.
SPECIFICATION Spec
CONSTANTS
    s1 = s1
    s2 = s2
    None = None
    Slots = {s1, s2}
    HistorySize = 2
    MaxBackoff = 2
    MaxFaults = 3
PROPERTY ResetOnlyWhenProven
CHECK_DEADLOCK FALSE
