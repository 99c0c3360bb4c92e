\* Reading the SSH key file fails once.
SPECIFICATION KeyFaultSpec
CONSTANTS
    c1 = c1
    c2 = c2
    c3 = c3
    c4 = c4
    k1 = k1
    k2 = k2
    None = None
    Clients = {c1, c2, c3, c4}
    Calls = {k1, k2}
    MaxBackoff = 3
    MaxFaults = 2
INVARIANT DownIsBeingRetried
CHECK_DEADLOCK FALSE
