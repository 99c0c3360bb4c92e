\* A restart falls due while another script is running.
SPECIFICATION Spec
CONSTANTS
    t1 = t1
    t2 = t2
    o1 = o1
    o2 = o2
    nightly = nightly
    hourly = hourly
    Ids <- MCIds
    Ops <- MCOps
    Schedules <- MCSchedules
    MaxChanges = 1
    MaxConcurrent = 1
INVARIANT RecordedRestartsHappened
CHECK_DEADLOCK FALSE
