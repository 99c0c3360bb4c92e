\* Task changes, runs, failing saves and crashes; interleaved operations in half of the behaviours.
SPECIFICATION Spec
CONSTANTS
    t1 = t1
    t2 = t2
    o1 = o1
    o2 = o2
    nightly = nightly
    hourly = hourly
    Ids <- MCIds
    Ops <- MCOps
    Schedules <- MCSchedules
    MaxChanges = 3
    MaxConcurrent = 2
INVARIANTS TypeOK HandlesMatchTasks SerialPersistedWhenQuiet
SYMMETRY Alike
