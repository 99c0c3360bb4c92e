\* Two handlers save at the same time and the process dies.
SPECIFICATION CrashSpec
CONSTANTS
    w1 = w1
    w2 = w2
    Writers <- MCWriters
    MaxSaves = 3
    Size <- MCSize
INVARIANT LoadsAfterCrash
CHECK_DEADLOCK FALSE
