\* Attempts fail, connections drop and calls come at any moment.
SPECIFICATION Spec
CONSTANTS
    c1 = c1
    c2 = c2
    c3 = c3
    c4 = c4
    k1 = k1
    k2 = k2
    None = None
    Clients <- MCClients
    Calls <- MCCalls
    MaxBackoff = 3
    MaxFaults = 3
INVARIANTS TypeOK DownIsBeingRetried WaitersHaveAnAttempt SingleConnection
PROPERTIES OnlyLostConnectionsAreDropped Reconnects CallersAnswered
CHECK_DEADLOCK FALSE
