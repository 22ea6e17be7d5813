SPECIFICATION FairSpec
CONSTANTS
    Ops = {o1, o2}
    MaxAttempts = 2
    MaxConns = 2
    MaxStrays = 1
INVARIANTS
    FailClosed
    ConnectionsAreAccounted
PROPERTIES
    EveryCallEnds
CHECK_DEADLOCK FALSE
