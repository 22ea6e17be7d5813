SPECIFICATION FairSpec
CONSTANTS
    Queries = {q1, q2}
    Sockets = {c1, c2}
    Plans <- MCPlans
    None = None
    MaxAttempts = 2
    MaxConnections = 1
    FailureThreshold = 1
INVARIANTS
    AnswersAreOwn
    SocketsAreAccounted
PROPERTIES
    EveryQueryEnds
CHECK_DEADLOCK FALSE
