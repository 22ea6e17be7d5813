SPECIFICATION FairSpec
CONSTANTS
    Callers = {c1, c2}
    Keys = {k1}
    Actions = {a1}
    Resources = {r1}
    None = None
    CheckpointRollback = TRUE
    Proven = {}
    Delegated = {}
    MaxEntries = 2
    MaxEpoch = 2
    MaxRequests = 2
INVARIANTS
    RecoveredIsClean
PROPERTIES
    ImplementsService
    EveryCallAnswered
CHECK_DEADLOCK FALSE
