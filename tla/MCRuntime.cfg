SPECIFICATION FairRuntimeSpec
CONSTANTS
    Callers = {c1, c2}
    Keys = {k1, a1}
    Actions = {a1}
    Resources = {r1}
    None = None
    CheckpointRollback = FALSE
    Proven = {}
    Delegated = {a1}
    MaxEntries = 1
    MaxEpoch = 1
    MaxRequests = 3
    MaxRecords = 1
    MaxCycles = 3
    StoreFails = TRUE
INVARIANTS
    CyclesAreSeparate
    SuccessWasCommitted
PROPERTIES
    CycleEnds
CHECK_DEADLOCK FALSE
