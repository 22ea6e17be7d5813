SPECIFICATION Spec
CONSTANTS
    Callers = {c1, c2}
    Keys = {k1, k2}
    Actions = {a1}
    Resources = {r1, r2}
    None = None
    CheckpointRollback = FALSE
    Proven = {a1}
    Delegated = {a1}
    MaxEntries = 1
    MaxEpoch = 1
    MaxRequests = 3
SYMMETRY Symmetry
VIEW Living
INVARIANTS
    TypeOK
    HeldIsLive
    ResourceExclusion
    OneRunPerKey
    CacheIsBounded
    CommitIsVerified
    ResidueIsReported
CHECK_DEADLOCK FALSE
