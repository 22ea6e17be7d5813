SPECIFICATION FairSpec
CONSTANTS
    Recoveries = {r1, r2}
    Domains = {d1, d2}
    Components = {k1}
    None = None
    DetectionThreshold = 2
    MaxRecoveryAttempts = 2
    MaxRetries = 1
    CircuitThreshold = 1
    MaxDetections = 1
INVARIANTS
    RecoveryInv
    AloneIsLegal
    OutcomeIsHonest
PROPERTIES
    EveryRecoverySettles
CHECK_DEADLOCK FALSE
