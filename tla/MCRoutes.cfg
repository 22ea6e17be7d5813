SPECIFICATION FairSpec
CONSTANTS
    p1 = p1
    p2 = p2
    p3 = p3
    t1 = t1
    g1 = g1
    g2 = g2
    None = None
    Plans = {p1, p2, p3}
    Targets = {t1}
    Gateways = {g1, g2, g3, g4}
    Metrics = {0, 1}
    Target <- MCTarget
    Gateway <- MCGateway
    Metric <- MixedMetrics
    Preset = {g3, g4}
    Opaque = {g4}
    MaxCrashes = 2
INVARIANTS
    RoutesInv
PROPERTIES
    ForgottenMeansRestored
    RecoveryFinishes
CHECK_DEADLOCK FALSE
