SPECIFICATION FairSpec
CONSTANTS
    Gateways = {g1, g2}
    Ops = {o1, o2, o3}
    Home = Home
    None = None
    MaxTunnels = 1
    Serial = FALSE
INVARIANTS
    CapacityIsBacked
PROPERTIES
    EveryOperationEnds
CHECK_DEADLOCK FALSE
