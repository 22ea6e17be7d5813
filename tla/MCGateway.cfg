SPECIFICATION Spec
CONSTANTS
    Gateways = {g1, g2}
    Ops = {o1, o2, o3, o4}
    Home = Home
    None = None
    MaxTunnels = 3
    Serial = TRUE
SYMMETRY Symmetry
INVARIANTS
    NothingLeaks
PROPERTIES
    ReceiptIsTrue
CHECK_DEADLOCK FALSE
