SPECIFICATION FairHostSpec
CONSTANTS
    Links = {l1, l2}
    Signals = {s1, s2}
    Nothing = Nothing
    MaxLoop = 2
    StopWhenHealthy = TRUE
INVARIANTS
    ResolversInv
PROPERTIES
    StopIsOrderly
    ShutdownEnds
