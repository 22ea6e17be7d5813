SPECIFICATION FairSpec
CONSTANTS
    Sources = {s1, s2}
    Calls = {c1, c2}
    None = None
    s1 = s1
    Start = s1
    NoDeactivate = {s2}
    RetryCount = 2
    MaxOutside = 1
INVARIANTS
    TransitionInv
    SourcesAreAccounted
PROPERTIES
    EveryCallEnds
CHECK_DEADLOCK FALSE
