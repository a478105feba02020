SPECIFICATION FairSpec
CONSTANTS
    p1 = p1  p2 = p2  p3 = p3
    Process <- Three
    NoProcess = NoProcess
    Latest = 4
    Repeatable = {1, 3}
    Faults = 2
INVARIANTS
    PrefixIsApplied
    OpenIsComplete
PROPERTY
    StoreOpens
