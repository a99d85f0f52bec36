CONSTANTS
    a = a
    b = b
    Names <- TwoNames
    Trees <- AllTrees
    Depth = 3
    MaxFaults = 1
SPECIFICATION FairSpec
INVARIANTS
    ResultIsTrue
    OthersKept
    HandlesClosed
PROPERTIES
    Returns
CHECK_DEADLOCK FALSE
