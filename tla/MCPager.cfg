CONSTANTS
    MaxPages = 3
    Pages0 = 2
    MaxTxns = 2
    MaxFaults = 3
CHECK_DEADLOCK FALSE
SPECIFICATION Spec
INVARIANTS
    AllOrNothing
    ToldTruly
PROPERTIES
    OnlyCommitShows
    CallEnds
