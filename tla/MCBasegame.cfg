CONSTANT MaxFaults = 2
SPECIFICATION FairSpec
INVARIANTS
    NothingHidden
    NeverMixed
PROPERTIES
    DoneMeansWhole
    ConfirmedEnds
