CONSTANTS
    DIG = DIG
    SVR = SVR
    OID = OID
    Mid = Mid
    NoFile = NoFile
    DatNames <- RowNames
    Originals <- WithOneMid
    MaxFaults = 2
SPECIFICATION DatSpec
INVARIANTS
    FileComesBack
PROPERTIES
    OnlyRetryLoses
    ReplacesAtomically
