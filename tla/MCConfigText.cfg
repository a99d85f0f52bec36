CONSTANTS
    Words <- SomeWords
    Texts <- SomeTexts
    Ids <- SomeIds
    MaxCalls = 4
SPECIFICATION Spec
PROPERTIES
    CallAgrees
    ForeignLinesKept
CHECK_DEADLOCK FALSE
