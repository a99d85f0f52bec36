CONSTANTS
    Menus <- MCMenus
    ShowOptions = 5
SPECIFICATION FairSpec
INVARIANTS
    CursorOnOpenEntry
    WindowInList
    CursorVisible
PROPERTIES
    FrameEnds
