CONSTANTS
    r_fix2 = r_fix2
    r_v2 = r_v2
    r_v51 = r_v51
    Words <- AnyWord
    Games <- TwoGames
    GameFiles <- OfficialOrOdd
    Releases <- TwoReleases
    OldReleases <- OldOnes
    UsbReleases <- UsbOnes
    Latest = r_v51
    UserConfigs <- OwnGameConfig
    Update = Update
    Torn = Torn
    Absent = Absent
    TaiPlaces <- Ux0
    MaxFaults = 1
    MaxSections = 4
SPECIFICATION Spec
INVARIANTS
    DeleteNamesGame
    MenuTellsTheCard
    ChosenGameHooked
    NothingLeft
PROPERTIES
    CheckSparesTheLiving
    OnlyRewriteOfCutLoses
