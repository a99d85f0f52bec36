CONSTANTS
    r_fix2 = r_fix2
    r_v2 = r_v2
    r_v51 = r_v51
    Words <- AnyWord
    Games <- OneGame
    GameFiles <- OfficialOnly
    Releases <- ThreeReleases
    OldReleases <- OldOnes
    UsbReleases <- UsbOnes
    Latest = r_v51
    UserConfigs <- StockConfig
    Update = Update
    Torn = Torn
    Absent = Absent
    TaiPlaces <- Ur0
    MaxFaults = 1
    MaxSections = 5
    Nothing = Nothing
    Broken = Broken
SPECIFICATION FairSpec
INVARIANTS
    ChosenReleaseInPlace
    VersionIsTheRelease
PROPERTIES
    StaleEntryHealed
    ImplementsService
