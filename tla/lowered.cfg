CONSTANTS
    Releases = {1, 2, 3}
    SyncVersion <- MCSyncVersion
    MayFailToOpen = FALSE
    MaxFaults = 0
    NoFile = NoFile
    Torn = Torn
    NoContent = NoContent

SPECIFICATION FairSpec

PROPERTY VersionNeverLowered
