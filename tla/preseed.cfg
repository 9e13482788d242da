CONSTANTS
    Releases = {1, 2, 3}
    SyncVersion <- MCSyncVersion
    MayFailToOpen = FALSE
    MaxFaults = 4
    NoFile = NoFile
    Torn = Torn
    NoContent = NoContent

SPECIFICATION FairSpec

INVARIANTS
    TypeOK
    NoOlderContent

PROPERTIES
    SyncedContentKept
    EventuallySeeded
