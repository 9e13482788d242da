CONSTANTS
    a = a
    b = b
    en = en
    de = de
    c1 = c1
    version = version
    Ids <- MCIds
    Drafts <- MCDrafts
    Initially <- MCInitially
    Unpublishable <- MCIds
    Unpublished = Unpublished
    NoToken = NoToken
    Paging = TRUE
    MaxChanges = 1
    Persisted <- MCIds
    Locales = {en, de}
    Calls = {c1}
    DbVersions = {1, 2}
    Absent = Absent
    None = None
    Configured = {en, de}
    InitialSchemes <- MCInitialSchemes
    MaySeed = TRUE
    MayRefuseSave = TRUE
    MayFailWipe = TRUE
    MayFailFetch = TRUE

SPECIFICATION FairTwoPhaseSpec

INVARIANTS
    LocalizedTypeOK
    Delivered

PROPERTY FinalHandlerCalled
