CONSTANTS
    a = a
    b = b
    en = en
    de = de
    c1 = c1
    version = version
    Ids <- MCIds
    Drafts <- MCDrafts
    Initially <- MCInitially
    Unpublishable <- MCIds
    Unpublished = Unpublished
    NoToken = NoToken
    Paging = FALSE
    MaxChanges = 1
    Persisted <- MCIds
    Locales = {en, de}
    Calls = {c1}
    DbVersions = {1}
    Absent = Absent
    None = None
    Configured = {en, de}
    InitialSchemes <- MCInitialSchemes
    MaySeed = FALSE
    MayRefuseSave = FALSE
    MayFailWipe = FALSE
    MayFailFetch = FALSE

SPECIFICATION TwoPhaseSpec

INVARIANT NothingLeftOver
