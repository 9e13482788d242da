CONSTANTS
    e = e
    g = g
    a = a
    x = x
    en = en
    de = de
    one = one
    many = many
    c1 = c1
    c2 = c2
    Segments <- MCSegments
    NoLocale = NoLocale
    NoRelationship = NoRelationship
    Unpublished = Unpublished
    NoToken = NoToken
    NoValue = NoValue
    NotLink = NotLink
    Nothing = Nothing
    Settled = Settled
    Sentinel = Sentinel
    NoObject = NoObject
    NotLoaded = NotLoaded
    NoBlock = NoBlock
    NoReply = NoReply
    Fields <- BothFields
    ToOne <- OneField
    Ids <- OpenIds
    ChildIds <- OpenIds
    Parents <- MCParents
    Assets <- MCAssets
    Locales <- MCLocales
    Required <- SourceNeedsLink
    Drafts <- OpenDrafts
    Initially <- PageInitially
    Unpublishable <- Sources
    Paging = TRUE
    MaxChanges = 2
    Calls = {c1}
    DbVersions = {1}
    MayFailWipe = FALSE
    MayEvict = TRUE
    CrashSteps = {"relations"}

SPECIFICATION Spec

INVARIANTS
    TypeOK
    TokenNeverAhead
    LinkNotWrong
    LinkNotLost
    PendingOnDisk

PROPERTY KnowledgeKept
