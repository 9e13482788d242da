CONSTANTS
    e = e
    g = g
    a = a
    x = x
    en = en
    de = de
    one = one
    many = many
    c1 = c1
    c2 = c2
    Segments <- MCSegments
    NoLocale = NoLocale
    NoRelationship = NoRelationship
    Unpublished = Unpublished
    NoToken = NoToken
    NoValue = NoValue
    NotLink = NotLink
    Nothing = Nothing
    Settled = Settled
    Sentinel = Sentinel
    NoObject = NoObject
    NotLoaded = NotLoaded
    NoBlock = NoBlock
    NoReply = NoReply
    Fields <- BothFields
    ToOne <- OneField
    Ids <- PairIds
    ChildIds <- PairIds
    Parents <- PairParents
    Assets <- MCAssets
    Locales <- MCLocales
    Required <- SourceNeedsLink
    Drafts <- PairDrafts
    Initially <- PairInitially
    Unpublishable <- PairIds
    Paging = TRUE
    MaxChanges = 1
    Calls = {c1, c2}
    DbVersions = {1, 2}
    MayFailWipe = TRUE
    MayEvict = FALSE
    CrashSteps = {"none", "resolve", "commit", "relations", "wipe"}

SPECIFICATION Spec

INVARIANTS
    PendingOnDisk
    ContentVersioned

PROPERTY ReplicaSpec
