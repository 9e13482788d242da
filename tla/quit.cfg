CONSTANTS
    e = e
    g = g
    a = a
    x = x
    en = en
    de = de
    one = one
    many = many
    c1 = c1
    c2 = c2
    Segments <- MCSegments
    NoLocale = NoLocale
    NoRelationship = NoRelationship
    Unpublished = Unpublished
    NoToken = NoToken
    NoValue = NoValue
    NotLink = NotLink
    Nothing = Nothing
    Settled = Settled
    Sentinel = Sentinel
    NoObject = NoObject
    NotLoaded = NotLoaded
    NoBlock = NoBlock
    NoReply = NoReply
    Fields <- BothFields
    ToOne <- OneField
    Ids <- MCIds
    ChildIds <- MCIds
    Parents <- MCParents
    Assets <- MCAssets
    Locales <- MCLocales
    Required <- NothingRequired
    Drafts <- SharedDrafts
    Initially <- SharedInitially
    Unpublishable = {}
    Paging = TRUE
    MaxChanges = 2
    Calls = {c1}
    DbVersions = {1}
    MayFailWipe = FALSE
    MayEvict = FALSE
    CrashSteps = {"none"}

SPECIFICATION Spec

INVARIANT LinkNotLost
