CONSTANTS
    p = p
    q = q
    x = x
    en = en
    links = links
    Segments <- MCSegments
    Parents <- MCParents
    Fields <- MCFields
    ChildIds <- MCChildIds
    Locales <- MCLocales
    NoLocale = NoLocale
    NoRelationship = NoRelationship
    NotLoaded = NotLoaded

SPECIFICATION Spec

INVARIANTS
    TypeOK
    IndexExact

PROPERTY RegistrySpec
