----------------------- MODULE RelationshipDataProofs -----------------------
(***************************************************************************)
(* What joining and splitting at the last underscore does to the identity  *)
(* of a resource, for every id and every locale code; and what the         *)
(* operations of RelationshipData do, whoever calls them: every one of     *)
(* them assigns relationships, or their absence, to some key paths.        *)
(***************************************************************************)
EXTENDS RelationshipData, SequenceTheorems, TLAPS

\* Appending a segment to a string makes a string one segment longer, and
\* the string and the segment can be read back.
LEMMA AppendText ==
  ASSUME NEW t \in Text, NEW s \in Segments
  PROVE  /\ Append(t, s) \in Text
         /\ Len(Append(t, s)) = Len(t) + 1
         /\ Len(t) >= 1
         /\ SubSeq(Append(t, s), 1, Len(t)) = t
         /\ Append(t, s)[Len(t) + 1] = s
<1>1. t \in Seq(Segments) /\ t # <<>>
  BY DEF Text
<1>2. Len(t) \in Nat /\ Len(t) # 0
  BY <1>1, EmptySeq, LenProperties
<1>3. /\ Append(t, s) \in Seq(Segments)
      /\ Append(t, s) # <<>>
      /\ Len(Append(t, s)) = Len(t) + 1
      /\ Append(t, s)[Len(t) + 1] = s
      /\ SubSeq(Append(t, s), 1, Len(t)) = t
  BY <1>1, AppendProperties
<1> QED
  BY <1>2, <1>3 DEF Text

\* A localized child id survives being written as a string and read back:
\* RelationshipChildId(rawValue: c.rawValue) has c's id and c's locale, even
\* when the id contains underscores (RelationshipChildId.swift:20-43).
THEOREM RoundTrip ==
  ASSUME NEW id \in Text, NEW locale \in Segments
  PROVE  Parse(RawValue([id |-> id, locale |-> locale])) = [id |-> id, locale |-> locale]
<1>1. RawValue([id |-> id, locale |-> locale]) = Append(id, locale)
  BY NoLocaleAssumption DEF RawValue
<1>2. Len(Append(id, locale)) = Len(id) + 1 /\ Len(id) \in Nat /\ Len(id) >= 1
  BY AppendText DEF Text
<1>3. /\ SubSeq(Append(id, locale), 1, Len(Append(id, locale)) - 1) = id
      /\ Append(id, locale)[Len(Append(id, locale))] = locale
  BY <1>2, AppendText
<1> QED
  BY <1>1, <1>2, <1>3 DEF Parse

\* An id with an underscore and no locale is not read back as itself: its last
\* segment is taken for a locale code.  This is why the store may only hold
\* child ids that carry a locale.
THEOREM UnderscoreIdMisread ==
  ASSUME NEW id \in Text, NEW s \in Segments
  PROVE  Parse(RawValue([id |-> Append(id, s), locale |-> NoLocale]))
           = [id |-> id, locale |-> s]
<1>1. RawValue([id |-> Append(id, s), locale |-> NoLocale])
        = RawValue([id |-> id, locale |-> s])
  BY NoLocaleAssumption DEF RawValue
<1> QED
  BY <1>1, RoundTrip

\* Two resources never share a cache key: the key determines the id and the
\* locale, so the dictionaries keyed by DataCache.cacheKey are dictionaries
\* keyed by the pair (DataCache.swift:59-73).
THEOREM CacheKeyInjective ==
  ASSUME NEW a \in Text, NEW b \in Text, NEW l \in Segments, NEW m \in Segments,
         CacheKey(a, l) = CacheKey(b, m)
  PROVE  a = b /\ l = m
<1>1. Append(a, l) = Append(b, m)
  BY DEF CacheKey
<1>2. Len(a) \in Nat /\ Len(b) \in Nat
  BY DEF Text
<1>3. Len(Append(a, l)) = Len(a) + 1 /\ Len(Append(b, m)) = Len(b) + 1
  BY AppendText
<1>4. Len(a) = Len(b)
  BY <1>1, <1>2, <1>3
<1>5. /\ SubSeq(Append(a, l), 1, Len(a)) = a /\ Append(a, l)[Len(a) + 1] = l
      /\ SubSeq(Append(b, m), 1, Len(b)) = b /\ Append(b, m)[Len(b) + 1] = m
  BY AppendText
<1> QED
  BY <1>1, <1>4, <1>5

-----------------------------------------------------------------------------
(* Assignments.                                                             *)

\* What may be assigned: a relationship, or its absence, to some key paths.
Assignments(kps) == [kps -> {NoRelationship} \cup SUBSET ChildIds]

LEMMA SetRelationshipsType ==
  ASSUME NEW d \in Data, NEW kps \in SUBSET KeyPath, NEW new \in Assignments(kps)
  PROVE  SetRelationships(d, new) \in Data
<1>1. d.rels \in [KeyPath -> {NoRelationship} \cup SUBSET ChildIds]
      /\ d.byChild \in [ChildIds -> SUBSET KeyPath]
  BY DEF Data
<1>2. new \in [kps -> {NoRelationship} \cup SUBSET ChildIds]
  BY DEF Assignments
<1> QED
  BY <1>1, <1>2 DEF SetRelationships, Data

\* Whatever is assigned, the index stays the inverse of the relationships.
LEMMA SetRelationshipsIndex ==
  ASSUME NEW d \in Data, NEW kps \in SUBSET KeyPath, NEW new \in Assignments(kps),
         IndexMatches(d)
  PROVE  IndexMatches(SetRelationships(d, new))
<1> DEFINE e == SetRelationships(d, new)
<1> SUFFICES ASSUME NEW c \in ChildIds
             PROVE  e.byChild[c] = {kp \in KeyPath : c \in ChildIdsOf(e.rels[kp])}
  BY DEF IndexMatches
<1>0. DOMAIN new = kps
  BY DEF Assignments
<1>1. d.byChild[c] = {kp \in KeyPath : c \in ChildIdsOf(d.rels[kp])}
  BY DEF IndexMatches
<1>2. \A kp \in KeyPath : e.rels[kp] = IF kp \in kps THEN new[kp] ELSE d.rels[kp]
  BY <1>0 DEF SetRelationships
<1>3. e.byChild[c] =
        (d.byChild[c] \ {kp \in kps : c \in ChildIdsOf(d.rels[kp]) /\ c \notin ChildIdsOf(new[kp])})
          \cup {kp \in kps : c \in ChildIdsOf(new[kp])}
  BY <1>0 DEF SetRelationships
<1>4. ASSUME NEW kp \in KeyPath
      PROVE  kp \in e.byChild[c] <=> c \in ChildIdsOf(e.rels[kp])
  <2>1. CASE kp \in kps
    BY <1>1, <1>2, <1>3, <2>1
  <2>2. CASE kp \notin kps
    BY <1>1, <1>2, <1>3, <2>2
  <2> QED
    BY <2>1, <2>2
<1>5. e.byChild[c] \subseteq KeyPath
  BY <1>1, <1>3
<1> QED
  BY <1>4, <1>5

\* An append goes to one key path, with the ids of its children.
LEMMA KeyPathOfType ==
  ASSUME NEW p \in Parents, NEW f \in Fields, NEW ids \in SUBSET ChildIds,
         NEW l \in Locales \cup {NoLocale}
  PROVE  /\ KeyPathOf(p, f, {[id |-> i, locale |-> l] : i \in ids}) \in KeyPath
         /\ {c.id : c \in {[id |-> i, locale |-> l] : i \in ids}} = ids
<1> DEFINE cs == {[id |-> i, locale |-> l] : i \in ids}
<1>1. LocaleOf(cs) \in Locales \cup {NoLocale}
  <2>1. \A c \in cs : c.locale = l
    OBVIOUS
  <2>2. cs # {} => (CHOOSE c \in cs : TRUE) \in cs
    OBVIOUS
  <2> QED
    BY <2>1, <2>2 DEF LocaleOf
<1>2. {c.id : c \in cs} = ids
  <2>1. ASSUME NEW x \in {c.id : c \in cs} PROVE x \in ids
    OBVIOUS
  <2>2. ASSUME NEW x \in ids PROVE x \in {c.id : c \in cs}
    <3>1. [id |-> x, locale |-> l] \in cs /\ [id |-> x, locale |-> l].id = x
      OBVIOUS
    <3> QED
      BY <3>1
  <2> QED
    BY <2>1, <2>2
<1> QED
  BY <1>1, <1>2 DEF KeyPathOf, KeyPath

-----------------------------------------------------------------------------
(* Lookups with a locale.                                                   *)

\* No id is another one followed by an underscore and a locale code.
PlainIds == \A id \in ChildIds : \A l \in Locales : Append(id, l) \notin ChildIds

\* Ids without underscores, such as Contentful generates, are plain.
THEOREM UnderscoreFreeIdsArePlain ==
  ASSUME \A id \in ChildIds : Len(id) = 1
  PROVE  PlainIds
<1> SUFFICES ASSUME NEW id \in ChildIds, NEW l \in Locales
             PROVE  Append(id, l) \notin ChildIds
  BY DEF PlainIds
<1>1. id \in Text /\ l \in Segments
  BY IdentifierAssumption
<1>2. Len(Append(id, l)) = Len(id) + 1 /\ Len(id) = 1
  BY <1>1, AppendText
<1>3. Len(Append(id, l)) # 1
  BY <1>2
<1> QED
  BY <1>3

\* A lookup by a child id with a locale, the only kind the synchronization
\* makes, finds nothing at all unless "id_locale" happens to be an id itself:
\* the index is keyed by id and asked for "id_locale"
\* (RelationshipData.swift:60-63, 74-95).
THEOREM LocalizedLookupFindsNothing ==
  ASSUME PlainIds, NEW d \in Data, NEW c \in ChildIds, NEW l \in Locales
  PROVE  Lookup(d, [id |-> c, locale |-> l]) = {}
<1>1. l # NoLocale
  BY IdentifierAssumption, NoLocaleAssumption
<1>2. RawValue([id |-> c, locale |-> l]) = Append(c, l)
  BY <1>1 DEF RawValue
<1> QED
  BY <1>2 DEF PlainIds, Lookup

\* Where "id_locale" is the id of another resource, the lookup for id returns
\* the relationships of the other one, which updateRelationships then adds id to
\* (RelationshipData.swift:60-63, SynchronizationManager.swift:414-442).
THEOREM TwinParentsFound ==
  ASSUME NEW d \in Data, IndexMatches(d), NEW c \in ChildIds, NEW l \in Locales,
         Append(c, l) \in ChildIds
  PROVE  Lookup(d, [id |-> c, locale |-> l])
           = {kp \in KeyPath : d.rels[kp] # NoRelationship /\ Append(c, l) \in d.rels[kp]}
<1>1. RawValue([id |-> c, locale |-> l]) = Append(c, l)
  BY IdentifierAssumption, NoLocaleAssumption DEF RawValue
<1> QED
  BY <1>1 DEF Lookup, IndexMatches, ChildIdsOf
=============================================================================
