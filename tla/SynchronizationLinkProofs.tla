---------------------- MODULE SynchronizationLinkProofs ----------------------
(***************************************************************************)
(* The links of an app that has one sync() under way at a time: none that  *)
(* is not published, and none missing of what is stored, except where the  *)
(* field is on record as unresolved.                                       *)
(***************************************************************************)
EXTENDS SynchronizationTokenProofs

-----------------------------------------------------------------------------
(* What the theorems assume of the constants, beside PlainIds: theorem      *)
(* TwinParentsFound shows the wrong parents that an entry is given where    *)
(* its key is an id itself.                                                 *)

\* What is linked to is not unpublished: run republish shows the lost link that
\* comes of it.
TargetsStay ==
    \A id \in Ids : \A links \in Drafts[id] : \A f \in Fields :
        links[f] \notin {NoValue, NotLink} => links[f] \cap Unpublishable = {}

\* The file of unresolved links is rewritten by every page, so the store must
\* not fall back behind it: run quit shows what comes of it.  The store is
\* saved with each answer if answers are not cut and no link is required.
SavedAtOnce == ~Paging /\ Required = {}

NothingRevertedAlone ==
    /\ CrashSteps \subseteq {"none", "relations", "wipe"}
    /\ "none" \in CrashSteps \/ MayFailWipe => SavedAtOnce

-----------------------------------------------------------------------------
(* Links, of a space at any moment.                                         *)

WantedOf(change, k, f) ==
    IF change.links[f] = NoValue THEN {} ELSE InLocale(change.links[f], k.locale)

\* A link field is on record as it was published, or it is off the record and
\* holds what it should.
FieldInv(change, k, f, objects, fields) ==
    \/ /\ fields # Nothing
       /\ fields[f] = RelationshipsOf(change.links, k.locale)[f]
    \/ /\ fields = Nothing \/ fields[f] = Settled
       /\ objects[k].links[f] \subseteq WantedOf(change, k, f) \cap Present(objects)
       /\ TargetsStay => WantedOf(change, k, f) \subseteq objects[k].links[f]

EntryInv(change, k, objects, fields) ==
    \A f \in Fields : change.links[f] # NotLink => FieldInv(change, k, f, objects, fields)

\* So it is for every entry that a token claims to be up to date.
Linked(space0, objects, token, unresolved) ==
    \A k \in EntryKey :
        /\ objects[k] # NoObject
        /\ k.id \notin OutstandingIn(space0, token)
        /\ IsPublished(space0[k.id])
        => EntryInv(space0[k.id], k, objects, unresolved[k])

-----------------------------------------------------------------------------
(* The inductive invariant.                                                 *)

\* The record the next step goes by.
Record == IF Running("resolve") THEN toResolve ELSE pendingFile

\* A call has read the file, and this process is the one that writes it.
Informed(c) ==
    phase[c] \in {"asking", "sent", "answered"} \/ (phase[c] = "queued" /\ ~QueueFree)

\* What is not published was once, in this space, unless it never was.
Deletable(id) == IsPublished(server[id]) \/ id \in Unpublishable

\* An answer holds what is published of all it claims to bring up to date.
AnswerInv(r) ==
    /\ \A id \in DOMAIN r.items \ OutstandingIn(server, r.token) : r.items[id] = server[id]
    /\ QueueFree => \A id \in (Ids \ DOMAIN r.items) \ OutstandingIn(server, r.token) :
                       IsPublished(server[id]) => id \notin OutstandingIn(server, ctx.token)
    /\ ~Paging => ~HasMorePages(r)
    /\ \A id \in DOMAIN r.items : IsPublished(r.items[id]) \/ id \in Unpublishable
    /\ \A id \in r.token.rest : Deletable(id)

\* The store in memory and, where the process may fall back to it, the file.
StoresLinked ==
    /\ Linked(server, ctx.objects, TokenHeld, Record)
    /\ Running("relations") => db = ctx
    /\ SavedAtOnce /\ QueueFree => Linked(server, db.objects, db.token, pendingFile)

\* No page is applied on top of links that were not read.
FileRead ==
    /\ \A c \in Calls : Informed(c) /\ ~Running("resolve") => toResolve = pendingFile
    /\ \A c \in Calls : phase[c] = "queued" /\ QueueFree => snapshot[c] = pendingFile

\* Nobody claims to have seen a resource go that cannot go.
DeletionsJustified ==
    /\ \A id \in Ids : Deletable(id) \/ server[id].at = 0
    /\ \A store \in {ctx, db} :
          store.token # NoToken => \A id \in store.token.rest : Deletable(id)

LinkInv ==
    /\ StoresLinked
    /\ FileRead
    /\ \A c \in Calls : phase[c] = "answered" => AnswerInv(reply[c])
    /\ DeletionsJustified

-----------------------------------------------------------------------------
(* The published links.                                                     *)

\* A field with links holds ids that there are, a field for one link one id.
LEMMA PublishedField ==
  ASSUME NEW change \in Change, IsPublished(change),
         NEW f \in Fields, change.links[f] \notin {NoValue, NotLink}
  PROVE  /\ change.links[f] \in SUBSET Ids
         /\ f \in ToOne => \E t \in Ids : change.links[f] = {t}
         /\ TargetsStay => change.links[f] \cap Unpublishable = {}
<1>1. PICK id \in Ids : change.links \in Drafts[id]
  BY DEF Change, IsPublished
<1>2. change.links \in [Fields -> {NoValue, NotLink} \cup SUBSET Ids]
  BY DraftType
<1>3. f \in ToOne => change.links[f] \in {NoValue, NotLink} \cup {{t} : t \in Ids}
  BY <1>1, LinkAssumption
<1>4. TargetsStay => change.links[f] \cap Unpublishable = {}
  BY <1>1 DEF TargetsStay
<1> QED
  BY <1>2, <1>3, <1>4

\* What a page puts on record of a link field.
LEMMA RecordOfField ==
  ASSUME NEW change \in Change, IsPublished(change), NEW k \in EntryKey,
         NEW f \in Fields, change.links[f] # NotLink
  PROVE  /\ RelationshipsOf(change.links, k.locale) # Nothing
         /\ WantedOf(change, k, f) \in SUBSET Key
         /\ change.links[f] = NoValue =>
               RelationshipsOf(change.links, k.locale)[f] = Sentinel /\ WantedOf(change, k, f) = {}
         /\ change.links[f] # NoValue =>
               RelationshipsOf(change.links, k.locale)[f] = WantedOf(change, k, f)
<1>1. k.locale \in Locales
  BY DEF EntryKey
<1>2. RelationshipsOf(change.links, k.locale) \in UnresolvedFields
  BY <1>1, DraftType, RelationshipsOfType
<1>3. RelationshipsOf(change.links, k.locale) # Nothing
  BY <1>2, LinkAssumption DEF UnresolvedFields
<1>4. change.links[f] # NoValue => InLocale(change.links[f], k.locale) \in SUBSET Key
  BY <1>1, PublishedField DEF InLocale, Key
<1> QED
  BY <1>3, <1>4 DEF RelationshipsOf, WantedOf

-----------------------------------------------------------------------------
(* What keeps Linked.                                                       *)

LEMMA EmptyLinked ==
  ASSUME NEW space0, NEW objects, NEW token, NEW unresolved, Present(objects) = {}
  PROVE  Linked(space0, objects, token, unresolved)
BY EntryKeysAreKeys DEF Linked, Present

\* A change of the space makes a resource outstanding and nothing else.
LEMMA ChangeLinked ==
  ASSUME NEW space1 \in [Ids -> Change], NEW space2 \in [Ids -> Change], NEW time \in Nat,
         NEW id \in Ids, space2[id].at = time + 1,
         \A other \in Ids \ {id} : space2[other] = space1[other],
         NEW objects, NEW token \in {NoToken} \cup Token, NEW unresolved,
         Old(time, token), Linked(space1, objects, token, unresolved)
  PROVE  /\ Linked(space2, objects, token, unresolved)
         /\ id \in OutstandingIn(space2, token)
         /\ \A other \in Ids \ {id} :
               other \in OutstandingIn(space2, token) <=> other \in OutstandingIn(space1, token)
<1>1. id \in OutstandingIn(space2, token)
  BY DEF OutstandingIn, Old, Token
<1>2. \A other \in Ids \ {id} :
         other \in OutstandingIn(space2, token) <=> other \in OutstandingIn(space1, token)
  BY DEF OutstandingIn
<1>3. \A k \in EntryKey : k.id \in Ids
  BY EntryKeysAreKeys DEF Key
<1>4. Linked(space2, objects, token, unresolved)
  BY <1>1, <1>2, <1>3 DEF Linked
<1> QED
  BY <1>1, <1>2, <1>4

\* An entry that a page says nothing of.
LEMMA PageKeepsEntry ==
  ASSUME NEW objects \in Objects, NEW page \in SUBSET Ids, NEW items \in [page -> Change],
         NEW change \in Change, IsPublished(change),
         NEW k \in EntryKey, k.id \notin page, objects[k] # NoObject,
         TargetsStay => \A id \in page : IsPublished(items[id]) \/ id \in Unpublishable,
         NEW fields, EntryInv(change, k, objects, fields)
  PROVE  EntryInv(change, k, ApplyItems(objects, items), fields)
<1> DEFINE e == ApplyItems(objects, items)
           deleted == {id \in DOMAIN items : ~IsPublished(items[id])}
<1>0. k \in Key /\ DOMAIN items = page /\ objects[k] \in Object
  BY EntryKeysAreKeys DEF Objects
<1>1. e[k].links = [f \in Fields |-> {t \in objects[k].links[f] : t.id \notin deleted}]
  BY <1>0 DEF ApplyItems
<1>2. ASSUME NEW t \in Present(objects), t.id \notin deleted PROVE t \in Present(e)
  <2>1. t \in Key /\ objects[t] # NoObject /\ e \in Objects
    BY ApplyItemsType DEF Present
  <2>2. CASE t.id \in page /\ t.id \in Persisted
    BY <1>0, <1>2, <2>1, <2>2, PageFits DEF Matches, Present
  <2>3. CASE t.id \notin page \/ t.id \notin Persisted
    BY <1>0, <1>2, <2>1, <2>3, ApplyItemsKeeps DEF Present
  <2> QED
    BY <2>2, <2>3
<1> HIDE DEF e
<1>3. ASSUME NEW f \in Fields, change.links[f] # NotLink,
             objects[k].links[f] \subseteq WantedOf(change, k, f) \cap Present(objects)
      PROVE  e[k].links[f] \subseteq WantedOf(change, k, f) \cap Present(e)
  BY <1>1, <1>2, <1>3
<1>4. ASSUME TargetsStay, NEW f \in Fields, change.links[f] # NotLink,
             WantedOf(change, k, f) \subseteq objects[k].links[f]
      PROVE  WantedOf(change, k, f) \subseteq e[k].links[f]
  <2>1. deleted \subseteq Unpublishable
    BY <1>0, <1>4
  <2>2. \A t \in WantedOf(change, k, f) : t.id \notin Unpublishable
    BY <1>4, PublishedField DEF WantedOf, InLocale
  <2> QED
    BY <1>1, <1>4, <2>1, <2>2
<1> QED
  BY <1>3, <1>4 DEF EntryInv, FieldInv, e

\* A page holds what is published of all its token claims and the token before
\* it did not.
TruePage(space0, token0, token, page, items) ==
    /\ \A id \in page \ OutstandingIn(space0, token) : items[id] = space0[id]
    /\ \A id \in (Ids \ page) \ OutstandingIn(space0, token) :
          IsPublished(space0[id]) => id \notin OutstandingIn(space0, token0)
    /\ TargetsStay => \A id \in page : IsPublished(items[id]) \/ id \in Unpublishable

Recorded(page, items, unresolved0, unresolved) ==
    \A k \in EntryKey :
        unresolved[k] = IF k.id \in page /\ IsPublished(items[k.id])
                        THEN RelationshipsOf(items[k.id].links, k.locale)
                        ELSE unresolved0[k]

\* A page puts what it delivers on record and leaves the rest.
LEMMA PageLinked ==
  ASSUME NEW space0 \in [Ids -> Change], NEW objects \in Objects, NEW token0, NEW token,
         NEW page \in SUBSET Ids, NEW items \in [page -> Change],
         NEW unresolved0, NEW unresolved,
         Linked(space0, objects, token0, unresolved0),
         TruePage(space0, token0, token, page, items),
         Recorded(page, items, unresolved0, unresolved)
  PROVE  Linked(space0, ApplyItems(objects, items), token, unresolved)
<1> USE DEF TruePage, Recorded
<1> SUFFICES ASSUME NEW k \in EntryKey, ApplyItems(objects, items)[k] # NoObject,
                    k.id \notin OutstandingIn(space0, token), IsPublished(space0[k.id])
             PROVE  EntryInv(space0[k.id], k, ApplyItems(objects, items), unresolved[k])
  BY DEF Linked
<1>0. k \in Key /\ k.id \in Ids /\ space0[k.id] \in Change /\ DOMAIN items = page
  BY EntryKeysAreKeys DEF Key
<1>1. CASE k.id \in page
  <2>1. items[k.id] = space0[k.id]
    BY <1>1
  <2>2. unresolved[k] = RelationshipsOf(space0[k.id].links, k.locale)
    BY <1>1, <2>1
  <2> QED
    BY <1>0, <2>2, RecordOfField DEF EntryInv, FieldInv
<1>2. CASE k.id \notin page
  <2>1. unresolved[k] = unresolved0[k] /\ k.id \notin OutstandingIn(space0, token0)
    BY <1>0, <1>2
  <2>2. objects[k] # NoObject
    BY <1>0, <1>2, ApplyItemsKeeps
  <2>3. EntryInv(space0[k.id], k, objects, unresolved[k])
    BY <2>1, <2>2 DEF Linked
  <2> QED
    BY <1>0, <1>2, <2>2, <2>3, PageKeepsEntry
<1> QED
  BY <1>1, <1>2

\* While lookups find nothing, no parent is linked to the visited entry.
LEMMA RelinkNothing ==
  ASSUME PlainIds, NEW objects \in Objects, NEW k \in EntryKey, NEW data \in Data,
         NEW seen \in SUBSET Present(objects)
  PROVE  Relink(objects, k, data, seen) = objects
<1>1. Lookup(data, k) = {}
  <2>1. k.id \in ChildIds /\ k.locale \in Locales /\ k = [id |-> k.id, locale |-> k.locale]
    BY SynchronizationAssumption DEF EntryKey, Persisted
  <2> QED
    BY <2>1, LocalizedLookupFindsNothing
<1>2. ASSUME NEW q \in Key PROVE Relink(objects, k, data, seen)[q] = objects[q]
  <2>1. CASE q \notin seen \cap EntryKey
    BY <2>1 DEF Relink
  <2>2. CASE q \in seen \cap EntryKey
    <3>1. objects[q] \in Object
      BY <2>2 DEF Present, Objects
    <3>2. Relink(objects, k, data, seen)[q]
            = [at |-> objects[q].at, links |-> [f \in Fields |-> objects[q].links[f]]]
      BY <1>1, <2>2 DEF Relink
    <3> QED
      BY <3>1, <3>2 DEF Object
  <2> QED
    BY <2>1, <2>2
<1>3. Relink(objects, k, data, seen) = [q \in Key |-> Relink(objects, k, data, seen)[q]]
  BY DEF Relink
<1> QED
  BY <1>2, <1>3 DEF Objects

\* One visit of a field: its links, and whether it stays on record.
LEMMA VisitedField ==
  ASSUME NEW change \in Change, IsPublished(change), NEW k \in EntryKey,
         NEW f \in Fields, change.links[f] # NotLink,
         NEW objects \in Objects, objects[k] # NoObject,
         NEW fields \in UnresolvedFields, NEW seen \in SUBSET Present(objects),
         FieldInv(change, k, f, objects, fields),
         NEW objects1, Present(objects1) = Present(objects),
         objects1[k].links[f] = ResolvedLinks(objects[k].links, fields, seen)[f]
  PROVE  FieldInv(change, k, f, objects1, StillUnresolved(fields, seen))
<1> DEFINE left == [g \in Fields |->
                      IF fields[g] = Settled \/ fields[g] = Sentinel THEN Settled
                      ELSE IF fields[g] \subseteq seen THEN Settled
                      ELSE fields[g]]
           wanted == WantedOf(change, k, f)
<1>0. /\ fields # Nothing /\ left # Nothing
      /\ StillUnresolved(fields, seen) = IF OpenFields(left) = {} THEN Nothing ELSE left
      /\ left[f] # Settled => OpenFields(left) # {}
  <2>1. left \in UnresolvedFields
    BY DEF UnresolvedFields
  <2> QED
    BY <2>1, LinkAssumption DEF StillUnresolved, UnresolvedFields, OpenFields
<1>1. objects1[k].links[f] =
        IF fields[f] = Settled THEN objects[k].links[f]
        ELSE IF fields[f] = Sentinel THEN {}
        ELSE IF f \in ToOne /\ fields[f] \cap seen = {} THEN objects[k].links[f]
        ELSE fields[f] \cap seen
  BY DEF ResolvedLinks
<1>2. ASSUME left[f] = Settled
      PROVE  StillUnresolved(fields, seen) = Nothing \/ StillUnresolved(fields, seen)[f] = Settled
  BY <1>0, <1>2
<1>3. CASE fields[f] = Settled
  <2>1. left[f] = Settled /\ objects1[k].links[f] = objects[k].links[f]
    BY <1>1, <1>3
  <2>2. fields[f] # RelationshipsOf(change.links, k.locale)[f]
    BY <1>3, RecordOfField, LinkAssumption
  <2> QED
    BY <1>0, <1>2, <2>1, <2>2 DEF FieldInv
<1>4. CASE fields[f] # Settled
  <2>1. fields[f] = RelationshipsOf(change.links, k.locale)[f]
    BY <1>0, <1>4 DEF FieldInv
  <2>2. CASE change.links[f] = NoValue
    <3>1. fields[f] = Sentinel /\ wanted = {}
      BY <2>1, <2>2, RecordOfField
    <3>2. left[f] = Settled /\ objects1[k].links[f] = {}
      BY <1>1, <1>4, <3>1
    <3> QED
      BY <1>2, <3>1, <3>2 DEF FieldInv
  <2>3. CASE change.links[f] # NoValue
    <3>1. fields[f] = wanted /\ wanted \in SUBSET Key /\ wanted # Sentinel
      BY <2>1, <2>3, RecordOfField, LinkAssumption
    <3>2. CASE wanted \subseteq seen
      <4>1. left[f] = Settled
        BY <3>1, <3>2
      <4>2. ASSUME f \in ToOne PROVE wanted # {}
        <5>1. PICK t \in Ids : change.links[f] = {t}
          BY <2>3, <4>2, PublishedField
        <5>2. [id |-> t, locale |-> k.locale] \in wanted
          BY <2>3, <5>1 DEF WantedOf, InLocale
        <5> QED
          BY <5>2
      <4>3. objects1[k].links[f] = wanted
        BY <1>1, <1>4, <3>1, <3>2, <4>2
      <4> QED
        BY <1>2, <3>2, <4>1, <4>3 DEF FieldInv
    <3>3. CASE ~(wanted \subseteq seen)
      <4>1. left[f] = wanted /\ left[f] # Settled
        BY <1>4, <3>1, <3>3
      <4>2. StillUnresolved(fields, seen) = left
        BY <1>0, <4>1
      <4> QED
        BY <1>0, <2>1, <3>1, <4>1, <4>2 DEF FieldInv
    <3> QED
      BY <3>2, <3>3
  <2> QED
    BY <2>2, <2>3
<1> QED
  BY <1>3, <1>4

\* One step of the loop keeps what is known of every entry.
LEMMA VisitLinked ==
  ASSUME PlainIds, TypeInv, NEW k \in EntryKey, ResolveEntry(k),
         NEW space0 \in [Ids -> Change], NEW token,
         Linked(space0, ctx.objects, token, toResolve)
  PROVE  Linked(space0, ctx'.objects, token, toResolve')
<1>0. /\ ctx \in Store /\ ctx.objects \in Objects /\ toResolve \in UnresolvedLinks
      /\ k \in Key /\ toResolve[k] # Nothing /\ cache \in SUBSET Present(ctx.objects)
      /\ cache' \subseteq cache
  BY EntryKeysAreKeys, TypeFacts, ResolveEntryEffect DEF TypeInv, Shape, ResolveEntry
<1>1. CASE k \notin cache'
  BY <1>1 DEF ResolveEntry
<1>2. CASE k \in cache'
  <2> DEFINE fields == toResolve[k]
             data == SetRelationships(Relationships, NewRelationships(k, fields))
             own == [ctx.objects EXCEPT ![k].links = ResolvedLinks(@, fields, cache')]
  <2>1. /\ ctx' = [ctx EXCEPT !.objects = Relink(own, k, data, cache')]
        /\ toResolve' = [toResolve EXCEPT ![k] = StillUnresolved(@, cache')]
    BY <1>2 DEF ResolveEntry
  <2>2. fields \in UnresolvedFields
    BY <1>0 DEF UnresolvedLinks, UnresolvedFields, Unresolved
  <2>3. data \in Data
    BY <2>2, NewRelationshipsType, SetRelationshipsType, RelationshipsType DEF TypeInv, TypeOK
  <2>4. ctx.objects[k] # NoObject /\ ctx.objects[k] \in Object /\ cache' \in SUBSET Key
    BY <1>0, <1>2 DEF Present, Objects
  <2> DEFINE links == ResolvedLinks(ctx.objects[k].links, fields, cache')
  <2>5. links \in [Fields -> SUBSET Key]
    BY <2>2, <2>4, ResolvedLinksType DEF Object
  <2>6. own = [ctx.objects EXCEPT ![k] = [at |-> ctx.objects[k].at, links |-> links]]
    BY <1>0, <2>4 DEF Object, Objects
  <2> HIDE DEF own, data, links, fields
  <2>7. own[k] \in Object /\ own[k].links = links
    BY <1>0, <2>4, <2>5, <2>6 DEF Object, Objects
  <2>8. \A q \in Key \ {k} : own[q] = ctx.objects[q]
    BY <1>0, <2>6 DEF Objects
  <2>9. own \in Objects
    BY <1>0, <2>6, <2>7, <2>8 DEF Objects
  <2>10. Present(own) = Present(ctx.objects)
    BY <2>4, <2>7, <2>8, AbsenceAssumption DEF Present
  <2>11. ctx'.objects = own
    <3>1. Relink(own, k, data, cache') = own
      BY <1>0, <2>3, <2>9, <2>10, RelinkNothing
    <3> QED
      BY <1>0, <2>1, <3>1 DEF Store
  <2>12. /\ toResolve'[k] = StillUnresolved(fields, cache')
         /\ \A q \in EntryKey \ {k} : toResolve'[q] = toResolve[q]
    BY <1>0, <2>1 DEF UnresolvedLinks, fields
  <2> SUFFICES ASSUME NEW q \in EntryKey, ctx'.objects[q] # NoObject,
                      q.id \notin OutstandingIn(space0, token), IsPublished(space0[q.id]),
                      NEW f \in Fields, space0[q.id].links[f] # NotLink
               PROVE  FieldInv(space0[q.id], q, f, ctx'.objects, toResolve'[q])
    BY DEF Linked, EntryInv
  <2>13. q \in Key /\ space0[q.id] \in Change
    BY EntryKeysAreKeys DEF Key
  <2>14. ctx.objects[q] # NoObject
    BY <2>10, <2>11, <2>13 DEF Present
  <2>15. FieldInv(space0[q.id], q, f, ctx.objects, toResolve[q])
    BY <2>14 DEF Linked, EntryInv
  <2>16. CASE q = k
    <3>1. cache' \in SUBSET Present(ctx.objects) /\ FieldInv(space0[q.id], q, f, ctx.objects, fields)
      BY <1>0, <2>15, <2>16 DEF fields
    <3>2. own[k].links[f] = ResolvedLinks(ctx.objects[k].links, fields, cache')[f]
      BY <2>7 DEF links
    <3>3. FieldInv(space0[q.id], q, f, own, StillUnresolved(fields, cache'))
      BY <1>0, <2>2, <2>10, <2>13, <2>14, <2>16, <3>1, <3>2, VisitedField
    <3> QED
      BY <2>11, <2>12, <2>16, <3>3
  <2>17. CASE q # k
    <3>1. toResolve'[q] = toResolve[q] /\ ctx'.objects[q] = ctx.objects[q]
      BY <2>8, <2>11, <2>12, <2>13, <2>17
    <3> QED
      BY <2>10, <2>11, <2>15, <3>1 DEF FieldInv
  <2> QED
    BY <2>16, <2>17
<1> QED
  BY <1>1, <1>2

-----------------------------------------------------------------------------
(* Every step keeps the invariant.                                          *)

LEMMA InitLinks == Init => LinkInv
<1> SUFFICES ASSUME Init PROVE LinkInv
  OBVIOUS
<1>1. QueueFree /\ ~Running("resolve") /\ ~Running("relations")
  BY DEF Init, QueueFree, Running
<1>2. Present(ctx.objects) = {} /\ Present(db.objects) = {}
  BY DEF Init, EmptyStore, Present
<1>3. StoresLinked
  BY <1>1, <1>2, EmptyLinked DEF StoresLinked
<1>4. FileRead
  BY DEF Init, FileRead, Informed
<1>5. DeletionsJustified
  <2>1. \A id \in Ids : server[id].at = 0
    BY DEF Init, DeliveryInit
  <2> QED
    BY <2>1 DEF Init, EmptyStore, DeletionsJustified
<1> QED
  BY <1>3, <1>4, <1>5 DEF LinkInv, Init

LEMMA SyncLinks ==
  ASSUME OneCall, NothingRevertedAlone, TypeInv, TokenInv, LinkInv, NEW c \in Calls, Sync(c)
  PROVE  LinkInv'
<1>0. /\ phase[c] = "idle" /\ QueueFree
      /\ phase'[c] \in {"called", "migrating"} /\ \A d \in Calls : d = c
      /\ UNCHANGED <<server, clock, pendingFile, reply>>
      /\ ~PageRunning /\ TokenHeld = ctx.token /\ Record = pendingFile
  BY HeldFacts
  DEF Sync, StartMigrated, StartUnversioned, StartOutdated, StartOutdatedWipeFails,
      PageRunning, Running, Goto, Record, space, disk
<1>1. ~Running("resolve")' /\ ~Running("relations")'
  BY <1>0, BeginFacts
  DEF Sync, StartMigrated, StartUnversioned, StartOutdated, StartOutdatedWipeFails, Steps,
      Running, QueueFree, Begin
<1>2. TokenHeld' = ctx'.token /\ Record' = pendingFile
  BY <1>0, <1>1 DEF TokenHeld, Record
<1>3. /\ Linked(server, ctx'.objects, ctx'.token, pendingFile)
      /\ SavedAtOnce /\ QueueFree' => Linked(server, db'.objects, db'.token, pendingFile)
      /\ ctx'.token \in {ctx.token, db.token, NoToken} /\ db'.token \in {db.token, NoToken}
  <2>0. /\ Linked(server, ctx.objects, ctx.token, pendingFile)
        /\ SavedAtOnce => Linked(server, db.objects, db.token, pendingFile)
    BY <1>0 DEF LinkInv, StoresLinked
  <2>1. CASE StartMigrated(c)
    BY <2>0, <2>1 DEF StartMigrated, disk
  <2>2. CASE StartOutdatedWipeFails(c)
    BY <2>0, <2>2 DEF StartOutdatedWipeFails, disk, NothingRevertedAlone
  <2>3. CASE StartUnversioned(c)
    <3>1. ctx'.objects = ctx.objects /\ ctx'.token = ctx.token /\ db' = db /\ Begin(c, "commit")
      BY <2>3 DEF StartUnversioned, TypeInv, TypeOK, Store, disk
    <3> QED
      BY <2>0, <3>1, BeginFacts DEF Steps
  <2>4. CASE StartOutdated(c)
    <3>1. /\ ctx'.objects = EmptyStore.objects /\ ctx'.token = NoToken
          /\ db' = EmptyStore /\ EmptyStore.token = NoToken
      BY <2>4 DEF StartOutdated, EmptyStore
    <3>2. Present(EmptyStore.objects) = {}
      BY DEF EmptyStore, Present
    <3> QED
      BY <3>1, <3>2, EmptyLinked
  <2> QED
    BY <2>1, <2>2, <2>3, <2>4 DEF Sync
<1>4. StoresLinked'
  BY <1>0, <1>1, <1>2, <1>3 DEF StoresLinked
<1>5. FileRead'
  BY <1>0 DEF FileRead, Informed
<1>6. DeletionsJustified'
  BY <1>0, <1>3 DEF DeletionsJustified, Deletable, LinkInv
<1> QED
  BY <1>0, <1>4, <1>5, <1>6 DEF LinkInv

\* What the space answers to a request.
LEMMA ReplyAnswers ==
  ASSUME DeliveryTypeOK, NEW token \in {NoToken} \cup Token, Old(clock, token),
         \A id \in Ids : Deletable(id) \/ server[id].at = 0,
         token # NoToken => \A id \in token.rest : Deletable(id),
         NEW r \in Replies(token)
  PROVE  /\ \A id \in DOMAIN r.items : id \in Ids /\ r.items[id] = server[id] /\ Deletable(id)
         /\ \A id \in (Ids \ DOMAIN r.items) \ OutstandingIn(server, r.token) :
               IsPublished(server[id]) => id \notin OutstandingIn(server, token)
         /\ ~Paging => ~HasMorePages(r)
         /\ \A id \in r.token.rest : Deletable(id)
<1>1. PICK page \in SUBSET Remaining(token) :
        /\ r = [items |-> [id \in page |-> server[id]],
                token |-> [at |-> Since(token), rest |-> Remaining(token) \ page]]
        /\ page = Remaining(token) \/ Paging
  BY DEF Replies
<1>2. /\ clock \in Nat /\ server \in [Ids -> Change]
      /\ \A id \in Ids : server[id].at \in Nat /\ server[id].at <= clock
      /\ token # NoToken => token.at \in Nat
  BY DEF DeliveryTypeOK, Change, Token
<1>3. Remaining(token) \subseteq Ids /\ Since(token) \in Nat
  BY <1>2 DEF Remaining, Since, Token
<1>4. /\ r.token = [at |-> Since(token), rest |-> Remaining(token) \ page]
      /\ r.token # NoToken
      /\ DOMAIN r.items = page /\ \A id \in page : r.items[id] = server[id]
  BY <1>1, <1>3, NoTokenAssumption DEF Token
<1>5. \A id \in Remaining(token) : Deletable(id)
  <2>1. \A id \in Ids : token # NoToken /\ server[id].at > token.at => server[id].at # 0
    BY <1>2
  <2> QED
    BY <1>3, <2>1 DEF Remaining, Deletable
<1>6. ASSUME NEW id \in (Ids \ page) \ OutstandingIn(server, r.token), IsPublished(server[id])
      PROVE  id \notin OutstandingIn(server, token)
  <2>1. id \notin Remaining(token) /\ server[id].at <= Since(token)
    BY <1>2, <1>3, <1>4, <1>6 DEF OutstandingIn
  <2>2. token # NoToken
    BY <1>6, <2>1 DEF Remaining
  <2> QED
    BY <1>2, <2>1, <2>2 DEF OutstandingIn, Remaining, Since
<1> QED
  BY <1>1, <1>3, <1>4, <1>5, <1>6 DEF HasMorePages

\* The steps of a call that leave stores, files and blocks alone.
LEMMA CallLinks ==
  ASSUME OneCall, TypeInv, TokenInv, PendingInv, LinkInv, NEW c \in Calls,
         ReadPending(c) \/ Ask(c) \/ Answer(c) \/ Fail(c)
  PROVE  LinkInv'
<1>0. /\ UNCHANGED <<ctx, db, pendingFile, toResolve, block, server, clock>>
      /\ phase[c] \in {"called", "asking", "sent"} /\ phase \in [Calls -> Phases]
      /\ \A d \in Calls : d = c
  BY HeldFacts DEF ReadPending, Ask, Answer, Fail, disk, space
<1>1. QueueFree /\ QueueFree' /\ ~Running("resolve") /\ ~Running("resolve")'
  BY <1>0, TypeFacts DEF TypeInv, Shape, QueueFree, Running
<1>2. /\ TokenHeld = ctx.token /\ TokenHeld' = ctx.token
      /\ Record = pendingFile /\ Record' = pendingFile
  BY <1>0, <1>1 DEF TokenHeld, Record
<1>3. StoresLinked'
  BY <1>0, <1>1, <1>2 DEF StoresLinked, LinkInv, Running
<1>4. DeletionsJustified'
  BY <1>0 DEF DeletionsJustified, Deletable, LinkInv
<1>5. CASE ReadPending(c)
  <2>1. /\ phase'[c] \in {"asking", "queued"} /\ reply' = reply
        /\ phase'[c] = "asking" => pendingFile = NothingToResolve
        /\ phase'[c] = "queued" => snapshot'[c] = pendingFile
    BY <1>0, <1>5 DEF ReadPending, Goto, TypeInv, TypeOK
  <2>2. phase'[c] = "asking" => toResolve = pendingFile
    BY <1>1, <2>1 DEF PendingInv
  <2>3. FileRead'
    BY <1>0, <1>1, <2>1, <2>2 DEF FileRead, Informed
  <2> QED
    BY <1>0, <1>3, <1>4, <2>1, <2>3 DEF LinkInv
<1>6. CASE Ask(c) \/ Answer(c) \/ Fail(c)
  <2>1. phase'[c] \in {"sent", "answered", "idle"} /\ toResolve = pendingFile
    BY <1>0, <1>1, <1>6 DEF Ask, Answer, Fail, Goto, LinkInv, FileRead, Informed
  <2>2. FileRead'
    BY <1>0, <2>1 DEF FileRead
  <2>3. CASE Ask(c) \/ Fail(c)
    BY <1>0, <1>3, <1>4, <2>2, <2>3 DEF Ask, Fail, Goto, LinkInv
  <2>4. CASE Answer(c)
    <3>1. reply'[c] \in Replies(ctx.token)
      BY <1>0, <2>4 DEF Answer, TokenInv, TypeInv, TypeOK
    <3>2. /\ DeliveryTypeOK /\ ctx.token \in {NoToken} \cup Token /\ Old(clock, ctx.token)
      BY <1>2, HeldFacts, TypeFacts DEF TypeInv, TypeOK
    <3>3. /\ \A id \in DOMAIN reply'[c].items :
               id \in Ids /\ reply'[c].items[id] = server[id] /\ Deletable(id)
          /\ \A id \in (Ids \ DOMAIN reply'[c].items) \ OutstandingIn(server, reply'[c].token) :
               IsPublished(server[id]) => id \notin OutstandingIn(server, ctx.token)
          /\ ~Paging => ~HasMorePages(reply'[c])
          /\ \A id \in reply'[c].token.rest : Deletable(id)
      BY <3>1, <3>2, ReplyAnswers DEF LinkInv, DeletionsJustified
    <3>4. AnswerInv(reply[c])'
      BY <1>0, <3>3 DEF AnswerInv, Deletable
    <3> QED
      BY <1>0, <1>3, <1>4, <2>2, <3>4 DEF LinkInv
  <2> QED
    BY <1>6, <2>3, <2>4
<1> QED
  BY <1>5, <1>6

\* The beginning of a block.
LEMMA BlockLinks ==
  ASSUME OneCall, TypeInv, TokenInv, LinkInv, NEW c \in Calls, StartCached(c) \/ StartPage(c)
  PROVE  LinkInv'
<1>0. /\ QueueFree /\ phase' = phase /\ reply' = reply
      /\ UNCHANGED <<db, pendingFile, server, clock>>
      /\ \A d \in Calls : d = c /\ Begin(c, "resolve")
      /\ server \in [Ids -> Change]
  BY HeldFacts DEF StartCached, StartPage, disk, space
<1>1. /\ ~QueueFree' /\ Running("resolve")' /\ ~Running("relations")' /\ block'.call = c
      /\ Record' = toResolve'
      /\ ~Running("resolve") /\ TokenHeld = ctx.token /\ Record = pendingFile
  BY <1>0, BeginFacts DEF Steps, Record, Running, TokenHeld
<1>2. FileRead'
  BY <1>1 DEF FileRead
<1>3. CASE StartCached(c)
  <2>1. phase[c] = "queued" /\ ctx' = ctx /\ toResolve' = snapshot[c] /\ snapshot[c] = pendingFile
    BY <1>0, <1>3 DEF StartCached, LinkInv, FileRead
  <2>2. TokenHeld' = ctx.token
    BY <1>0, <1>1, <2>1 DEF TokenHeld
  <2>3. StoresLinked'
    BY <1>0, <1>1, <2>1, <2>2 DEF StoresLinked, LinkInv
  <2>4. DeletionsJustified'
    BY <1>0, <2>1 DEF DeletionsJustified, Deletable, LinkInv
  <2> QED
    BY <1>0, <1>2, <2>1, <2>3, <2>4 DEF LinkInv
<1>4. CASE StartPage(c)
  <2> DEFINE items == reply[c].items
  <2>1. /\ phase[c] = "answered" /\ toResolve = pendingFile /\ AnswerInv(reply[c])
        /\ IsReply(reply[c]) /\ ctx \in Store /\ ctx.objects \in Objects
    BY <1>0, <1>1, <1>4, TypeFacts DEF StartPage, LinkInv, FileRead, Informed, TypeInv, Shape
  <2>2. /\ ctx' = [ctx EXCEPT !.objects = ApplyItems(ctx.objects, items)]
        /\ toResolve' = [k \in EntryKey |->
              IF k \in {q \in EntryKey : q.id \in DOMAIN items /\ IsPublished(items[q.id])}
              THEN RelationshipsOf(items[k.id].links, k.locale) ELSE toResolve[k]]
    BY <1>4 DEF StartPage
  <2>3. /\ ctx'.objects = ApplyItems(ctx.objects, items) /\ ctx'.token = ctx.token
        /\ \A k \in EntryKey :
              toResolve'[k] = IF k.id \in DOMAIN items /\ IsPublished(items[k.id])
                              THEN RelationshipsOf(items[k.id].links, k.locale)
                              ELSE toResolve[k]
    BY <2>1, <2>2 DEF Store
  <2>4. TokenHeld' = reply[c].token
    BY <1>0, <1>1, <2>1 DEF TokenHeld
  <2>5. DOMAIN items \in SUBSET Ids /\ items \in [DOMAIN items -> Change]
    BY <2>1, ReplyType
  <2>6. Linked(server, ctx.objects, ctx.token, toResolve)
    BY <1>1, <2>1 DEF LinkInv, StoresLinked
  <2>7. /\ \A id \in DOMAIN items \ OutstandingIn(server, reply[c].token) : items[id] = server[id]
        /\ \A id \in (Ids \ DOMAIN items) \ OutstandingIn(server, reply[c].token) :
              IsPublished(server[id]) => id \notin OutstandingIn(server, ctx.token)
        /\ TargetsStay => \A id \in DOMAIN items : IsPublished(items[id]) \/ id \in Unpublishable
    BY <1>0, <2>1 DEF AnswerInv
  <2> HIDE DEF items
  <2>8. Linked(server, ApplyItems(ctx.objects, items), reply[c].token, toResolve')
    <3>1. /\ TruePage(server, ctx.token, reply[c].token, DOMAIN items, items)
          /\ Recorded(DOMAIN items, items, toResolve, toResolve')
      BY <2>3, <2>7 DEF TruePage, Recorded
    <3> QED
      BY <1>0, <2>1, <2>5, <2>6, <3>1, PageLinked
  <2>9. StoresLinked'
    BY <1>0, <1>1, <2>3, <2>4, <2>8 DEF StoresLinked
  <2>10. DeletionsJustified'
    BY <1>0, <2>3 DEF DeletionsJustified, Deletable, LinkInv
  <2>11. AnswerInv(reply[c])'
    BY <1>0, <1>1, <2>1 DEF AnswerInv, Deletable
  <2> QED
    BY <1>0, <1>2, <2>9, <2>10, <2>11 DEF LinkInv
<1> QED
  BY <1>3, <1>4

\* The end of a block, when what it was for is done.
LEMMA FinishLinks ==
  ASSUME OneCall, TypeInv, TokenInv, LinkInv, ~QueueFree, ~Running("resolve"),
         NEW token \in {NoToken} \cup Token, Finish(block.call, token),
         UNCHANGED <<ctx, db, toResolve, pendingFile, server, clock>>,
         SavedAtOnce => db = ctx
  PROVE  LinkInv'
<1> DEFINE c == block.call
<1>0. c \in Calls /\ phase[c] \in {"queued", "answered", "migrating"}
  BY TypeFacts DEF TypeInv, Shape
<1>1. /\ QueueFree' /\ ~Running("resolve")' /\ ~Running("relations")'
      /\ phase'[c] \in {"called", "sent", "idle"} /\ \A d \in Calls : d = c
      /\ phase'[c] = "sent" => phase[c] \in {"queued", "answered"}
  BY <1>0, HeldFacts, FinishFacts DEF Finish, Goto, Running, QueueFree
<1> HIDE DEF c
<1>2. /\ Linked(server, ctx.objects, ctx.token, pendingFile)
      /\ TokenHeld' = ctx.token /\ Record' = pendingFile
  BY <1>1 DEF LinkInv, StoresLinked, TokenHeld, Record
<1>3. StoresLinked'
  BY <1>1, <1>2 DEF StoresLinked
<1>4. FileRead'
  <2>1. phase'[c] = "sent" => toResolve = pendingFile
    BY <1>0, <1>1 DEF LinkInv, FileRead, Informed
  <2> QED
    BY <1>0, <1>1, <2>1 DEF FileRead, Informed
<1>5. DeletionsJustified'
  BY DEF DeletionsJustified, Deletable, LinkInv
<1> QED
  BY <1>1, <1>3, <1>4, <1>5 DEF LinkInv

LEMMA QueueLinks ==
  ASSUME OneCall, PlainIds, TypeInv, TokenInv, LinkInv, Queue
  PROVE  LinkInv'
<1> DEFINE c == block.call
<1>0. /\ ~QueueFree /\ c \in Calls /\ \A d \in Calls : d = c
      /\ UNCHANGED <<server, clock>> /\ ctx \in Store
      /\ phase[c] \in {"queued", "answered", "migrating"}
  BY TypeFacts, HeldFacts
  DEF Queue, ResolveEntry, WritePending, Commit, CommitRefused, SaveRelations, Running,
      TypeInv, Shape, space
<1> HIDE DEF c
<1>1. ASSUME NEW k \in EntryKey, ResolveEntry(k) PROVE LinkInv'
  <2>1. /\ UNCHANGED <<phase, reply, block, db, pendingFile, snapshot>>
        /\ ctx'.token = ctx.token /\ Running("resolve")
    BY <1>1, ResolveEntryEffect DEF ResolveEntry, disk, TypeInv, TypeOK, Store
  <2>2. /\ Running("resolve")' /\ ~Running("relations")' /\ ~QueueFree'
        /\ TokenHeld' = TokenHeld /\ Record = toResolve /\ Record' = toResolve'
    BY <2>1 DEF Running, QueueFree, TokenHeld, Record
  <2>3. Linked(server, ctx.objects, TokenHeld, toResolve)
    BY <2>2, <2>1 DEF LinkInv, StoresLinked
  <2>4. Linked(server, ctx'.objects, TokenHeld, toResolve')
    BY <1>1, <2>3, HeldFacts, VisitLinked
  <2>5. StoresLinked'
    BY <1>0, <2>2, <2>4 DEF StoresLinked
  <2>6. FileRead'
    BY <2>2 DEF FileRead
  <2>7. DeletionsJustified'
    BY <1>0, <2>1 DEF DeletionsJustified, Deletable, LinkInv
  <2>8. \A d \in Calls : phase'[d] = "answered" => AnswerInv(reply[d])'
    BY <1>0, <2>1, <2>2 DEF LinkInv, AnswerInv, Deletable
  <2> QED
    BY <2>5, <2>6, <2>7, <2>8 DEF LinkInv
<1>2. CASE WritePending
  <2>1. /\ Running("resolve") /\ UNCHANGED <<toResolve, db>> /\ pendingFile' = toResolve
        /\ phase[c] \in {"queued", "answered"}
        /\ Record = toResolve
    BY <1>0, <1>2 DEF WritePending, UnresolvedFile, c, TypeInv, Shape, Running, Record
  <2>2. Linked(server, ctx.objects, TokenHeld, toResolve)
    BY <2>1 DEF LinkInv, StoresLinked
  <2>3. CASE phase[c] = "queued"
    <3>1. Begin(c, "commit") /\ UNCHANGED <<ctx, phase, reply>>
      BY <1>2, <2>3 DEF WritePending, c
    <3>2. ~QueueFree' /\ ~Running("resolve")' /\ ~Running("relations")'
      BY <1>0, <3>1, BeginFacts DEF Steps, Running
    <3>3. TokenHeld = ctx.token /\ TokenHeld' = ctx.token /\ Record' = toResolve
      BY <2>1, <2>3, <3>1, <3>2 DEF TokenHeld, Record, c
    <3>4. StoresLinked' /\ FileRead'
      BY <1>0, <2>1, <2>2, <3>1, <3>2, <3>3 DEF StoresLinked, FileRead
    <3>5. DeletionsJustified'
      BY <1>0, <2>1, <3>1 DEF DeletionsJustified, Deletable, LinkInv
    <3> QED
      BY <1>0, <2>3, <3>1, <3>4, <3>5 DEF LinkInv
  <2>4. CASE phase[c] = "answered"
    <3>1. /\ ctx' = [ctx EXCEPT !.token = reply[c].token]
          /\ IF HasMorePages(reply[c])
             THEN Finish(c, reply[c].token)
             ELSE Begin(c, "commit") /\ UNCHANGED <<phase, asked, reply>>
      BY <1>2, <2>4 DEF WritePending, c
    <3>2. /\ ctx'.objects = ctx.objects /\ ctx'.token = reply[c].token
          /\ AnswerInv(reply[c]) /\ reply[c].token \in Token
      BY <1>0, <2>4, <3>1, ReplyType DEF Store, LinkInv, TypeInv, Shape
    <3>3. /\ ~Running("resolve")' /\ ~Running("relations")'
          /\ QueueFree' => HasMorePages(reply[c]) /\ phase'[c] # "queued"
          /\ phase'[c] = "answered" => ~QueueFree' /\ reply'[c] = reply[c]
      <4>1. CASE HasMorePages(reply[c])
        BY <1>0, <2>4, <3>1, <3>2, <4>1, FinishFacts DEF c, Running, QueueFree
      <4>2. CASE ~HasMorePages(reply[c])
        BY <1>0, <2>4, <3>1, <4>2, BeginFacts DEF Steps, Running
      <4> QED
        BY <4>1, <4>2
    <3>4. TokenHeld = reply[c].token /\ TokenHeld' = reply[c].token /\ Record' = toResolve
      BY <2>1, <2>4, <3>2, <3>3 DEF TokenHeld, Record, c
    <3>5. SavedAtOnce => ~QueueFree'
      BY <3>2, <3>3 DEF SavedAtOnce, AnswerInv
    <3>6. StoresLinked' /\ FileRead'
      BY <1>0, <2>1, <2>2, <3>2, <3>3, <3>4, <3>5 DEF StoresLinked, FileRead
    <3>7. DeletionsJustified'
      BY <1>0, <2>1, <3>2 DEF DeletionsJustified, Deletable, LinkInv, AnswerInv
    <3>8. ASSUME NEW d \in Calls, phase'[d] = "answered" PROVE AnswerInv(reply[d])'
      <4>1. d = c /\ ~QueueFree' /\ reply'[d] = reply[d] /\ AnswerInv(reply[d])
        BY <1>0, <3>2, <3>3, <3>8
      <4> QED
        BY <1>0, <4>1 DEF AnswerInv, Deletable
    <3> QED
      BY <1>0, <3>6, <3>7, <3>8 DEF LinkInv
  <2> QED
    BY <2>1, <2>3, <2>4
<1>3. CASE Commit
  <2>1. /\ Running("commit") /\ db' = ctx /\ Begin(c, "relations")
        /\ UNCHANGED <<ctx, phase, reply, toResolve, pendingFile>>
    BY <1>3 DEF Commit, c
  <2>2. /\ ~QueueFree' /\ ~Running("resolve")' /\ ~Running("resolve")
    BY <1>0, <2>1, BeginFacts DEF Steps, Running
  <2>3. TokenHeld = ctx.token /\ TokenHeld' = ctx.token /\ Record = pendingFile /\ Record' = pendingFile
    BY <2>1, <2>2 DEF TokenHeld, Record
  <2>4. StoresLinked'
    BY <1>0, <2>1, <2>2, <2>3 DEF StoresLinked, LinkInv
  <2>5. FileRead'
    BY <1>0, <2>1, <2>2 DEF FileRead, LinkInv, Informed
  <2>6. DeletionsJustified'
    BY <1>0, <2>1 DEF DeletionsJustified, Deletable, LinkInv
  <2>7. \A d \in Calls : phase'[d] = "answered" => AnswerInv(reply[d])'
    BY <1>0, <2>1, <2>2 DEF LinkInv, AnswerInv, Deletable
  <2> QED
    BY <2>4, <2>5, <2>6, <2>7 DEF LinkInv
<1>4. CASE CommitRefused
  <2>1. /\ Running("commit") /\ ~Valid(ctx.objects) /\ Finish(block.call, ctx.token)
        /\ UNCHANGED <<ctx, db, toResolve, pendingFile>>
    BY <1>4 DEF CommitRefused, disk
  <2>2. ~SavedAtOnce
    BY <2>1 DEF SavedAtOnce, Valid
  <2>3. ~Running("resolve") /\ ctx.token \in {NoToken} \cup Token
    BY <2>1, TypeFacts DEF Running
  <2> QED
    BY <1>0, <2>1, <2>2, <2>3, FinishLinks
<1>5. CASE SaveRelations
  <2>1. /\ Running("relations") /\ Finish(block.call, ctx.token)
        /\ UNCHANGED <<ctx, db, toResolve, pendingFile>>
    BY <1>5 DEF SaveRelations
  <2>2. db = ctx
    BY <2>1 DEF LinkInv, StoresLinked
  <2>3. ~Running("resolve") /\ ctx.token \in {NoToken} \cup Token
    BY <2>1, TypeFacts DEF Running
  <2> QED
    BY <1>0, <2>1, <2>2, <2>3, FinishLinks
<1> QED
  BY <1>1, <1>2, <1>3, <1>4, <1>5 DEF Queue

\* The process ends where the store file is not behind the file of links.
LEMMA CrashLinks ==
  ASSUME OneCall, NothingRevertedAlone, TypeInv, TokenInv, LinkInv, Crash \/ CrashInWipe
  PROVE  LinkInv'
<1>1. Restarted
  BY DEF Crash, CrashInWipe
<1>2. /\ QueueFree' /\ ~Running("resolve")' /\ ~Running("relations")'
      /\ TokenHeld' = ctx'.token /\ Record' = pendingFile' /\ ctx' = db'
      /\ UNCHANGED <<server, clock>>
      /\ \A c \in Calls : phase'[c] = "idle"
  BY <1>1 DEF Restarted, Crash, CrashInWipe, QueueFree, Running, TokenHeld, Record, space
<1>3. Linked(server, db'.objects, db'.token, pendingFile') /\ db'.token \in {db.token, NoToken}
  <2>1. CASE CrashInWipe
    <3>1. db' = EmptyStore /\ Present(EmptyStore.objects) = {} /\ EmptyStore.token = NoToken
      BY <2>1 DEF CrashInWipe, EmptyStore, Present
    <3> QED
      BY <3>1, EmptyLinked
  <2>2. CASE Crash
    <3>1. db' = db /\ (QueueFree => "none" \in CrashSteps) /\ (~QueueFree => block.step \in CrashSteps)
      BY <2>2 DEF Crash
    <3>2. CASE QueueFree
      <4>1. SavedAtOnce /\ ~Running("resolve")
        BY <3>1, <3>2 DEF NothingRevertedAlone, Running
      <4>2. pendingFile' = pendingFile
        BY <2>2, <4>1 DEF Crash
      <4> QED
        BY <3>1, <3>2, <4>1, <4>2 DEF LinkInv, StoresLinked
    <3>3. CASE ~QueueFree
      <4>1. Running("relations") /\ ~Running("resolve")
        BY <3>1, <3>3, TypeFacts DEF NothingRevertedAlone, Running, Steps
      <4>2. pendingFile' = pendingFile
        BY <2>2, <4>1 DEF Crash
      <4>3. db = ctx /\ TokenHeld = ctx.token /\ Record = pendingFile
        BY <4>1 DEF LinkInv, StoresLinked, TokenHeld, Record
      <4> QED
        BY <3>1, <4>2, <4>3 DEF LinkInv, StoresLinked
    <3> QED
      BY <3>2, <3>3
  <2> QED
    BY <2>1, <2>2
<1>4. StoresLinked' /\ FileRead'
  BY <1>2, <1>3 DEF StoresLinked, FileRead, Informed
<1>5. DeletionsJustified'
  BY <1>2, <1>3 DEF DeletionsJustified, Deletable, LinkInv
<1> QED
  BY <1>2, <1>4, <1>5 DEF LinkInv

\* What is not published any more may be unpublished.
LEMMA EditFacts ==
  ASSUME TypeInv, Edit
  PROVE  /\ UNCHANGED <<memory, disk>>
         /\ server \in [Ids -> Change] /\ server' \in [Ids -> Change] /\ clock \in Nat
         /\ \E id \in Ids : /\ server'[id].at = clock + 1
                            /\ \A other \in Ids \ {id} : server'[other] = server[other]
                            /\ Deletable(id)'
<1>0. /\ server \in [Ids -> Change] /\ server' \in [Ids -> Change]
      /\ clock \in Nat /\ UNCHANGED <<memory, disk>>
  BY EditType DEF Edit, TypeInv, TypeOK, DeliveryTypeOK
<1>1. ASSUME NEW id \in Ids, NEW links, SetResource(id, links)
      PROVE  /\ server'[id] = [at |-> clock + 1, links |-> links]
             /\ \A other \in Ids \ {id} : server'[other] = server[other]
  BY <1>0, <1>1 DEF SetResource
<1>2. CASE \E id \in Ids : Publish(id)
  <2>1. PICK id \in Ids : Publish(id)
    BY <1>2
  <2>2. PICK links \in Drafts[id] : SetResource(id, links)
    BY <2>1 DEF Publish
  <2>3. links # Unpublished
    BY <2>2, DeliveryAssumption
  <2> QED
    BY <1>0, <1>1, <2>2, <2>3 DEF Deletable, IsPublished
<1>3. CASE \E id \in Unpublishable : Unpublish(id)
  <2>1. PICK id \in Unpublishable : SetResource(id, Unpublished)
    BY <1>3 DEF Unpublish
  <2>2. id \in Ids
    BY <2>1, DeliveryAssumption
  <2> QED
    BY <1>0, <1>1, <2>1, <2>2 DEF Deletable
<1> QED
  BY <1>2, <1>3 DEF Edit

LEMMA EditLinks ==
  ASSUME OneCall, TypeInv, TokenInv, LinkInv, Edit
  PROVE  LinkInv'
<1>1. PICK id \in Ids : /\ server'[id].at = clock + 1
                        /\ \A other \in Ids \ {id} : server'[other] = server[other]
                        /\ Deletable(id)'
  BY EditFacts
<1>2. /\ server \in [Ids -> Change] /\ server' \in [Ids -> Change] /\ clock \in Nat
      /\ UNCHANGED <<ctx, toResolve, phase, snapshot, reply, block, db, pendingFile>>
  BY EditFacts DEF memory, disk
<1>3. \A other \in Ids : Deletable(other) => Deletable(other)'
  BY <1>1 DEF Deletable
<1>4. /\ TokenHeld' = TokenHeld /\ Record' = Record /\ QueueFree' = QueueFree
      /\ Running("relations")' = Running("relations") /\ Running("resolve")' = Running("resolve")
  BY <1>2 DEF TokenHeld, Record, Running, QueueFree
<1>5. /\ TokenHeld \in {NoToken} \cup Token /\ Old(clock, TokenHeld)
      /\ db.token \in {NoToken} \cup Token /\ Old(clock, db.token)
      /\ ctx.token \in {NoToken} \cup Token
  BY HeldFacts, TypeFacts DEF TokenInv, Consistent, TypeInv, TypeOK, Store
<1>6. ASSUME NEW objects, NEW token \in {NoToken} \cup Token, NEW unresolved, Old(clock, token)
      PROVE  /\ Linked(server, objects, token, unresolved)
                   => Linked(server', objects, token, unresolved)
             /\ id \in OutstandingIn(server', token)
  <2>1. id \in OutstandingIn(server', token)
    BY <1>1, <1>2, <1>6 DEF OutstandingIn, Old, Token
  <2> QED
    BY <1>1, <1>2, <1>6, <2>1, ChangeLinked
<1>7. StoresLinked'
  BY <1>2, <1>4, <1>5, <1>6 DEF LinkInv, StoresLinked
<1>8. FileRead'
  BY <1>2, <1>4 DEF LinkInv, FileRead, Informed
<1>9. DeletionsJustified'
  <2>1. \A other \in Ids : Deletable(other)' \/ server'[other].at = 0
    BY <1>1, <1>3 DEF LinkInv, DeletionsJustified
  <2>2. \A store \in {ctx, db} : store.token # NoToken => store.token.rest \subseteq Ids
    BY <1>5, TypeFacts DEF Token
  <2> QED
    BY <1>2, <1>3, <2>1, <2>2 DEF LinkInv, DeletionsJustified
<1>10. ASSUME NEW c \in Calls, phase[c] = "answered" PROVE AnswerInv(reply[c])'
  <2>1. /\ AnswerInv(reply[c]) /\ reply[c].token \in Token /\ reply[c].token.rest \subseteq Ids
        /\ DOMAIN reply[c].items \subseteq Ids /\ Old(clock, reply[c].token)
        /\ reply'[c] = reply[c]
    BY <1>2, <1>10, ReplyType DEF LinkInv, TokenInv, TypeInv, Shape, Token
  <2>2. id \in OutstandingIn(server', reply[c].token)
    BY <1>6, <2>1
  <2>3. \A other \in Ids \ {id}, token \in {reply[c].token, ctx.token} :
           other \in OutstandingIn(server', token) <=> other \in OutstandingIn(server, token)
    BY <1>1 DEF OutstandingIn
  <2>4. \A other \in DOMAIN reply[c].items \ OutstandingIn(server', reply[c].token) :
           reply[c].items[other] = server'[other]
    BY <1>1, <2>1, <2>2, <2>3 DEF AnswerInv
  <2>5. QueueFree => \A other \in (Ids \ DOMAIN reply[c].items)
                                     \ OutstandingIn(server', reply[c].token) :
           IsPublished(server'[other]) => other \notin OutstandingIn(server', ctx.token)
    BY <1>1, <2>1, <2>2, <2>3 DEF AnswerInv
  <2> QED
    BY <1>2, <1>3, <1>4, <2>1, <2>4, <2>5 DEF AnswerInv
<1> QED
  BY <1>2, <1>7, <1>8, <1>9, <1>10 DEF LinkInv

LEMMA StutterLinks ==
  ASSUME LinkInv, UNCHANGED vars
  PROVE  LinkInv'
<1>1. UNCHANGED <<ctx, db, toResolve, pendingFile, phase, snapshot, reply, block, server>>
  BY DEF vars, memory, disk, space
<1>2. StoresLinked'
  BY <1>1 DEF LinkInv, StoresLinked, TokenHeld, Record, Running, QueueFree
<1>3. FileRead' /\ DeletionsJustified'
  BY <1>1 DEF LinkInv, FileRead, Informed, DeletionsJustified, Deletable, Running, QueueFree
<1>4. \A c \in Calls : phase'[c] = "answered" => AnswerInv(reply[c])'
  BY <1>1 DEF LinkInv, AnswerInv, Deletable, QueueFree
<1> QED
  BY <1>2, <1>3, <1>4 DEF LinkInv

-----------------------------------------------------------------------------
(* The theorems.                                                            *)

\* What is stored, what is on record and what has been answered add up to the
\* published links, in every reachable state.
THEOREM LinkInvariant ==
  ASSUME OneCall, PlainIds, NothingRevertedAlone
  PROVE  Spec => []LinkInv
<1>1. TypeInv /\ TokenInv /\ PendingInv /\ LinkInv /\ [Next]_vars => LinkInv'
  <2> SUFFICES ASSUME TypeInv, TokenInv, PendingInv, LinkInv, Next PROVE LinkInv'
    BY StutterLinks
  <2>1. CASE Edit
    BY <2>1, EditLinks
  <2>2. ASSUME NEW c \in Calls, Sync(c) PROVE LinkInv'
    BY <2>2, SyncLinks
  <2>3. ASSUME NEW c \in Calls, Local(c) \/ Answer(c) \/ Fail(c) PROVE LinkInv'
    BY <2>3, CallLinks, BlockLinks DEF Local
  <2>4. CASE Queue
    BY <2>4, QueueLinks
  <2>5. CASE Crash \/ CrashInWipe
    BY <2>5, CrashLinks
  <2> QED
    BY <2>1, <2>2, <2>3, <2>4, <2>5 DEF Next
<1>2. Spec => []TokenInv
  BY TokenInvariant DEF OneCall
<1> QED
  BY <1>1, <1>2, InitLinks, TypeInvariant, PendingInvariant, PTL DEF Spec

\* What the invariant says of an entry the app could look at.
LEMMA BetweenBlocks ==
  ASSUME LinkInv, QueueFree, NEW k \in UpToDate, NEW f \in LinkFields(k)
  PROVE  \/ OnRecord(k, f)
         \/ /\ ctx.objects[k].links[f] \subseteq Targets(k, f)
            /\ TargetsStay => Targets(k, f) \subseteq ctx.objects[k].links[f]
<1>1. /\ k \in EntryKey /\ f \in Fields /\ server[k.id].links[f] # NotLink
      /\ ctx.objects[k] # NoObject /\ IsPublished(server[k.id])
      /\ k.id \notin OutstandingIn(server, ctx.token)
  BY DEF UpToDate, LinkFields, Outstanding, OutstandingIn
<1>2. TokenHeld = ctx.token /\ Record = pendingFile
  BY DEF TokenHeld, Record, Running
<1>3. FieldInv(server[k.id], k, f, ctx.objects, pendingFile[k])
  BY <1>1, <1>2 DEF LinkInv, StoresLinked, Linked, EntryInv
<1>4. Targets(k, f) = WantedOf(server[k.id], k, f) \cap Present(ctx.objects)
  BY DEF Targets, Wanted, WantedOf
<1> QED
  BY <1>3, <1>4 DEF FieldInv, OnRecord

\* Between blocks, an up-to-date entry is linked to nothing its published
\* version does not link to, unless the field is on record as unresolved:
\* whatever the links, the pages and the failures, and wherever the process
\* ends without taking saved links back.
THEOREM LinksNeverWrong ==
  ASSUME OneCall, PlainIds, NothingRevertedAlone
  PROVE  Spec => []LinkNotWrong
<1>1. LinkInv => LinkNotWrong
  BY BetweenBlocks DEF LinkNotWrong
<1> QED
  BY <1>1, LinkInvariant, PTL

\* And none of its links to what is stored is missing, unless the field is on
\* record, if nothing that is linked to is ever unpublished.
THEOREM LinksNeverLost ==
  ASSUME OneCall, PlainIds, NothingRevertedAlone, TargetsStay
  PROVE  Spec => []LinkNotLost
<1>1. LinkInv => LinkNotLost
  BY BetweenBlocks DEF LinkNotLost
<1> QED
  BY <1>1, LinkInvariant, PTL
=============================================================================
