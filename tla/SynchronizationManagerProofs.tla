-------------------- MODULE SynchronizationManagerProofs --------------------
(***************************************************************************)
(* The synchronization manager for any space, any links, any number of     *)
(* locales, calls and pages: types, the file of unresolved links, the      *)
(* version of the store and, for an app that has one sync() under way at a *)
(* time, the sync token.                                                   *)
(***************************************************************************)
EXTENDS SynchronizationManager, RelationshipDataProofs

-----------------------------------------------------------------------------
(* The types of the operators.                                              *)

Objects == [Key -> {NoObject} \cup Object]
UnresolvedFields == [Fields -> {Settled, Sentinel} \cup SUBSET Key]
UnresolvedLinks == [EntryKey -> Unresolved]

LEMMA EntryKeysAreKeys == EntryKey \subseteq Key
BY SynchronizationAssumption DEF EntryKey, Key, Persisted

LEMMA EmptyStoreType == EmptyStore \in Store /\ NothingToResolve \in UnresolvedLinks
BY DEF EmptyStore, Store, NothingToResolve, UnresolvedLinks, Unresolved

LEMMA EmptyDataType == EmptyData \in Data
BY DEF EmptyData, Data

LEMMA RelationshipsType ==
  ASSUME rel \in {NotLoaded} \cup Data, relFile \in Data
  PROVE  Relationships \in Data
BY DEF Relationships

LEMMA DeleteParentsType ==
  ASSUME NEW d \in Data, NEW parents
  PROVE  DeleteParents(d, parents) \in Data
<1> DEFINE kps == {k \in KeyPath : k.parent \in parents /\ d.rels[k] # NoRelationship}
<1>1. kps \in SUBSET KeyPath /\ [kp \in kps |-> NoRelationship] \in Assignments(kps)
  BY DEF Assignments
<1> HIDE DEF kps
<1>2. SetRelationships(d, [kp \in kps |-> NoRelationship]) \in Data
  BY <1>1, SetRelationshipsType
<1> QED
  BY <1>2 DEF DeleteParents, kps

\* What a published version of a resource may link to.
LEMMA DraftType ==
  ASSUME NEW change \in Change, IsPublished(change)
  PROVE  change.links \in [Fields -> {NoValue, NotLink} \cup SUBSET Ids]
BY SynchronizationAssumption DEF Change, IsPublished

LEMMA RelationshipsOfType ==
  ASSUME NEW links \in [Fields -> {NoValue, NotLink} \cup SUBSET Ids], NEW locale \in Locales
  PROVE  RelationshipsOf(links, locale) \in UnresolvedFields
<1>1. \A ids \in SUBSET Ids : InLocale(ids, locale) \in SUBSET Key
  BY DEF InLocale, Key
<1> QED
  BY <1>1 DEF RelationshipsOf, UnresolvedFields

\* The objects a page leaves, and which of them there are.
LEMMA ApplyItemsType ==
  ASSUME NEW objects \in Objects, NEW page \in SUBSET Ids, NEW items \in [page -> Change]
  PROVE  ApplyItems(objects, items) \in Objects
<1> SUFFICES ASSUME NEW k \in Key
             PROVE  ApplyItems(objects, items)[k] \in {NoObject} \cup Object
  BY DEF ApplyItems, Objects
<1> DEFINE created == {id \in DOMAIN items \cap Persisted : IsPublished(items[id])}
           deleted == {id \in DOMAIN items : ~IsPublished(items[id])}
           links == IF objects[k] = NoObject THEN [f \in Fields |-> {}]
                    ELSE [f \in Fields |-> {t \in objects[k].links[f] : t.id \notin deleted}]
<1>1. objects[k] = NoObject \/ objects[k] \in Object
  BY DEF Objects
<1>2. links \in [Fields -> SUBSET Key]
  BY <1>1 DEF Object
<1>3. \A id \in created : items[id].at \in Nat
  BY DEF Change
<1>4. ApplyItems(objects, items)[k] =
         IF k.id \in created THEN [at |-> items[k.id].at, links |-> links]
         ELSE IF k.id \in deleted \/ objects[k] = NoObject THEN NoObject
         ELSE [at |-> objects[k].at, links |-> links]
  BY DEF ApplyItems
<1> HIDE DEF created, deleted, links
<1>5. CASE k.id \in created
  BY <1>2, <1>3, <1>4, <1>5 DEF Object
<1>6. CASE k.id \notin created
  BY <1>1, <1>2, <1>4, <1>6 DEF Object
<1> QED
  BY <1>5, <1>6

\* What is handed to the RelationshipsManager are relationships of the entry.
LEMMA NewRelationshipsType ==
  ASSUME NEW k \in EntryKey, NEW fields \in UnresolvedFields
  PROVE  /\ DOMAIN NewRelationships(k, fields) \in SUBSET KeyPath
         /\ NewRelationships(k, fields) \in Assignments(DOMAIN NewRelationships(k, fields))
<1> DEFINE keyPath(f) == IF fields[f] = Sentinel
                         THEN [parent |-> k.id, field |-> f, locale |-> k.locale]
                         ELSE KeyPathOf(k.id, f, fields[f])
           kps == {keyPath(f) : f \in OpenFields(fields)}
           value(kp) == IF fields[kp.field] = Sentinel THEN NoRelationship
                        ELSE {t.id : t \in fields[kp.field]}
<1>1. ASSUME NEW f \in OpenFields(fields)
      PROVE  fields[f] = Sentinel \/ fields[f] \in SUBSET Key
  BY DEF OpenFields, UnresolvedFields
<1>2. ASSUME NEW f \in OpenFields(fields)
      PROVE  keyPath(f) \in KeyPath /\ keyPath(f).field = f
  <2>1. f \in Fields /\ k.id \in Parents /\ k.locale \in Locales
    BY DEF OpenFields, EntryKey
  <2>2. CASE fields[f] = Sentinel
    BY <2>1, <2>2 DEF KeyPath
  <2>3. CASE fields[f] # Sentinel
    <3>1. fields[f] \in SUBSET Key
      BY <1>1, <2>3
    <3>2. fields[f] # {} => (CHOOSE c \in fields[f] : TRUE) \in Key
      BY <3>1
    <3>3. LocaleOf(fields[f]) \in Locales \cup {NoLocale}
      BY <3>2 DEF LocaleOf, Key
    <3> QED
      BY <2>1, <2>3, <3>3 DEF KeyPathOf, KeyPath
  <2> QED
    BY <2>2, <2>3
<1>3. ASSUME NEW kp \in kps
      PROVE  value(kp) \in {NoRelationship} \cup SUBSET ChildIds
  <2>1. kp.field \in OpenFields(fields)
    BY <1>2
  <2>2. CASE fields[kp.field] = Sentinel
    BY <2>2
  <2>3. CASE fields[kp.field] # Sentinel
    <3>1. fields[kp.field] \in SUBSET Key
      BY <1>1, <2>1, <2>3
    <3>2. {t.id : t \in fields[kp.field]} \in SUBSET ChildIds
      BY <3>1, SynchronizationAssumption DEF Key
    <3> QED
      BY <2>3, <3>2
  <2> QED
    BY <2>2, <2>3
<1>4. NewRelationships(k, fields) = [kp \in kps |-> value(kp)]
  BY DEF NewRelationships
<1> HIDE DEF keyPath, kps, value
<1>5. kps \in SUBSET KeyPath
  BY <1>2 DEF kps
<1>6. DOMAIN NewRelationships(k, fields) = kps
  BY <1>4
<1> QED
  BY <1>3, <1>4, <1>5, <1>6 DEF Assignments

LEMMA ResolvedLinksType ==
  ASSUME NEW links \in [Fields -> SUBSET Key], NEW fields \in UnresolvedFields,
         NEW seen \in SUBSET Key
  PROVE  ResolvedLinks(links, fields, seen) \in [Fields -> SUBSET Key]
BY DEF ResolvedLinks, UnresolvedFields

LEMMA StillUnresolvedType ==
  ASSUME NEW fields \in UnresolvedFields, NEW seen
  PROVE  StillUnresolved(fields, seen) \in Unresolved
BY DEF StillUnresolved, UnresolvedFields, Unresolved

\* Linking an entry to its parents changes links only.
LEMMA RelinkType ==
  ASSUME NEW objects \in Objects, NEW k \in EntryKey, NEW data,
         NEW seen \in SUBSET Present(objects)
  PROVE  /\ Relink(objects, k, data, seen) \in Objects
         /\ \A q \in Key : /\ Relink(objects, k, data, seen)[q] = NoObject <=> objects[q] = NoObject
                           /\ objects[q] # NoObject =>
                                 Relink(objects, k, data, seen)[q].at = objects[q].at
<1> DEFINE parents(q) == {kp \in Lookup(data, k) : kp.parent = q.id /\ q.locale = k.locale}
           links(q) == [f \in Fields |->
                          IF \A kp \in parents(q) : kp.field # f THEN objects[q].links[f]
                          ELSE IF f \in ToOne THEN {k}
                          ELSE objects[q].links[f] \cup {k}]
           e == Relink(objects, k, data, seen)
<1>1. \A q \in Key : e[q] = IF q \notin seen \cap EntryKey THEN objects[q]
                            ELSE [at |-> objects[q].at, links |-> links(q)]
  BY DEF Relink
<1>2. DOMAIN e = Key /\ e = [q \in Key |-> e[q]]
  BY DEF Relink
<1>3. k \in Key
  BY EntryKeysAreKeys
<1> HIDE DEF e
<1>4. ASSUME NEW q \in Key
      PROVE  /\ e[q] \in {NoObject} \cup Object
             /\ e[q] = NoObject <=> objects[q] = NoObject
             /\ objects[q] # NoObject => e[q].at = objects[q].at
  <2>1. CASE q \notin seen \cap EntryKey
    BY <1>1, <2>1 DEF Objects
  <2>2. CASE q \in seen \cap EntryKey
    <3>1. objects[q] # NoObject /\ objects[q] \in Object
      BY <2>2 DEF Present, Objects
    <3>2. links(q) \in [Fields -> SUBSET Key]
      BY <1>3, <3>1 DEF Object
    <3>3. e[q] = [at |-> objects[q].at, links |-> links(q)]
      BY <1>1, <2>2
    <3> HIDE DEF links
    <3>4. e[q] \in Object /\ e[q].at = objects[q].at
      BY <3>1, <3>2, <3>3 DEF Object
    <3> QED
      BY <3>1, <3>4, AbsenceAssumption
  <2> QED
    BY <2>1, <2>2
<1> QED
  BY <1>2, <1>4 DEF Objects, e

-----------------------------------------------------------------------------
(* Types.                                                                   *)

\* What a block may rely on: the entries it still visits are unresolved, what
\* it has at hand is stored, and the call it runs for waits for it.
Shape ==
    /\ cache \subseteq Present(ctx.objects)
    /\ \A k \in work : toResolve[k] # Nothing
    /\ ~Running("resolve") => work = {} /\ cache = {}
    /\ ~QueueFree => phase[block.call] \in {"queued", "answered"}
                        \cup (IF block.step = "resolve" THEN {} ELSE {"migrating"})
    /\ \A c \in Calls : phase[c] = "answered" => IsReply(reply[c])

TypeInv == TypeOK /\ Shape

\* What the client reads of the space a token stands for is a reply.
LEMMA RepliesType ==
  ASSUME DeliveryTypeOK, NEW token \in {NoToken} \cup Token, NEW r \in Replies(token)
  PROVE  IsReply(r)
<1>1. Remaining(token) \subseteq Ids
  BY DEF Remaining, Token
<1>2. Since(token) \in Nat
  BY DEF Since, Token, DeliveryTypeOK
<1>3. PICK page \in SUBSET Remaining(token) :
        r = [items |-> [id \in page |-> server[id]],
             token |-> [at |-> Since(token), rest |-> Remaining(token) \ page]]
  BY DEF Replies
<1>4. page \in SUBSET Ids
  BY <1>1
<1>5. r.items \in [page -> Change]
  BY <1>3, <1>4 DEF DeliveryTypeOK
<1>6. r.token \in Token
  BY <1>1, <1>2, <1>3 DEF Token
<1>7. r \in [items : [page -> Change], token : Token]
  BY <1>3, <1>5, <1>6
<1> QED
  BY <1>4, <1>7 DEF IsReply

LEMMA ReplyType ==
  ASSUME NEW r, IsReply(r)
  PROVE  /\ DOMAIN r.items \in SUBSET Ids
         /\ r.items \in [DOMAIN r.items -> Change]
         /\ r.token \in Token
BY DEF IsReply

\* The effect of one step of the loop on the objects: none on which there are
\* and of what version, and links that are links.
LEMMA ResolveEntryEffect ==
  ASSUME TypeInv, NEW k \in EntryKey, ResolveEntry(k)
  PROVE  /\ ctx' = [ctx EXCEPT !.objects = ctx'.objects]
         /\ ctx'.objects \in Objects
         /\ Present(ctx'.objects) = Present(ctx.objects)
         /\ \A q \in Present(ctx.objects) : ctx'.objects[q].at = ctx.objects[q].at
         /\ toResolve' \in UnresolvedLinks
         /\ \A q \in EntryKey \ {k} : toResolve'[q] = toResolve[q]
         /\ rel' \in {NotLoaded} \cup Data
         /\ cache' \subseteq cache
         /\ work' = work \ {k}
<1>0. /\ ctx \in Store /\ ctx.objects \in Objects /\ toResolve \in UnresolvedLinks
      /\ rel \in {NotLoaded} \cup Data /\ relFile \in Data
      /\ k \in work /\ k \in Key /\ toResolve[k] # Nothing
      /\ cache \in SUBSET Present(ctx.objects)
      /\ work' = work \ {k}
  BY EntryKeysAreKeys DEF TypeInv, TypeOK, Shape, Store, Objects, UnresolvedLinks, ResolveEntry
<1>1. toResolve[k] \in UnresolvedFields
  BY <1>0 DEF UnresolvedLinks, UnresolvedFields, Unresolved
<1>2. cache' \subseteq cache
  BY DEF ResolveEntry, Evictions
<1>3. CASE k \notin cache'
  <2>1. UNCHANGED <<ctx, toResolve, rel>>
    BY <1>3 DEF ResolveEntry
  <2> QED
    BY <1>0, <1>2, <2>1 DEF Store
<1>4. CASE k \in cache'
  <2> DEFINE new == NewRelationships(k, toResolve[k])
             data == SetRelationships(Relationships, new)
             own == [ctx.objects EXCEPT ![k].links = ResolvedLinks(@, toResolve[k], cache')]
  <2>1. /\ rel' = data
        /\ ctx' = [ctx EXCEPT !.objects = Relink(own, k, data, cache')]
        /\ toResolve' = [toResolve EXCEPT ![k] = StillUnresolved(@, cache')]
    BY <1>4 DEF ResolveEntry
  <2>2. data \in Data
    <3>1. Relationships \in Data
      BY <1>0, RelationshipsType
    <3> QED
      BY <1>1, <3>1, NewRelationshipsType, SetRelationshipsType
  <2>3. ctx.objects[k] # NoObject /\ ctx.objects[k] \in Object
    BY <1>0, <1>2, <1>4 DEF Present, Objects
  <2>4. cache' \in SUBSET Key
    BY <1>0, <1>2 DEF Present
  <2>5. ResolvedLinks(ctx.objects[k].links, toResolve[k], cache') \in [Fields -> SUBSET Key]
    BY <1>1, <2>3, <2>4, ResolvedLinksType DEF Object
  <2>6. own = [ctx.objects EXCEPT ![k] =
                 [at |-> ctx.objects[k].at,
                  links |-> ResolvedLinks(ctx.objects[k].links, toResolve[k], cache')]]
    BY <1>0, <2>3 DEF Object, Objects
  <2> HIDE DEF own, data, new
  <2>7. /\ own \in Objects
        /\ \A q \in Key : /\ own[q] = NoObject <=> ctx.objects[q] = NoObject
                          /\ ctx.objects[q] # NoObject => own[q].at = ctx.objects[q].at
    <3>1. own[k] \in Object /\ own[k].at = ctx.objects[k].at
      BY <1>0, <2>3, <2>5, <2>6 DEF Object, Objects
    <3>2. \A q \in Key \ {k} : own[q] = ctx.objects[q]
      BY <1>0, <2>6 DEF Objects
    <3>3. own \in Objects
      BY <1>0, <2>6, <3>1, <3>2 DEF Objects
    <3> QED
      BY <1>0, <2>3, <3>1, <3>2, <3>3, AbsenceAssumption
  <2>8. cache' \in SUBSET Present(own)
    BY <1>0, <1>2, <2>7 DEF Present
  <2>9. /\ Relink(own, k, data, cache') \in Objects
        /\ \A q \in Key : /\ Relink(own, k, data, cache')[q] = NoObject <=> own[q] = NoObject
                          /\ own[q] # NoObject => Relink(own, k, data, cache')[q].at = own[q].at
    BY <2>7, <2>8, RelinkType
  <2>10. ctx'.objects = Relink(own, k, data, cache')
    BY <1>0, <2>1 DEF Store
  <2>11. StillUnresolved(toResolve[k], cache') \in Unresolved
    BY <1>1, StillUnresolvedType
  <2>12. toResolve' \in UnresolvedLinks /\ \A q \in EntryKey \ {k} : toResolve'[q] = toResolve[q]
    BY <1>0, <2>1, <2>11 DEF UnresolvedLinks
  <2>13. Present(ctx'.objects) = Present(ctx.objects)
    BY <2>7, <2>9, <2>10 DEF Present
  <2>14. \A q \in Present(ctx.objects) : ctx'.objects[q].at = ctx.objects[q].at
    BY <2>7, <2>9, <2>10 DEF Present
  <2> QED
    BY <1>0, <1>2, <2>1, <2>2, <2>9, <2>10, <2>12, <2>13, <2>14
<1> QED
  BY <1>3, <1>4

LEMMA InitType == Init => TypeInv
<1> SUFFICES ASSUME Init PROVE TypeInv
  OBVIOUS
<1>1. DeliveryTypeOK
  <2>1. \A id \in Ids : server[id] \in Change /\ server[id].at = 0
    <3> SUFFICES ASSUME NEW id \in Ids PROVE server[id] \in Change /\ server[id].at = 0
      OBVIOUS
    <3>1. PICK l \in UNION {Initially[i] : i \in Ids} : server[id] = [at |-> 0, links |-> l]
      BY DEF Init, DeliveryInit
    <3>2. l \in {Unpublished} \cup UNION {Drafts[i] : i \in Ids}
      BY DeliveryAssumption
    <3> QED
      BY <3>1, <3>2 DEF Change
  <2>2. server \in [Ids -> Change]
    BY <2>1 DEF Init, DeliveryInit
  <2> QED
    BY <2>1, <2>2, DeliveryAssumption DEF Init, DeliveryInit, DeliveryTypeOK
<1>2. TypeOK
  BY <1>1, EmptyStoreType, EmptyDataType DEF Init, TypeOK, UnresolvedLinks, Phases
<1>3. Shape
  BY DEF Init, Shape, Running, QueueFree
<1> QED
  BY <1>2, <1>3 DEF TypeInv

\* Facts every step may use.
LEMMA TypeFacts ==
  ASSUME TypeInv
  PROVE  /\ ctx \in Store /\ db \in Store
         /\ ctx.objects \in Objects
         /\ ctx.token \in {NoToken} \cup Token
         /\ toResolve \in UnresolvedLinks /\ pendingFile \in UnresolvedLinks
         /\ \A c \in Calls : snapshot[c] \in UnresolvedLinks
         /\ rel \in {NotLoaded} \cup Data /\ relFile \in Data
         /\ Relationships \in Data
         /\ work \subseteq Key
         /\ QueueFree => work = {} /\ cache = {}
         /\ ~QueueFree => block.call \in Calls /\ block.step \in Steps
BY RelationshipsType, EntryKeysAreKeys
   DEF TypeInv, TypeOK, Shape, Store, Objects, UnresolvedLinks, Running, QueueFree

\* Where a block may begin.
LEMMA BeginFacts ==
  ASSUME NEW c \in Calls, NEW step \in Steps, Begin(c, step)
  PROVE  /\ block' \in [call : Calls, step : Steps]
         /\ block'.call = c /\ block'.step = step
         /\ ~QueueFree' /\ (Running("resolve")' <=> step = "resolve")
BY AbsenceAssumption DEF Begin, QueueFree, Running

\* Where a call goes on when its block ends.
LEMMA FinishFacts ==
  ASSUME TypeInv, ~QueueFree, NEW token \in {NoToken} \cup Token,
         Finish(block.call, token)
  PROVE  /\ QueueFree' /\ block' = NoBlock /\ ~Running("resolve")'
         /\ phase' \in [Calls -> Phases] /\ phase'[block.call] \in {"called", "sent", "idle"}
         /\ \A c \in Calls \ {block.call} : phase'[c] = phase[c] /\ reply'[c] = reply[c]
         /\ asked' \in [Calls -> {NoToken} \cup Token]
         /\ DOMAIN reply' = Calls /\ reply'[block.call] = NoReply
<1>1. block.call \in Calls
  BY TypeFacts
<1> QED
  BY <1>1 DEF TypeInv, TypeOK, Finish, Goto, Phases, QueueFree, Running

LEMMA SyncType ==
  ASSUME TypeInv, NEW c \in Calls, Sync(c)
  PROVE  TypeInv'
<1>0. /\ phase[c] = "idle" /\ QueueFree
      /\ work = {} /\ cache = {}
  BY TypeFacts DEF Sync, StartMigrated, StartUnversioned, StartOutdated, StartOutdatedWipeFails
<1> USE TypeFacts DEF TypeInv
<1>1. CASE StartMigrated(c)
  BY <1>0, <1>1 DEF StartMigrated, Goto, TypeOK, Shape, Phases, DeliveryTypeOK, disk, space,
                    Running, QueueFree, UnresolvedLinks, Present
<1>2. CASE StartUnversioned(c)
  <2>1. ctx' \in Store /\ ctx'.objects = ctx.objects
    BY <1>2 DEF StartUnversioned, Store, TypeOK
  <2>2. Begin(c, "commit")
    BY <1>2 DEF StartUnversioned
  <2>3. /\ block' \in [call : Calls, step : Steps]
        /\ ~Running("resolve")' /\ block'.call = c /\ block'.step = "commit"
    BY <2>2, BeginFacts DEF Steps
  <2>4. TypeOK'
    BY <1>2, <2>1, <2>3 DEF StartUnversioned, Goto, TypeOK, Phases, DeliveryTypeOK, disk, space
  <2>5. Shape'
    BY <1>0, <1>2, <2>1, <2>3 DEF StartUnversioned, Goto, TypeOK, Shape, Present
  <2> QED
    BY <2>4, <2>5
<1>3. CASE StartOutdated(c)
  <2>1. ctx' \in Store /\ db' \in Store /\ toResolve' \in UnresolvedLinks /\ relFile' \in Data
    BY <1>3, EmptyStoreType, EmptyDataType DEF StartOutdated, Store, TypeOK
  <2>2. Begin(c, "commit")
    BY <1>3 DEF StartOutdated
  <2>3. /\ block' \in [call : Calls, step : Steps]
        /\ ~Running("resolve")' /\ block'.call = c /\ block'.step = "commit"
    BY <2>2, BeginFacts DEF Steps
  <2>4. TypeOK'
    BY <1>3, <2>1, <2>3 DEF StartOutdated, Goto, TypeOK, Phases, DeliveryTypeOK, space, UnresolvedLinks
  <2>5. Shape'
    BY <1>0, <1>3, <2>3 DEF StartOutdated, Goto, TypeOK, Shape, Present
  <2> QED
    BY <2>4, <2>5
<1>4. CASE StartOutdatedWipeFails(c)
  <2>1. TypeOK'
    BY <1>4 DEF StartOutdatedWipeFails, Goto, TypeOK, Phases, DeliveryTypeOK, disk, space
  <2>2. Shape'
    BY <1>0, <1>4 DEF StartOutdatedWipeFails, Goto, TypeOK, Shape, Running, QueueFree
  <2> QED
    BY <2>1, <2>2
<1> QED
  BY <1>1, <1>2, <1>3, <1>4 DEF Sync

LEMMA LocalType ==
  ASSUME TypeInv, NEW c \in Calls, Local(c) \/ Answer(c) \/ Fail(c)
  PROVE  TypeInv'
<1> USE TypeFacts DEF TypeInv
<1>1. CASE ReadPending(c)
  <2>1. TypeOK'
    BY <1>1 DEF ReadPending, Goto, TypeOK, Phases, DeliveryTypeOK, disk, space
  <2>2. Shape'
    BY <1>1 DEF ReadPending, Goto, TypeOK, Shape, Running, QueueFree
  <2> QED
    BY <2>1, <2>2
<1>2. CASE StartCached(c)
  <2>1. Begin(c, "resolve") /\ toResolve' = snapshot[c] /\ phase[c] = "queued" /\ ctx' = ctx
    BY <1>2 DEF StartCached
  <2>2. /\ block' \in [call : Calls, step : Steps]
        /\ Running("resolve")' /\ block'.call = c /\ block'.step = "resolve"
    BY <2>1, BeginFacts DEF Steps
  <2>3. TypeOK'
    BY <1>2, <2>2, EmptyStoreType
    DEF StartCached, TypeOK, Phases, DeliveryTypeOK, disk, space, UnresolvedLinks, Present
  <2>4. Shape'
    BY <1>2, <2>1, <2>2 DEF StartCached, TypeOK, Shape
  <2> QED
    BY <2>3, <2>4
<1>3. CASE Ask(c)
  <2>1. TypeOK'
    BY <1>3 DEF Ask, Goto, TypeOK, Phases, DeliveryTypeOK, disk, space
  <2>2. Shape'
    BY <1>3 DEF Ask, Goto, TypeOK, Shape, Running, QueueFree
  <2> QED
    BY <2>1, <2>2
<1>4. CASE StartPage(c)
  <2> DEFINE items == reply[c].items
             unresolved == [k \in EntryKey |->
                              IF k \in {q \in EntryKey : q.id \in DOMAIN items /\ IsPublished(items[q.id])}
                              THEN RelationshipsOf(items[k.id].links, k.locale) ELSE toResolve[k]]
  <2>1. IsReply(reply[c]) /\ phase[c] = "answered"
    BY <1>4 DEF StartPage, Shape
  <2>2. DOMAIN items \in SUBSET Ids /\ items \in [DOMAIN items -> Change]
    BY <2>1, ReplyType
  <2>3. ApplyItems(ctx.objects, items) \in Objects
    BY <2>2, ApplyItemsType
  <2>4. unresolved \in UnresolvedLinks
    <3> SUFFICES ASSUME NEW k \in EntryKey PROVE unresolved[k] \in Unresolved
      BY DEF UnresolvedLinks
    <3>1. CASE k.id \in DOMAIN items /\ IsPublished(items[k.id])
      <4>1. items[k.id].links \in [Fields -> {NoValue, NotLink} \cup SUBSET Ids]
        BY <2>2, <3>1, DraftType
      <4>2. RelationshipsOf(items[k.id].links, k.locale) \in UnresolvedFields
        BY <4>1, RelationshipsOfType DEF EntryKey
      <4> QED
        BY <3>1, <4>2 DEF UnresolvedFields, Unresolved
    <3>2. CASE ~(k.id \in DOMAIN items /\ IsPublished(items[k.id]))
      BY <3>2 DEF UnresolvedLinks
    <3> QED
      BY <3>1, <3>2
  <2> HIDE DEF items, unresolved
  <2>5. /\ ctx' = [ctx EXCEPT !.objects = ApplyItems(ctx.objects, items)]
        /\ toResolve' = unresolved
        /\ work' = {k \in EntryKey : unresolved[k] # Nothing}
        /\ cache' = Present(ctx'.objects)
        /\ rel' = rel \/ \E parents : rel' = DeleteParents(Relationships, parents)
        /\ Begin(c, "resolve")
        /\ UNCHANGED <<phase, snapshot, asked, reply, disk, space, appVersion>>
    BY <1>4 DEF StartPage, items, unresolved
  <2>6. ctx' \in Store
    BY <2>3, <2>5 DEF Store, Objects
  <2>7. rel' \in {NotLoaded} \cup Data
    BY <2>5, DeleteParentsType
  <2>8. /\ block' \in [call : Calls, step : Steps]
        /\ Running("resolve")' /\ block'.call = c /\ block'.step = "resolve"
    BY <2>5, BeginFacts DEF Steps
  <2>9. TypeOK'
    BY <2>4, <2>5, <2>6, <2>7, <2>8
    DEF TypeOK, DeliveryTypeOK, disk, space, UnresolvedLinks, Present
  <2>10. Shape'
    BY <2>1, <2>5, <2>8 DEF TypeOK, Shape
  <2> QED
    BY <2>9, <2>10
<1>5. CASE Answer(c)
  <2>1. PICK r \in Replies(asked[c]) : reply' = [reply EXCEPT ![c] = r]
    BY <1>5 DEF Answer
  <2>2. IsReply(r)
    BY <2>1, RepliesType DEF TypeOK
  <2>3. TypeOK'
    BY <1>5, <2>1, <2>2 DEF Answer, Goto, TypeOK, Phases, DeliveryTypeOK, disk, space, IsReply, Change
  <2>4. Shape'
    BY <1>5, <2>1, <2>2 DEF Answer, Goto, TypeOK, Shape, Running, QueueFree, IsReply, Change
  <2> QED
    BY <2>3, <2>4
<1>6. CASE Fail(c)
  <2>1. TypeOK'
    BY <1>6 DEF Fail, Goto, TypeOK, Phases, DeliveryTypeOK, disk, space
  <2>2. Shape'
    BY <1>6 DEF Fail, Goto, TypeOK, Shape, Running, QueueFree
  <2> QED
    BY <2>1, <2>2
<1> QED
  BY <1>1, <1>2, <1>3, <1>4, <1>5, <1>6 DEF Local

LEMMA QueueType ==
  ASSUME TypeInv, Queue
  PROVE  TypeInv'
<1> USE TypeFacts DEF TypeInv
<1>0. ~QueueFree /\ block.call \in Calls
  BY DEF Queue, ResolveEntry, WritePending, Commit, CommitRefused, SaveRelations, Running
<1>1. ASSUME NEW k \in EntryKey, ResolveEntry(k) PROVE TypeInv'
  <2>1. /\ ctx' = [ctx EXCEPT !.objects = ctx'.objects]
        /\ ctx'.objects \in Objects
        /\ Present(ctx'.objects) = Present(ctx.objects)
        /\ toResolve' \in UnresolvedLinks
        /\ \A q \in EntryKey \ {k} : toResolve'[q] = toResolve[q]
        /\ rel' \in {NotLoaded} \cup Data
        /\ cache' \subseteq cache
        /\ work' = work \ {k}
    BY <1>1, ResolveEntryEffect
  <2>2. UNCHANGED <<phase, snapshot, asked, reply, block, disk, space, appVersion>>
    BY <1>1 DEF ResolveEntry
  <2>3. ctx' \in Store
    BY <2>1 DEF Store, Objects
  <2>4. TypeOK'
    BY <2>1, <2>2, <2>3 DEF TypeOK, DeliveryTypeOK, disk, space, UnresolvedLinks
  <2>5. Shape'
    BY <2>1, <2>2 DEF TypeOK, Shape, Running, QueueFree
  <2> QED
    BY <2>4, <2>5
<1>2. CASE WritePending
  <2> DEFINE c == block.call
  <2>1. /\ Running("resolve") /\ work = {} /\ phase[c] \in {"queued", "answered"}
        /\ pendingFile' = toResolve /\ cache' = {}
        /\ UNCHANGED <<toResolve, rel, snapshot, work, db, relFile, space, appVersion>>
    BY <1>0, <1>2 DEF WritePending, UnresolvedFile, Shape, Running
  <2>2. CASE phase[c] = "queued"
    <3>1. Begin(c, "commit") /\ UNCHANGED <<ctx, phase, asked, reply>>
      BY <1>2, <2>2 DEF WritePending
    <3>2. block' \in [call : Calls, step : Steps] /\ block'.call = c /\ ~Running("resolve")'
          /\ block'.step = "commit"
      BY <1>0, <3>1, BeginFacts DEF Steps
    <3>3. TypeOK'
      BY <2>1, <3>1, <3>2 DEF TypeOK, DeliveryTypeOK, space, UnresolvedLinks
    <3>4. Shape'
      BY <2>1, <3>1, <3>2 DEF TypeOK, Shape
    <3> QED
      BY <3>3, <3>4
  <2>3. CASE phase[c] # "queued"
    <3>1. /\ ctx' = [ctx EXCEPT !.token = reply[c].token]
          /\ IF HasMorePages(reply[c])
             THEN Finish(c, reply[c].token)
             ELSE Begin(c, "commit") /\ UNCHANGED <<phase, asked, reply>>
      BY <1>2, <2>3 DEF WritePending
    <3>2. reply[c].token \in Token
      BY <1>0, <2>1, <2>3, ReplyType DEF Shape
    <3>3. ctx' \in Store /\ ctx'.objects = ctx.objects
      BY <3>1, <3>2 DEF Store
    <3>4. CASE HasMorePages(reply[c])
      <4>1. Finish(c, reply[c].token)
        BY <3>1, <3>4
      <4>2. /\ QueueFree' /\ block' = NoBlock /\ ~Running("resolve")'
            /\ phase' \in [Calls -> Phases] /\ phase'[c] \in {"called", "sent", "idle"}
            /\ \A d \in Calls \ {c} : phase'[d] = phase[d] /\ reply'[d] = reply[d]
            /\ asked' \in [Calls -> {NoToken} \cup Token]
            /\ DOMAIN reply' = Calls /\ reply'[c] = NoReply
        BY <1>0, <3>2, <4>1, FinishFacts
      <4>3. TypeOK'
        BY <2>1, <3>3, <4>2 DEF TypeOK, DeliveryTypeOK, space, UnresolvedLinks, IsReply, Change
      <4>4. Shape'
        BY <2>1, <4>2 DEF TypeOK, Shape, IsReply, Change
      <4> QED
        BY <4>3, <4>4
    <3>5. CASE ~HasMorePages(reply[c])
      <4>1. Begin(c, "commit") /\ UNCHANGED <<phase, asked, reply>>
        BY <3>1, <3>5
      <4>2. block' \in [call : Calls, step : Steps] /\ block'.call = c /\ ~Running("resolve")'
            /\ block'.step = "commit"
        BY <1>0, <4>1, BeginFacts DEF Steps
      <4>3. TypeOK'
        BY <2>1, <3>3, <4>1, <4>2 DEF TypeOK, DeliveryTypeOK, space, UnresolvedLinks
      <4>4. Shape'
        BY <2>1, <4>1, <4>2 DEF TypeOK, Shape
      <4> QED
        BY <4>3, <4>4
    <3> QED
      BY <3>4, <3>5
  <2> QED
    BY <2>2, <2>3
<1>3. CASE Commit
  <2>1. /\ Begin(block.call, "relations") /\ db' = ctx
        /\ UNCHANGED <<ctx, toResolve, rel, phase, snapshot, asked, reply, work, cache,
                       pendingFile, relFile, space, appVersion>>
        /\ work = {} /\ cache = {} /\ block.step = "commit"
    BY <1>3 DEF Commit, Running, Shape
  <2>2. block' \in [call : Calls, step : Steps] /\ block'.call = block.call
        /\ ~Running("resolve")' /\ block'.step = "relations"
    BY <1>0, <2>1, BeginFacts DEF Steps
  <2>3. TypeOK'
    BY <2>1, <2>2 DEF TypeOK, DeliveryTypeOK, space
  <2>4. Shape'
    BY <1>0, <2>1, <2>2 DEF TypeOK, Shape
  <2> QED
    BY <2>3, <2>4
<1>4. ASSUME CommitRefused \/ SaveRelations PROVE TypeInv'
  <2>1. /\ Finish(block.call, ctx.token)
        /\ UNCHANGED <<ctx, toResolve, snapshot, work, cache, db, pendingFile, space, appVersion>>
        /\ work = {} /\ cache = {}
        /\ rel' \in {NotLoaded} \cup Data /\ relFile' \in Data
    BY <1>4 DEF CommitRefused, SaveRelations, disk, Running, Shape
  <2>2. /\ QueueFree' /\ block' = NoBlock /\ ~Running("resolve")'
        /\ phase' \in [Calls -> Phases] /\ phase'[block.call] \in {"called", "sent", "idle"}
        /\ \A d \in Calls \ {block.call} : phase'[d] = phase[d] /\ reply'[d] = reply[d]
        /\ asked' \in [Calls -> {NoToken} \cup Token]
        /\ DOMAIN reply' = Calls /\ reply'[block.call] = NoReply
    BY <1>0, <2>1, FinishFacts
  <2>3. TypeOK'
    BY <2>1, <2>2 DEF TypeOK, DeliveryTypeOK, space, IsReply, Change
  <2>4. Shape'
    BY <2>1, <2>2 DEF TypeOK, Shape, IsReply, Change
  <2> QED
    BY <2>3, <2>4
<1> QED
  BY <1>1, <1>2, <1>3, <1>4 DEF Queue

LEMMA CrashType ==
  ASSUME TypeInv, Crash \/ CrashInWipe
  PROVE  TypeInv'
<1> USE TypeFacts DEF TypeInv
<1>0. Restarted /\ ctx' \in Store /\ db' \in Store
  BY EmptyStoreType DEF Crash, CrashInWipe
<1>1. /\ pendingFile' \in UnresolvedLinks /\ toResolve' \in UnresolvedLinks
      /\ relFile' \in Data /\ appVersion' \in DbVersions
      /\ NothingToResolve \in UnresolvedLinks
  BY <1>0, EmptyStoreType, EmptyDataType DEF Crash, CrashInWipe, Restarted
<1>2. TypeOK'
  BY <1>0, <1>1 DEF Restarted, TypeOK, Phases, DeliveryTypeOK, space, UnresolvedLinks
<1>3. Shape'
  BY <1>0 DEF Restarted, TypeOK, Shape, Running, QueueFree
<1> QED
  BY <1>2, <1>3

LEMMA EditType ==
  ASSUME TypeInv, Edit
  PROVE  /\ TypeInv'
         /\ clock' = clock + 1
         /\ \E id \in Ids : /\ server'[id].at = clock + 1
                            /\ \A other \in Ids \ {id} : server'[other] = server[other]
<1> USE DEF TypeInv
<1>0. UNCHANGED <<memory, disk, appVersion>> /\ clock \in Nat /\ MaxChanges \in Nat
  BY DeliveryAssumption DEF Edit, TypeOK, DeliveryTypeOK
<1>1. PICK id \in Ids : \E links \in {Unpublished} \cup UNION {Drafts[i] : i \in Ids} :
                            SetResource(id, links)
  BY DeliveryAssumption DEF Edit, Publish, Unpublish
<1>2. PICK links \in {Unpublished} \cup UNION {Drafts[i] : i \in Ids} : SetResource(id, links)
  BY <1>1
<1>3. /\ clock < MaxChanges /\ clock' = clock + 1
      /\ server' = [server EXCEPT ![id] = [at |-> clock + 1, links |-> links]]
  BY <1>2 DEF SetResource
<1>4. [at |-> clock + 1, links |-> links] \in Change
  BY <1>0 DEF Change
<1>5. /\ server' \in [Ids -> Change] /\ server'[id].at = clock + 1
      /\ \A other \in Ids \ {id} : server'[other] = server[other]
  BY <1>3, <1>4 DEF TypeOK, DeliveryTypeOK
<1>6. DeliveryTypeOK'
  <2>1. \A other \in Ids : server'[other].at \in Nat /\ server'[other].at <= clock'
    BY <1>0, <1>3, <1>5 DEF TypeOK, DeliveryTypeOK, Change
  <2>2. clock' \in 0 .. MaxChanges
    BY <1>0, <1>3
  <2> QED
    BY <1>5, <2>1, <2>2 DEF DeliveryTypeOK
<1>7. TypeOK'
  BY <1>0, <1>6 DEF TypeOK, memory, disk, IsReply, Change
<1>8. Shape'
  BY <1>0 DEF Shape, memory, disk, Running, QueueFree, IsReply, Change
<1> QED
  BY <1>3, <1>5, <1>7, <1>8

\* Types hold in every reachable state, together with what a running block
\* relies on.
THEOREM TypeInvariant == Spec => []TypeInv
<1>1. TypeInv /\ [Next]_vars => TypeInv'
  <2> SUFFICES ASSUME TypeInv, [Next]_vars PROVE TypeInv'
    OBVIOUS
  <2>1. CASE UNCHANGED vars
    BY <2>1 DEF vars, memory, disk, space, TypeInv, TypeOK, Shape, DeliveryTypeOK, Running,
                QueueFree, IsReply, Change
  <2>2. CASE Next
    BY <2>2, SyncType, LocalType, QueueType, CrashType, EditType DEF Next
  <2> QED
    BY <2>1, <2>2
<1> QED
  BY <1>1, InitType, PTL DEF Spec

\* Every variable keeps its type, whatever the space, the answers of the
\* server, the calls of sync() and the crashes.
THEOREM TypeCorrect == Spec => []TypeOK
<1>1. TypeInv => TypeOK
  BY DEF TypeInv
<1> QED
  BY <1>1, TypeInvariant, PTL

-----------------------------------------------------------------------------
(* The file of unresolved links, for any number of overlapping calls.       *)

PendingInv ==
    QueueFree \/ block.step # "resolve" => toResolve \in {NothingToResolve, pendingFile}

\* Once a block has written the file, memory and file agree for its rest.
THEOREM PendingInvariant == Spec => []PendingInv
<1>1. Init => PendingInv
  BY DEF Init, PendingInv
<1>2. TypeInv /\ PendingInv /\ [Next]_vars => PendingInv'
  <2> SUFFICES ASSUME TypeInv, PendingInv, [Next]_vars PROVE PendingInv'
    OBVIOUS
  <2> USE DEF PendingInv
  <2>1. ASSUME NEW c \in Calls, Sync(c) PROVE PendingInv'
    BY <2>1 DEF Sync, StartMigrated, StartUnversioned, StartOutdated, StartOutdatedWipeFails,
                QueueFree, disk
  <2>2. ASSUME NEW c \in Calls, ReadPending(c) \/ Ask(c) \/ Answer(c) \/ Fail(c) PROVE PendingInv'
    BY <2>2 DEF ReadPending, Ask, Answer, Fail, QueueFree, disk
  <2>3. ASSUME NEW c \in Calls, StartCached(c) \/ StartPage(c) PROVE PendingInv'
    <3>1. Begin(c, "resolve")
      BY <2>3 DEF StartCached, StartPage
    <3> QED
      BY <3>1, BeginFacts DEF Steps
  <2>4. ASSUME NEW k \in EntryKey, ResolveEntry(k) PROVE PendingInv'
    BY <2>4 DEF ResolveEntry, Running, QueueFree
  <2>5. CASE WritePending
    BY <2>5 DEF WritePending, UnresolvedFile
  <2>6. CASE Commit \/ CommitRefused \/ SaveRelations
    BY <2>6 DEF Commit, CommitRefused, SaveRelations, Running, disk
  <2>7. CASE Crash \/ CrashInWipe
    BY <2>7 DEF Crash, CrashInWipe, Restarted
  <2>8. CASE Edit \/ UNCHANGED vars
    BY <2>8 DEF Edit, vars, memory, disk, QueueFree
  <2> QED
    BY <2>1, <2>2, <2>3, <2>4, <2>5, <2>6, <2>7, <2>8 DEF Next, Local, Queue
<1> QED
  BY <1>1, <1>2, TypeInvariant, PTL DEF Spec

\* Between two blocks, the links a process holds as unresolved are those the
\* file has, or it has not read the file yet: no order of calls, pages, wipes
\* and crashes separates the two.
THEOREM PendingAlwaysOnDisk == Spec => []PendingOnDisk
<1>1. PendingInv => PendingOnDisk
  BY DEF PendingInv, PendingOnDisk
<1> QED
  BY <1>1, PendingInvariant, PTL

-----------------------------------------------------------------------------
(* The version of the store, for any number of overlapping calls.           *)

LEMMA VersionFacts ==
  ASSUME TypeInv
  PROVE  /\ ctx \in Store /\ db \in Store /\ ctx.version \in Nat /\ db.version \in Nat
         /\ phase \in [Calls -> Phases]
         /\ appVersion \in DbVersions /\ \A v \in DbVersions : v \in Nat /\ v > 0
         /\ Present(EmptyStore.objects) = {}
<1>1. \A v \in DbVersions : v \in Nat /\ v > 0
  BY SynchronizationAssumption
<1>2. /\ ctx \in Store /\ db \in Store
      /\ phase \in [Calls -> Phases] /\ appVersion \in DbVersions
  BY DEF TypeInv, TypeOK
<1>3. Present(EmptyStore.objects) = {}
  BY DEF EmptyStore, Present
<1>4. ctx.version \in {0} \cup DbVersions /\ db.version \in {0} \cup DbVersions
  BY <1>2 DEF Store
<1>5. ctx.version \in Nat /\ db.version \in Nat
  BY <1>1, <1>4
<1> QED
  BY <1>1, <1>2, <1>3, <1>5

\* The call that got a block, or a step of its own.
LEMMA CallSteps ==
  ASSUME TypeInv, NEW c \in Calls,
         ReadPending(c) \/ StartCached(c) \/ Ask(c) \/ StartPage(c) \/ Answer(c) \/ Fail(c)
  PROVE  /\ ctx'.version = ctx.version /\ ctx'.token = ctx.token
         /\ db' = db /\ appVersion' = appVersion
         /\ phase[c] # "idle"
         /\ \A d \in Calls \ {c} : phase'[d] = phase[d]
         /\ ~StartPage(c) => ctx' = ctx
BY VersionFacts
DEF ReadPending, StartCached, Ask, StartPage, Answer, Fail, Goto, Store, disk

\* The steps of a block.
LEMMA QueueSteps ==
  ASSUME TypeInv, Queue
  PROVE  /\ ctx'.version = ctx.version
         /\ Present(ctx'.objects) = Present(ctx.objects)
         /\ db' = db \/ (Commit /\ db' = ctx /\ ctx' = ctx)
         /\ appVersion' = appVersion
         /\ block.call \in Calls /\ phase[block.call] # "idle"
         /\ \A d \in Calls \ {block.call} : phase'[d] = phase[d]
<1> USE VersionFacts
<1>0. ~QueueFree /\ block.call \in Calls /\ phase[block.call] # "idle"
  BY TypeFacts
  DEF Queue, ResolveEntry, WritePending, Commit, CommitRefused, SaveRelations, Running,
      TypeInv, Shape
<1>1. ASSUME NEW k \in EntryKey, ResolveEntry(k)
      PROVE  /\ ctx'.version = ctx.version /\ UNCHANGED <<phase, db, appVersion>>
             /\ Present(ctx'.objects) = Present(ctx.objects)
  <2>1. /\ ctx' = [ctx EXCEPT !.objects = ctx'.objects]
        /\ Present(ctx'.objects) = Present(ctx.objects)
    BY <1>1, ResolveEntryEffect
  <2> QED
    BY <1>1, <2>1 DEF Store, ResolveEntry, disk
<1>2. CASE WritePending \/ Commit \/ CommitRefused \/ SaveRelations
  <2>1. /\ ctx'.version = ctx.version /\ ctx'.objects = ctx.objects /\ appVersion' = appVersion
        /\ db' = db \/ (Commit /\ db' = ctx /\ ctx' = ctx)
    BY <1>2 DEF WritePending, Commit, CommitRefused, SaveRelations, Store, disk
  <2>2. \A d \in Calls \ {block.call} : phase'[d] = phase[d]
    BY <1>2 DEF WritePending, Commit, CommitRefused, SaveRelations, Finish, Goto
  <2> QED
    BY <1>0, <2>1, <2>2
<1> QED
  BY <1>0, <1>1, <1>2 DEF Queue

MigratedInv == \A c \in Calls : phase[c] # "idle" => ctx.version >= appVersion

\* However many calls overlap and wherever a crash comes between the wipe, the
\* version and the save, no call asks for content before the store carries the
\* version of the app, provided the store file can be destroyed.
THEOREM AlwaysMigratedBeforeSync ==
  ASSUME ~MayFailWipe
  PROVE  Spec => []SyncsMigrated
<1>1. Init => MigratedInv
  BY DEF Init, MigratedInv
<1>2. TypeInv /\ MigratedInv /\ [Next]_vars => MigratedInv'
  <2> SUFFICES ASSUME TypeInv, MigratedInv, [Next]_vars PROVE MigratedInv'
    OBVIOUS
  <2> USE VersionFacts DEF MigratedInv
  <2>1. ASSUME NEW c \in Calls, Sync(c) PROVE MigratedInv'
    <3>1. CASE StartMigrated(c)
      BY <2>1, <3>1 DEF StartMigrated, Goto
    <3>2. CASE StartUnversioned(c) \/ StartOutdated(c)
      <4>1. ctx'.version = appVersion /\ appVersion' = appVersion
        BY <3>2 DEF StartUnversioned, StartOutdated, Store, EmptyStore
      <4> QED
        BY <4>1
    <3> QED
      BY <2>1, <3>1, <3>2 DEF Sync, StartOutdatedWipeFails
  <2>2. ASSUME NEW c \in Calls, Local(c) \/ Answer(c) \/ Fail(c) PROVE MigratedInv'
    BY <2>2, CallSteps DEF Local
  <2>3. CASE Queue
    BY <2>3, QueueSteps
  <2>4. CASE Crash \/ CrashInWipe
    BY <2>4 DEF Crash, CrashInWipe, Restarted
  <2>5. CASE Edit \/ UNCHANGED vars
    BY <2>5 DEF Edit, vars, memory
  <2> QED
    BY <2>1, <2>2, <2>3, <2>4, <2>5 DEF Next
<1>3. MigratedInv => SyncsMigrated
  BY DEF MigratedInv, SyncsMigrated
<1> QED
  BY <1>1, <1>2, <1>3, TypeInvariant, PTL DEF Spec

\* A version that is not saved yet is being saved, and the store is empty: it
\* is the one case in which a failing wipe would take the version back.
VersionedInv ==
    /\ ContentVersioned
    /\ \A c \in Calls : phase[c] # "idle" => ctx.version # 0
    /\ ctx.version # 0 /\ db.version = 0 => Running("commit") /\ Present(ctx.objects) = {}

\* Neither the context nor the store file ever holds content without a version,
\* whatever overlaps, fails or crashes.
THEOREM ContentAlwaysVersioned == Spec => []ContentVersioned
<1>1. Init => VersionedInv
  BY DEF Init, VersionedInv, ContentVersioned, EmptyStore, Present
<1>2. TypeInv /\ VersionedInv /\ [Next]_vars => VersionedInv'
  <2> SUFFICES ASSUME TypeInv, VersionedInv, [Next]_vars PROVE VersionedInv'
    OBVIOUS
  <2> USE VersionFacts
  <2>1. ASSUME NEW c \in Calls, Sync(c) PROVE VersionedInv'
    <3>0. QueueFree /\ ~Running("commit")
      BY <2>1 DEF Sync, StartMigrated, StartUnversioned, StartOutdated, StartOutdatedWipeFails,
                  Running
    <3>1. CASE StartMigrated(c)
      BY <3>0, <3>1 DEF VersionedInv, ContentVersioned, StartMigrated, Goto, disk, Running, QueueFree
    <3>2. CASE StartUnversioned(c)
      <4>1. /\ ctx'.objects = ctx.objects /\ ctx'.version = appVersion /\ ctx.version = 0
            /\ db' = db /\ Begin(c, "commit")
        BY <3>2 DEF StartUnversioned, Store, disk
      <4>2. Running("commit")'
        BY <4>1, BeginFacts DEF Steps, Running
      <4> QED
        BY <4>1, <4>2 DEF VersionedInv, ContentVersioned
    <3>3. CASE StartOutdated(c)
      <4>1. /\ Present(ctx'.objects) = {} /\ ctx'.version = appVersion
            /\ Present(db'.objects) = {} /\ Begin(c, "commit")
        BY <3>3 DEF StartOutdated, EmptyStore
      <4>2. Running("commit")'
        BY <4>1, BeginFacts DEF Steps, Running
      <4> QED
        BY <4>1, <4>2 DEF VersionedInv, ContentVersioned
    <3>4. CASE StartOutdatedWipeFails(c)
      <4>1. ctx' = db /\ db' = db /\ ctx.version # 0
        BY <3>4 DEF StartOutdatedWipeFails, disk
      <4>2. db.version # 0
        BY <3>0, <4>1 DEF VersionedInv
      <4> QED
        BY <4>1, <4>2 DEF VersionedInv, ContentVersioned
    <3> QED
      BY <2>1, <3>1, <3>2, <3>3, <3>4 DEF Sync
  <2>2. ASSUME NEW c \in Calls, Local(c) \/ Answer(c) \/ Fail(c) PROVE VersionedInv'
    <3>1. /\ ctx'.version = ctx.version /\ db' = db /\ phase[c] # "idle"
          /\ \A d \in Calls \ {c} : phase'[d] = phase[d]
          /\ ~StartPage(c) => ctx' = ctx
      BY <2>2, CallSteps DEF Local
    <3>2. ctx.version # 0
      BY <3>1 DEF VersionedInv
    <3>3. db.version # 0 \/ UNCHANGED <<ctx, block>>
      BY <2>2, <3>2 DEF VersionedInv, Local, ReadPending, StartCached, Ask, StartPage, Answer,
                        Fail, Running
    <3> QED
      BY <3>1, <3>2, <3>3 DEF VersionedInv, ContentVersioned, Running, QueueFree
  <2>3. CASE Queue
    <3>1. /\ ctx'.version = ctx.version /\ Present(ctx'.objects) = Present(ctx.objects)
          /\ db' = db \/ (Commit /\ db' = ctx /\ ctx' = ctx)
          /\ phase[block.call] # "idle" /\ block.call \in Calls
      BY <2>3, QueueSteps
    <3>2. ctx.version # 0
      BY <3>1 DEF VersionedInv
    <3>3. ContentVersioned' /\ ctx'.version # 0
      BY <3>1, <3>2 DEF VersionedInv, ContentVersioned
    <3>4. ASSUME db'.version = 0 PROVE FALSE
      <4>1. db.version = 0 /\ ~Commit
        <5>1. Commit => db' = ctx
          BY DEF Commit
        <5> QED
          BY <3>1, <3>2, <3>4, <5>1
      <4>2. Running("commit") /\ Present(ctx.objects) = {}
        BY <3>2, <4>1 DEF VersionedInv
      <4>3. Valid(ctx.objects)
        BY <4>2 DEF Valid
      <4> QED
        BY <2>3, <4>1, <4>2, <4>3
        DEF Queue, ResolveEntry, WritePending, CommitRefused, SaveRelations, Running
    <3> QED
      BY <3>3, <3>4 DEF VersionedInv
  <2>4. CASE Crash \/ CrashInWipe
    <3>1. /\ ctx' = db' /\ \A c \in Calls : phase'[c] = "idle"
          /\ db' = db \/ db' = EmptyStore
      BY <2>4 DEF Crash, CrashInWipe, Restarted
    <3> QED
      BY <3>1 DEF VersionedInv, ContentVersioned
  <2>5. CASE Edit \/ UNCHANGED vars
    BY <2>5 DEF Edit, vars, memory, disk, VersionedInv, ContentVersioned, Running, QueueFree
  <2> QED
    BY <2>1, <2>2, <2>3, <2>4, <2>5 DEF Next
<1>3. VersionedInv => ContentVersioned
  BY DEF VersionedInv
<1> QED
  BY <1>1, <1>2, <1>3, TypeInvariant, PTL DEF Spec
=============================================================================
