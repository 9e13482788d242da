--------------------- MODULE SynchronizationTokenProofs ---------------------
(***************************************************************************)
(* The sync token of an app that has one sync() under way at a time: it    *)
(* never runs ahead of the content, for any space, any cut into pages, any *)
(* failure of a request or of the wipe, and any crash.                     *)
(***************************************************************************)
EXTENDS SynchronizationManagerProofs

-----------------------------------------------------------------------------
(* Mirrors, of a space at any moment.                                       *)

Matches(change, object) ==
    IF IsPublished(change) THEN object # NoObject /\ object.at = change.at
                           ELSE object = NoObject

OutstandingIn(space0, token) ==
    IF token = NoToken THEN Ids
    ELSE token.rest \cup {id \in Ids : space0[id].at > token.at}

Fits(space0, objects, token) ==
    \A k \in Key : k.id \in Persisted \ OutstandingIn(space0, token) =>
        Matches(space0[k.id], objects[k])

Old(time, token) == token # NoToken => token.at <= time

\* What a store owes the space: a store without a token is empty, since a sync
\* from nothing is never told of deletions.
Consistent(space0, time, store) ==
    /\ Fits(space0, store.objects, store.token)
    /\ Old(time, store.token)
    /\ store.token = NoToken => Present(store.objects) = {}

LEMMA MirrorsFits ==
  ASSUME NEW store
  PROVE  Mirrors(store) <=> Fits(server, store.objects, store.token)
BY DEF Mirrors, Fits, Matches, Outstanding, OutstandingIn

\* A change of the space makes a resource outstanding and nothing else.
LEMMA ChangeFits ==
  ASSUME NEW space1 \in [Ids -> Change], NEW space2 \in [Ids -> Change], NEW time \in Nat,
         NEW id \in Ids, space2[id].at = time + 1,
         \A other \in Ids \ {id} : space2[other] = space1[other],
         NEW objects, NEW token \in {NoToken} \cup Token,
         Old(time, token), Fits(space1, objects, token)
  PROVE  Fits(space2, objects, token) /\ Old(time + 1, token)
<1>1. CASE token = NoToken
  BY <1>1, SynchronizationAssumption DEF Fits, OutstandingIn, Old
<1>2. CASE token # NoToken
  <2>1. token.at \in Nat /\ token.at <= time
    BY <1>2 DEF Token, Old
  <2>2. id \in OutstandingIn(space2, token)
    BY <1>2, <2>1 DEF OutstandingIn
  <2>3. \A other \in Ids \ {id} :
           other \in OutstandingIn(space2, token) <=> other \in OutstandingIn(space1, token)
    BY <1>2 DEF OutstandingIn
  <2>4. Fits(space2, objects, token)
    BY <2>2, <2>3, SynchronizationAssumption DEF Fits
  <2>5. Old(time + 1, token)
    BY <2>1 DEF Old
  <2> QED
    BY <2>4, <2>5
<1> QED
  BY <1>1, <1>2

\* Links do not matter to the token.
LEMMA SameFits ==
  ASSUME NEW space1, NEW token, NEW objects, NEW other,
         Fits(space1, objects, token),
         Present(other) = Present(objects),
         \A k \in Present(objects) : other[k].at = objects[k].at
  PROVE  Fits(space1, other, token)
BY DEF Fits, Matches, Present

\* What a page leaves of an object that it says nothing of, or nothing the app
\* stores.
LEMMA ApplyItemsKeeps ==
  ASSUME NEW objects \in Objects, NEW items, NEW k \in Key,
         k.id \in DOMAIN items => IsPublished(items[k.id]) /\ k.id \notin Persisted
  PROVE  /\ ApplyItems(objects, items)[k] = NoObject <=> objects[k] = NoObject
         /\ objects[k] # NoObject => ApplyItems(objects, items)[k].at = objects[k].at
<1> DEFINE created == {id \in DOMAIN items \cap Persisted : IsPublished(items[id])}
           deleted == {id \in DOMAIN items : ~IsPublished(items[id])}
           links(q) == IF objects[q] = NoObject THEN [f \in Fields |-> {}]
                       ELSE [f \in Fields |-> {t \in objects[q].links[f] : t.id \notin deleted}]
           e == ApplyItems(objects, items)
<1>1. e[k] = IF k.id \in created THEN [at |-> items[k.id].at, links |-> links(k)]
             ELSE IF k.id \in deleted \/ objects[k] = NoObject THEN NoObject
             ELSE [at |-> objects[k].at, links |-> links(k)]
  BY DEF ApplyItems
<1>2. k.id \notin created /\ k.id \notin deleted
  OBVIOUS
<1> HIDE DEF links, e
<1>3. e[k] = IF objects[k] = NoObject THEN NoObject ELSE [at |-> objects[k].at, links |-> links(k)]
  BY <1>1, <1>2
<1> QED
  <2>1. CASE objects[k] = NoObject
    BY <1>3, <2>1 DEF e
  <2>2. CASE objects[k] # NoObject
    <3>1. objects[k] \in Object /\ e[k] = [at |-> objects[k].at, links |-> links(k)]
      BY <1>3, <2>2 DEF Objects
    <3>2. links(k) \in [Fields -> SUBSET Key]
      BY <2>2, <3>1 DEF links, Object
    <3>3. e[k] \in Object
      BY <3>1, <3>2 DEF Object
    <3> QED
      BY <2>2, <3>1, <3>3, AbsenceAssumption DEF e
  <2> QED
    BY <2>1, <2>2

\* What it leaves of an object it delivers.
LEMMA PageFits ==
  ASSUME NEW objects \in Objects, NEW items, NEW k \in Key, k.id \in DOMAIN items, k.id \in Persisted,
         items[k.id] \in Change
  PROVE  Matches(items[k.id], ApplyItems(objects, items)[k])
<1> DEFINE created == {id \in DOMAIN items \cap Persisted : IsPublished(items[id])}
           deleted == {id \in DOMAIN items : ~IsPublished(items[id])}
           links(q) == IF objects[q] = NoObject THEN [f \in Fields |-> {}]
                       ELSE [f \in Fields |-> {t \in objects[q].links[f] : t.id \notin deleted}]
           e == ApplyItems(objects, items)
<1>1. e[k] = IF k.id \in created THEN [at |-> items[k.id].at, links |-> links(k)]
             ELSE IF k.id \in deleted \/ objects[k] = NoObject THEN NoObject
             ELSE [at |-> objects[k].at, links |-> links(k)]
  BY DEF ApplyItems
<1>2. CASE IsPublished(items[k.id])
  <2>1. objects[k] = NoObject \/ objects[k] \in Object
    BY DEF Objects
  <2>2. links(k) \in [Fields -> SUBSET Key]
    BY <2>1 DEF Object
  <2>3. e[k] = [at |-> items[k.id].at, links |-> links(k)]
    BY <1>1, <1>2
  <2> HIDE DEF links, e
  <2>4. e[k] \in Object /\ e[k].at = items[k.id].at
    BY <2>2, <2>3 DEF Object, Change
  <2> QED
    BY <1>2, <2>4, AbsenceAssumption DEF Matches, e
<1>3. CASE ~IsPublished(items[k.id])
  BY <1>1, <1>3 DEF Matches
<1> QED
  BY <1>2, <1>3

\* A page applied to a consistent store brings it up to the token it comes with.
LEMMA ReplyFits ==
  ASSUME DeliveryTypeOK, NEW store \in Store, Consistent(server, clock, store),
         NEW r \in Replies(store.token)
  PROVE  /\ Old(clock, r.token)
         /\ Fits(server, ApplyItems(store.objects, r.items), r.token)
<1> DEFINE t == store.token
           e == ApplyItems(store.objects, r.items)
<1>1. PICK page \in SUBSET Remaining(t) :
        r = [items |-> [id \in page |-> server[id]],
             token |-> [at |-> Since(t), rest |-> Remaining(t) \ page]]
  BY DEF Replies
<1>2. /\ t \in {NoToken} \cup Token /\ store.objects \in Objects
      /\ clock \in Nat /\ server \in [Ids -> Change]
      /\ \A id \in Ids : server[id].at \in Nat /\ server[id].at <= clock
  BY DEF Store, Objects, DeliveryTypeOK, Change
<1>3. Remaining(t) \subseteq Ids /\ Since(t) \in Nat /\ Since(t) <= clock
  BY <1>2 DEF Remaining, Since, Token, Consistent, Old
<1>4. /\ r.token = [at |-> Since(t), rest |-> Remaining(t) \ page]
      /\ r.token \in Token /\ r.token # NoToken
      /\ DOMAIN r.items = page /\ \A id \in page : r.items[id] = server[id]
  BY <1>1, <1>3, NoTokenAssumption DEF Token
<1>5. Old(clock, r.token)
  BY <1>3, <1>4 DEF Old
<1>6. ASSUME NEW k \in Key, k.id \in Persisted \ OutstandingIn(server, r.token)
      PROVE  Matches(server[k.id], e[k])
  <2>1. /\ k.id \in Ids /\ k.id \notin Remaining(t) \ page
        /\ server[k.id].at <= Since(t)
    BY <1>2, <1>3, <1>4, <1>6, SynchronizationAssumption DEF OutstandingIn
  <2>2. CASE k.id \in page
    <3>1. r.items[k.id] = server[k.id] /\ k.id \in DOMAIN r.items
      BY <1>4, <2>2
    <3>2. server[k.id] \in Change /\ k.id \in Persisted /\ store.objects \in Objects
      BY <1>2, <1>6, <2>1
    <3>3. Matches(r.items[k.id], ApplyItems(store.objects, r.items)[k])
      BY <3>1, <3>2, PageFits
    <3> QED
      BY <3>1, <3>3
  <2>3. CASE k.id \notin page
    <3>1. /\ e[k] = NoObject <=> store.objects[k] = NoObject
          /\ store.objects[k] # NoObject => e[k].at = store.objects[k].at
      BY <1>2, <1>4, <2>3, ApplyItemsKeeps
    <3>2. Matches(server[k.id], store.objects[k])
      <4>1. CASE t = NoToken
        <5>1. ~IsPublished(server[k.id])
          BY <2>1, <2>3, <4>1 DEF Remaining
        <5>2. store.objects[k] = NoObject
          BY <4>1 DEF Consistent, Present
        <5> QED
          BY <5>1, <5>2 DEF Matches
      <4>2. CASE t # NoToken
        <5>1. t.at \in Nat
          BY <1>2, <4>2 DEF Token
        <5>2. k.id \notin OutstandingIn(server, t)
          BY <1>2, <2>1, <2>3, <4>2, <5>1 DEF OutstandingIn, Remaining, Since
        <5> QED
          BY <1>6, <5>2 DEF Consistent, Fits
      <4> QED
        BY <4>1, <4>2
    <3> QED
      BY <3>1, <3>2 DEF Matches
  <2> QED
    BY <2>2, <2>3
<1> QED
  BY <1>5, <1>6 DEF Fits

-----------------------------------------------------------------------------
(* One sync() at a time.                                                    *)

\* A page has been stored, its token has not.
PageRunning == Running("resolve") /\ phase[block.call] = "answered"

\* The token of an answer fits what the context holds once the answer has been
\* applied; that of a request is the context's.
TokenInv ==
    /\ Consistent(server, clock, db)
    /\ ~PageRunning => Consistent(server, clock, ctx)
    /\ \A c \in Calls : phase[c] = "sent" => asked[c] = ctx.token
    /\ \A c \in Calls : phase[c] = "answered" =>
          /\ Old(clock, reply[c].token)
          /\ Fits(server,
                  IF QueueFree THEN ApplyItems(ctx.objects, reply[c].items) ELSE ctx.objects,
                  reply[c].token)

LEMMA EmptyConsistent ==
  ASSUME NEW space0, NEW time, NEW store, store.token = NoToken,
         store.objects = EmptyStore.objects
  PROVE  Consistent(space0, time, store)
BY SynchronizationAssumption
DEF Consistent, Fits, OutstandingIn, Old, Present, EmptyStore

LEMMA InitToken == Init => TokenInv
BY EmptyConsistent DEF Init, TokenInv, EmptyStore

LEMMA SyncToken ==
  ASSUME \A c, d \in Calls : c = d, TypeInv, TokenInv, NEW c \in Calls, Sync(c)
  PROVE  TokenInv'
<1>0. /\ phase[c] = "idle" /\ QueueFree
      /\ \A d \in Calls : phase'[d] \in {"called", "migrating"}
      /\ UNCHANGED space
      /\ ~PageRunning /\ Consistent(server, clock, ctx) /\ Consistent(server, clock, db)
  BY DEF Sync, StartMigrated, StartUnversioned, StartOutdated, StartOutdatedWipeFails,
         PageRunning, Running, TokenInv, TypeInv, TypeOK, Goto
<1>1. Consistent(server, clock, db') /\ Consistent(server, clock, ctx')
  <2>1. CASE StartMigrated(c) \/ StartOutdatedWipeFails(c)
    BY <1>0, <2>1 DEF StartMigrated, StartOutdatedWipeFails, disk
  <2>2. CASE StartUnversioned(c)
    <3>1. ctx'.objects = ctx.objects /\ ctx'.token = ctx.token /\ db' = db
      BY <2>2 DEF StartUnversioned, TypeInv, TypeOK, Store, disk
    <3> QED
      BY <1>0, <3>1 DEF Consistent
  <2>3. CASE StartOutdated(c)
    <3>1. /\ ctx'.objects = EmptyStore.objects /\ ctx'.token = NoToken
          /\ db'.objects = EmptyStore.objects /\ db'.token = NoToken
      BY <2>3 DEF StartOutdated, EmptyStore
    <3> QED
      BY <3>1, EmptyConsistent
  <2> QED
    BY <2>1, <2>2, <2>3 DEF Sync
<1> QED
  BY <1>0, <1>1 DEF TokenInv, space

LEMMA LocalToken ==
  ASSUME \A c, d \in Calls : c = d, TypeInv, TokenInv,
         NEW c \in Calls, Local(c) \/ Answer(c) \/ Fail(c)
  PROVE  TokenInv'
<1>0. /\ UNCHANGED <<db, server, clock>>
      /\ phase \in [Calls -> Phases] /\ \A d \in Calls : d = c
      /\ Consistent(server, clock, db)
  BY DEF Local, ReadPending, StartCached, Ask, StartPage, Answer, Fail, disk, space,
         TokenInv, TypeInv, TypeOK
<1>1. CASE ReadPending(c) \/ Fail(c)
  <2>1. /\ UNCHANGED <<ctx, block>>
        /\ phase[c] \in {"called", "sent"} /\ phase'[c] \in {"asking", "queued", "idle"}
    BY <1>0, <1>1 DEF ReadPending, Fail, Goto
  <2>2. ~PageRunning
    BY <2>1, TypeFacts, <1>0 DEF PageRunning, Running
  <2> QED
    BY <1>0, <2>1, <2>2 DEF TokenInv
<1>2. CASE StartCached(c)
  <2>1. /\ UNCHANGED <<ctx, phase>> /\ phase[c] = "queued" /\ QueueFree
    BY <1>2 DEF StartCached
  <2>2. ~PageRunning
    BY <2>1 DEF PageRunning, Running
  <2> QED
    BY <1>0, <2>1, <2>2 DEF TokenInv
<1>3. CASE Ask(c)
  <2>1. /\ UNCHANGED <<ctx, block>> /\ QueueFree
        /\ phase'[c] = "sent" /\ asked'[c] = ctx.token
    BY <1>0, <1>3 DEF Ask, Goto, TypeInv, TypeOK
  <2>2. ~PageRunning
    BY <2>1 DEF PageRunning, Running
  <2> QED
    BY <1>0, <2>1, <2>2 DEF TokenInv
<1>4. CASE StartPage(c)
  <2>1. /\ phase[c] = "answered" /\ QueueFree /\ UNCHANGED <<phase, reply>>
        /\ ctx'.objects = ApplyItems(ctx.objects, reply[c].items)
        /\ Begin(c, "resolve")
    BY <1>4 DEF StartPage, TypeInv, TypeOK, Store
  <2>2. ~QueueFree' /\ PageRunning'
    BY <2>1, BeginFacts DEF PageRunning, Steps
  <2>3. Fits(server, ctx'.objects, reply[c].token) /\ Old(clock, reply[c].token)
    BY <2>1 DEF TokenInv
  <2> QED
    BY <1>0, <2>1, <2>2, <2>3 DEF TokenInv
<1>5. CASE Answer(c)
  <2>1. /\ UNCHANGED <<ctx, block>> /\ phase[c] = "sent" /\ phase'[c] = "answered"
        /\ reply'[c] \in Replies(asked[c]) /\ asked[c] = ctx.token
    BY <1>0, <1>5 DEF Answer, Goto, TypeInv, TypeOK, TokenInv
  <2>2. QueueFree /\ ~PageRunning
    BY <1>0, <2>1, TypeFacts DEF PageRunning, Running, TypeInv, Shape
  <2>3. /\ DeliveryTypeOK /\ ctx \in Store /\ Consistent(server, clock, ctx)
        /\ reply'[c] \in Replies(ctx.token)
    BY <2>1, <2>2 DEF TokenInv, TypeInv, TypeOK
  <2>4. /\ Old(clock, reply'[c].token)
        /\ Fits(server, ApplyItems(ctx.objects, reply'[c].items), reply'[c].token)
    BY <2>3, ReplyFits
  <2>5. QueueFree' /\ ~PageRunning'
    BY <2>1, <2>2 DEF QueueFree, PageRunning, Running
  <2> QED
    BY <1>0, <2>1, <2>3, <2>4, <2>5 DEF TokenInv
<1> QED
  BY <1>1, <1>2, <1>3, <1>4, <1>5 DEF Local

LEMMA QueueToken ==
  ASSUME \A c, d \in Calls : c = d, TypeInv, TokenInv, Queue
  PROVE  TokenInv'
<1> DEFINE c == block.call
<1>0. /\ ~QueueFree /\ c \in Calls /\ \A d \in Calls : d = c
      /\ UNCHANGED <<server, clock>>
      /\ phase \in [Calls -> Phases] /\ ctx \in Store
      /\ Consistent(server, clock, db)
      /\ phase[c] \in {"queued", "answered", "migrating"}
  BY TypeFacts
  DEF Queue, ResolveEntry, WritePending, Commit, CommitRefused, SaveRelations, Running,
      TokenInv, TypeInv, TypeOK, Shape, space
<1> HIDE DEF c
<1>1. ASSUME NEW k \in EntryKey, ResolveEntry(k) PROVE TokenInv'
  <2>1. /\ UNCHANGED <<phase, asked, reply, block, db>>
        /\ ctx'.token = ctx.token
        /\ Present(ctx'.objects) = Present(ctx.objects)
        /\ \A q \in Present(ctx.objects) : ctx'.objects[q].at = ctx.objects[q].at
    BY <1>1, ResolveEntryEffect DEF ResolveEntry, disk, TypeInv, TypeOK, Store
  <2>2. \A token : Fits(server, ctx.objects, token) => Fits(server, ctx'.objects, token)
    BY <2>1, SameFits
  <2>3. Consistent(server, clock, ctx) => Consistent(server, clock, ctx')
    BY <2>1, <2>2 DEF Consistent
  <2>4. /\ ~QueueFree' /\ ~QueueFree
        /\ PageRunning' <=> PageRunning
    BY <1>0, <2>1 DEF QueueFree, PageRunning, Running
  <2> QED
    BY <1>0, <2>1, <2>2, <2>3, <2>4 DEF TokenInv
<1>2. CASE WritePending
  <2>1. Running("resolve") /\ db' = db /\ phase[c] \in {"queued", "answered"}
    BY <1>0, <1>2 DEF WritePending, c, TypeInv, Shape, Running
  <2>2. CASE phase[c] = "queued"
    <3>1. Begin(c, "commit") /\ UNCHANGED <<ctx, phase, asked, reply>>
      BY <1>2, <2>2 DEF WritePending, c
    <3>2. ~PageRunning
      BY <2>2 DEF PageRunning, c
    <3> QED
      BY <1>0, <2>1, <2>2, <3>1, <3>2 DEF TokenInv
  <2>3. CASE phase[c] = "answered"
    <3>1. /\ ctx' = [ctx EXCEPT !.token = reply[c].token]
          /\ IF HasMorePages(reply[c])
             THEN Finish(c, reply[c].token)
             ELSE Begin(c, "commit") /\ UNCHANGED <<phase, asked, reply>>
      BY <1>2, <2>3 DEF WritePending, c
    <3>2. reply[c].token \in Token /\ reply[c].token # NoToken
      BY <1>0, <2>3, ReplyType, NoTokenAssumption DEF TypeInv, Shape
    <3>3. ctx'.objects = ctx.objects /\ ctx'.token = reply[c].token
      BY <1>0, <3>1 DEF Store
    <3>4. Old(clock, reply[c].token) /\ Fits(server, ctx.objects, reply[c].token)
      BY <1>0, <2>3 DEF TokenInv
    <3>5. Consistent(server, clock, ctx')
      BY <3>2, <3>3, <3>4 DEF Consistent
    <3>6. CASE HasMorePages(reply[c])
      <4>1. block' = NoBlock /\ phase'[c] = "sent" /\ asked'[c] = ctx'.token
        BY <1>0, <2>3, <3>1, <3>3, <3>6 DEF Finish, Goto, TypeInv, TypeOK
      <4> QED
        BY <1>0, <2>1, <3>5, <4>1 DEF TokenInv
    <3>7. CASE ~HasMorePages(reply[c])
      <4>1. Begin(c, "commit") /\ UNCHANGED <<phase, asked, reply>>
        BY <3>1, <3>7
      <4>2. ~QueueFree'
        BY <1>0, <4>1, BeginFacts DEF Steps
      <4> QED
        BY <1>0, <2>1, <2>3, <3>3, <3>4, <3>5, <4>1, <4>2 DEF TokenInv
    <3> QED
      BY <3>6, <3>7
  <2> QED
    BY <2>1, <2>2, <2>3
<1>3. CASE Commit
  <2>1. /\ ~PageRunning /\ db' = ctx /\ Begin(c, "relations")
        /\ UNCHANGED <<ctx, phase, asked, reply>>
    BY <1>3 DEF Commit, PageRunning, Running, c
  <2>2. ~QueueFree'
    BY <1>0, <2>1, BeginFacts DEF Steps
  <2> QED
    BY <1>0, <2>1, <2>2 DEF TokenInv
<1>4. ASSUME CommitRefused \/ SaveRelations PROVE TokenInv'
  <2>1. ~PageRunning /\ UNCHANGED <<ctx, db>> /\ Finish(c, ctx.token)
    BY <1>4 DEF CommitRefused, SaveRelations, PageRunning, Running, disk, c
  <2>2. /\ block' = NoBlock /\ phase'[c] # "answered"
        /\ phase'[c] = "sent" => asked'[c] = ctx.token
    BY <1>0, <2>1 DEF Finish, Goto, TypeInv, TypeOK
  <2> QED
    BY <1>0, <2>1, <2>2 DEF TokenInv
<1> QED
  BY <1>1, <1>2, <1>3, <1>4 DEF Queue

LEMMA CrashToken ==
  ASSUME TokenInv, Crash \/ CrashInWipe
  PROVE  TokenInv'
<1>1. Restarted /\ ctx' = db' /\ Consistent(server, clock, db')
  BY EmptyConsistent DEF Crash, CrashInWipe, TokenInv, EmptyStore
<1> QED
  BY <1>1 DEF Restarted, TokenInv, space

LEMMA EditToken ==
  ASSUME TypeInv, TokenInv, Edit
  PROVE  TokenInv'
<1>1. PICK id \in Ids : /\ server'[id].at = clock + 1
                        /\ \A other \in Ids \ {id} : server'[other] = server[other]
  BY EditType
<1>2. /\ server \in [Ids -> Change] /\ server' \in [Ids -> Change]
      /\ clock \in Nat /\ clock' = clock + 1
      /\ ctx.token \in {NoToken} \cup Token /\ db.token \in {NoToken} \cup Token
  BY EditType DEF TypeInv, TypeOK, DeliveryTypeOK, Store
<1>3. UNCHANGED memory /\ UNCHANGED disk
  BY DEF Edit
<1>4. ASSUME NEW objects, NEW token \in {NoToken} \cup Token,
             Old(clock, token), Fits(server, objects, token)
      PROVE  Old(clock', token) /\ Fits(server', objects, token)
  BY <1>1, <1>2, <1>4, ChangeFits
<1>5. Consistent(server', clock', db') /\ (~PageRunning' => Consistent(server', clock', ctx'))
  BY <1>2, <1>3, <1>4 DEF Consistent, TokenInv, PageRunning, Running, QueueFree, memory, disk
<1>6. ASSUME NEW c \in Calls, phase[c] = "answered" PROVE reply[c].token \in Token
  BY <1>6, ReplyType DEF TypeInv, Shape
<1> QED
  BY <1>3, <1>4, <1>5, <1>6 DEF TokenInv, QueueFree, memory, disk

LEMMA TokenStep ==
  ASSUME \A c, d \in Calls : c = d, TypeInv, TokenInv, [Next]_vars
  PROVE  TokenInv'
<1>1. CASE UNCHANGED vars
  BY <1>1 DEF vars, memory, disk, space, TokenInv, PageRunning, Running, QueueFree
<1>2. CASE Next
  BY <1>2, SyncToken, LocalToken, QueueToken, CrashToken, EditToken DEF Next
<1> QED
  BY <1>1, <1>2

\* The token of every request and answer fits the content, in every reachable
\* state.
THEOREM TokenInvariant ==
  ASSUME \A c, d \in Calls : c = d
  PROVE  Spec => []TokenInv
<1>1. TypeInv /\ TokenInv /\ [Next]_vars => TokenInv'
  BY TokenStep
<1> QED
  BY <1>1, InitToken, TypeInvariant, PTL DEF Spec

\* A sync token never runs ahead of the content it was delivered with, neither
\* in the store file nor between two blocks in the context, whatever pages the
\* answers are cut into, whatever fails and wherever the process ends.
THEOREM TokenNeverRunsAhead ==
  ASSUME \A c, d \in Calls : c = d
  PROVE  Spec => []TokenNeverAhead
<1>1. TokenInv => TokenNeverAhead
  <2> SUFFICES ASSUME TokenInv PROVE TokenNeverAhead
    OBVIOUS
  <2>1. QueueFree => ~PageRunning
    BY DEF PageRunning, Running
  <2> QED
    BY <2>1, MirrorsFits DEF TokenInv, TokenNeverAhead, Consistent
<1> QED
  BY <1>1, TokenInvariant, PTL

-----------------------------------------------------------------------------
(* What the store file knows.                                               *)

OneCall == \A c, d \in Calls : c = d

\* What a token leaves to be delivered only shrinks on its way to the file.
AdvanceInv ==
    /\ Outstanding(TokenHeld) \subseteq Outstanding(db.token)
    /\ \A c \in Calls : phase[c] = "answered" =>
          Outstanding(reply[c].token) \subseteq Outstanding(TokenHeld)

LEMMA HeldFacts ==
  ASSUME OneCall, TypeInv, TokenInv
  PROVE  /\ server \in [Ids -> Change] /\ clock \in Nat
         /\ phase \in [Calls -> Phases]
         /\ \A c, d \in Calls : c = d
         /\ TokenHeld = IF PageRunning THEN reply[block.call].token ELSE ctx.token
         /\ PageRunning => reply[block.call].token \in Token
         /\ TokenHeld \in {NoToken} \cup Token /\ Old(clock, TokenHeld)
<1>1. PageRunning => block.call \in Calls /\ phase[block.call] = "answered"
  BY TypeFacts DEF PageRunning, Running
<1>2. PageRunning => reply[block.call].token \in Token
  BY <1>1, ReplyType DEF TypeInv, Shape
<1>3. TokenHeld = IF PageRunning THEN reply[block.call].token ELSE ctx.token
  BY DEF TokenHeld, PageRunning
<1>4. Old(clock, TokenHeld)
  BY <1>1, <1>3 DEF TokenInv, Consistent
<1> QED
  BY <1>2, <1>3, <1>4, TypeFacts DEF OneCall, TypeInv, TypeOK, DeliveryTypeOK

\* The token of an answer leaves less to be delivered than the one asked with.
LEMMA ReplyAdvances ==
  ASSUME DeliveryTypeOK, NEW token \in {NoToken} \cup Token, Old(clock, token),
         NEW r \in Replies(token)
  PROVE  Outstanding(r.token) \subseteq Outstanding(token)
<1>1. PICK page \in SUBSET Remaining(token) :
        r = [items |-> [id \in page |-> server[id]],
             token |-> [at |-> Since(token), rest |-> Remaining(token) \ page]]
  BY DEF Replies
<1>2. /\ clock \in Nat /\ server \in [Ids -> Change]
      /\ \A id \in Ids : server[id].at \in Nat /\ server[id].at <= clock
  BY DEF DeliveryTypeOK, Change
<1>3. Remaining(token) \subseteq Ids /\ Since(token) \in Nat
  BY <1>2 DEF Remaining, Since, Token
<1>4. r.token = [at |-> Since(token), rest |-> Remaining(token) \ page] /\ r.token # NoToken
  BY <1>1, <1>3, NoTokenAssumption DEF Token
<1>5. Outstanding(r.token) \subseteq Remaining(token) \cup {id \in Ids : server[id].at > Since(token)}
  BY <1>4 DEF Outstanding
<1>6. CASE token = NoToken
  BY <1>3, <1>5, <1>6 DEF Outstanding
<1>7. CASE token # NoToken
  <2>1. token.at \in Nat /\ token.at <= Since(token)
    BY <1>2, <1>7 DEF Token, Old, Since
  <2>2. \A id \in Ids : server[id].at > Since(token) => server[id].at > token.at
    BY <1>2, <1>3, <2>1
  <2>3. Remaining(token) \subseteq Outstanding(token)
    BY <1>7 DEF Remaining, Outstanding
  <2> QED
    BY <1>5, <1>7, <2>2, <2>3 DEF Outstanding
<1> QED
  BY <1>6, <1>7

\* Steps that leave the space and the token of the file alone.
LEMMA SameKnowledge ==
  ASSUME AdvanceInv, server' = server, db'.token = db.token,
         Outstanding(TokenHeld') \subseteq Outstanding(TokenHeld),
         \A c \in Calls : phase'[c] = "answered" =>
            Outstanding(reply'[c].token) \subseteq Outstanding(TokenHeld')
  PROVE  AdvanceInv'
<1> DEFINE Left(token) == IF token = NoToken THEN Ids
                          ELSE token.rest \cup {id \in Ids : server[id].at > token.at}
<1>1. \A token : Outstanding(token) = Left(token)
  BY DEF Outstanding
<1>2. AdvanceInv' <=> /\ Left(TokenHeld') \subseteq Left(db'.token)
                      /\ \A c \in Calls : phase'[c] = "answered" =>
                            Left(reply'[c].token) \subseteq Left(TokenHeld')
  BY DEF AdvanceInv, Outstanding
<1> QED
  BY <1>1, <1>2 DEF AdvanceInv

LEMMA InitAdvance == Init => AdvanceInv
BY DEF Init, AdvanceInv, TokenHeld, Running, QueueFree, EmptyStore

LEMMA SyncAdvance ==
  ASSUME OneCall, TypeInv, TokenInv, AdvanceInv, NEW c \in Calls, Sync(c)
  PROVE  AdvanceInv'
<1>0. /\ QueueFree /\ server' = server /\ TokenHeld = ctx.token
      /\ \A d \in Calls : phase'[d] # "answered"
  BY HeldFacts
  DEF Sync, StartMigrated, StartUnversioned, StartOutdated, StartOutdatedWipeFails,
      PageRunning, Running, Goto, space
<1>1. ~Running("resolve")'
  BY <1>0, BeginFacts
  DEF Sync, StartMigrated, StartUnversioned, StartOutdated, StartOutdatedWipeFails, Steps,
      Running, QueueFree, Begin
<1>2. TokenHeld' = ctx'.token
  BY <1>1 DEF TokenHeld
<1>3. CASE StartMigrated(c) \/ StartUnversioned(c)
  <2>1. ctx'.token = ctx.token /\ db' = db
    BY <1>3 DEF StartMigrated, StartUnversioned, TypeInv, TypeOK, Store, disk
  <2> QED
    BY <1>0, <1>2, <2>1, SameKnowledge
<1>4. CASE StartOutdated(c) \/ StartOutdatedWipeFails(c)
  <2>1. ctx'.token = db'.token
    BY <1>4 DEF StartOutdated, StartOutdatedWipeFails, EmptyStore, disk
  <2> QED
    BY <1>0, <1>2, <2>1 DEF AdvanceInv
<1> QED
  BY <1>3, <1>4 DEF Sync

LEMMA CallAdvance ==
  ASSUME OneCall, TypeInv, TokenInv, AdvanceInv,
         NEW c \in Calls, Local(c) \/ Answer(c) \/ Fail(c)
  PROVE  AdvanceInv'
<1>0. /\ server' = server /\ db' = db /\ phase \in [Calls -> Phases]
      /\ phase[c] \in {"called", "queued", "asking", "sent", "answered"}
      /\ \A d \in Calls : d = c
  BY HeldFacts DEF Local, ReadPending, StartCached, Ask, StartPage, Answer, Fail, disk, space
<1>1. CASE ReadPending(c) \/ Ask(c) \/ Answer(c) \/ Fail(c)
  <2>1. UNCHANGED <<ctx, block>> /\ phase[c] \in {"called", "asking", "sent"}
    BY <1>1 DEF ReadPending, Ask, Answer, Fail
  <2>2. QueueFree /\ TokenHeld = ctx.token /\ TokenHeld' = ctx.token
    BY <1>0, <2>1, HeldFacts, TypeFacts
    DEF TypeInv, Shape, PageRunning, Running, QueueFree, TokenHeld
  <2>3. ASSUME phase'[c] = "answered"
        PROVE  Outstanding(reply'[c].token) \subseteq Outstanding(ctx.token)
    <3>1. Answer(c)
      BY <1>0, <1>1, <2>3 DEF ReadPending, Ask, Fail, Goto
    <3>2. reply'[c] \in Replies(ctx.token)
      BY <1>0, <3>1 DEF Answer, TokenInv, TypeInv, TypeOK
    <3>3. DeliveryTypeOK /\ ctx.token \in {NoToken} \cup Token /\ Old(clock, ctx.token)
      BY <2>2, HeldFacts, TypeFacts DEF TypeInv, TypeOK
    <3> QED
      BY <3>2, <3>3, ReplyAdvances
  <2> QED
    BY <1>0, <2>2, <2>3, SameKnowledge
<1>2. CASE StartCached(c) \/ StartPage(c)
  <2>1. /\ QueueFree /\ Begin(c, "resolve") /\ UNCHANGED <<phase, reply>>
        /\ phase[c] = "queued" \/ phase[c] = "answered"
        /\ ctx'.token = ctx.token
    BY <1>2 DEF StartCached, StartPage, TypeInv, TypeOK, Store
  <2>2. /\ TokenHeld = ctx.token
        /\ TokenHeld' = IF phase[c] = "answered" THEN reply[c].token ELSE ctx.token
    BY <2>1, BeginFacts DEF TokenHeld, Running, Steps
  <2> QED
    BY <1>0, <2>1, <2>2, SameKnowledge DEF AdvanceInv
<1> QED
  BY <1>1, <1>2 DEF Local

LEMMA QueueAdvance ==
  ASSUME OneCall, TypeInv, TokenInv, AdvanceInv, Queue
  PROVE  AdvanceInv'
<1> DEFINE c == block.call
<1>0. /\ ~QueueFree /\ c \in Calls /\ \A d \in Calls : d = c
      /\ server' = server /\ ctx \in Store /\ phase[c] \in {"queued", "answered", "migrating"}
  BY TypeFacts, HeldFacts
  DEF Queue, ResolveEntry, WritePending, Commit, CommitRefused, SaveRelations, Running,
      TypeInv, Shape, space
<1> HIDE DEF c
<1>1. ASSUME NEW k \in EntryKey, ResolveEntry(k) PROVE AdvanceInv'
  <2>1. UNCHANGED <<phase, reply, block, db>> /\ ctx'.token = ctx.token
    BY <1>1, ResolveEntryEffect DEF ResolveEntry, disk, TypeInv, TypeOK, Store
  <2>2. TokenHeld' = TokenHeld
    BY <2>1 DEF TokenHeld, Running, QueueFree
  <2> QED
    BY <1>0, <2>1, <2>2, SameKnowledge DEF AdvanceInv
<1>2. CASE WritePending
  <2>1. db' = db /\ Running("resolve") /\ phase[c] \in {"queued", "answered"}
    BY <1>0, <1>2 DEF WritePending, c, TypeInv, Shape, Running
  <2>2. CASE phase[c] = "queued"
    <3>1. Begin(c, "commit") /\ UNCHANGED <<ctx, phase, reply>>
      BY <1>2, <2>2 DEF WritePending, c
    <3>2. TokenHeld = ctx.token /\ TokenHeld' = ctx.token
      BY <1>0, <2>1, <2>2, <3>1, BeginFacts DEF TokenHeld, Running, Steps, c
    <3> QED
      BY <1>0, <2>1, <2>2, <3>1, <3>2, SameKnowledge DEF AdvanceInv
  <2>3. CASE phase[c] = "answered"
    <3>1. /\ ctx' = [ctx EXCEPT !.token = reply[c].token]
          /\ IF HasMorePages(reply[c])
             THEN Finish(c, reply[c].token)
             ELSE Begin(c, "commit") /\ UNCHANGED <<phase, asked, reply>>
      BY <1>2, <2>3 DEF WritePending, c
    <3>2. reply[c].token \in Token
      BY <1>0, <2>3, ReplyType DEF TypeInv, Shape
    <3>3. /\ ~Running("resolve")'
          /\ phase'[c] = "answered" => reply'[c] = reply[c]
      <4>1. CASE HasMorePages(reply[c])
        BY <1>0, <2>3, <3>1, <3>2, <4>1, FinishFacts DEF c, Running, QueueFree
      <4>2. CASE ~HasMorePages(reply[c])
        BY <1>0, <3>1, <4>2, BeginFacts DEF Steps, Running
      <4> QED
        BY <4>1, <4>2
    <3>4. TokenHeld = reply[c].token /\ TokenHeld' = reply[c].token
      BY <1>0, <2>1, <2>3, <3>1, <3>3 DEF TokenHeld, Store, c
    <3> QED
      BY <1>0, <2>1, <3>3, <3>4, SameKnowledge
  <2> QED
    BY <2>1, <2>2, <2>3
<1>3. CASE Commit
  <2>1. db' = ctx /\ UNCHANGED <<ctx, phase, reply>> /\ Running("commit") /\ Begin(c, "relations")
    BY <1>3 DEF Commit, c
  <2>2. TokenHeld = ctx.token /\ TokenHeld' = ctx.token
    BY <1>0, <2>1, BeginFacts DEF TokenHeld, Running, Steps
  <2> QED
    BY <1>0, <2>1, <2>2 DEF AdvanceInv, Outstanding
<1>4. CASE CommitRefused \/ SaveRelations
  <2>1. /\ UNCHANGED <<ctx, db>> /\ Finish(c, ctx.token)
        /\ Running("commit") \/ Running("relations")
    BY <1>4 DEF CommitRefused, SaveRelations, disk, c
  <2>2. ~Running("resolve")' /\ phase'[c] # "answered"
    BY <1>0, <2>1, HeldFacts, FinishFacts DEF Finish, Goto, Running, QueueFree
  <2>3. TokenHeld = ctx.token /\ TokenHeld' = ctx.token
    BY <2>1, <2>2 DEF TokenHeld, Running
  <2> QED
    BY <1>0, <2>1, <2>2, <2>3, SameKnowledge
<1> QED
  BY <1>1, <1>2, <1>3, <1>4 DEF Queue

LEMMA CrashAdvance ==
  ASSUME Crash \/ CrashInWipe
  PROVE  AdvanceInv'
<1>1. ctx' = db' /\ ~Running("resolve")' /\ \A c \in Calls : phase'[c] # "answered"
  BY DEF Crash, CrashInWipe, Restarted, Running, QueueFree
<1> QED
  BY <1>1 DEF AdvanceInv, TokenHeld

LEMMA EditAdvance ==
  ASSUME OneCall, TypeInv, TokenInv, AdvanceInv, Edit
  PROVE  AdvanceInv'
<1>1. PICK id \in Ids : /\ server'[id].at = clock + 1
                        /\ \A other \in Ids \ {id} : server'[other] = server[other]
  BY EditType
<1>2. UNCHANGED <<ctx, db, block, phase, reply>> /\ TokenHeld' = TokenHeld /\ clock \in Nat
  BY HeldFacts DEF Edit, memory, disk, TokenHeld, Running, QueueFree
<1>3. ASSUME NEW old, NEW token \in {NoToken} \cup Token, Old(clock, token),
             OutstandingIn(server, old) \subseteq OutstandingIn(server, token)
      PROVE  OutstandingIn(server', old) \subseteq OutstandingIn(server', token)
  <2>1. id \in OutstandingIn(server', token)
    BY <1>1, <1>2, <1>3 DEF OutstandingIn, Old, Token
  <2>2. \A other, t : other # id => (other \in OutstandingIn(server', t)
                                       <=> other \in OutstandingIn(server, t))
    BY <1>1 DEF OutstandingIn
  <2> QED
    BY <1>3, <2>1, <2>2
<1>4. \A token : OutstandingIn(server, token) = Outstanding(token)
  BY DEF Outstanding, OutstandingIn
<1>5. AdvanceInv' <=>
        /\ OutstandingIn(server', TokenHeld) \subseteq OutstandingIn(server', db.token)
        /\ \A c \in Calls : phase[c] = "answered" =>
              OutstandingIn(server', reply[c].token) \subseteq OutstandingIn(server', TokenHeld)
  BY <1>2 DEF AdvanceInv, Outstanding, OutstandingIn
<1>6. /\ TokenHeld \in {NoToken} \cup Token /\ Old(clock, TokenHeld)
      /\ db.token \in {NoToken} \cup Token /\ Old(clock, db.token)
  BY HeldFacts DEF TokenInv, Consistent, TypeInv, TypeOK, Store
<1> QED
  BY <1>3, <1>4, <1>5, <1>6 DEF AdvanceInv

\* Each token leaves less to be delivered than the one it replaces, in every
\* reachable state: the file's, the context's and that of an answer.
THEOREM AdvanceInvariant ==
  ASSUME OneCall
  PROVE  Spec => []AdvanceInv
<1>1. TypeInv /\ TokenInv /\ AdvanceInv /\ [Next]_vars => AdvanceInv'
  <2> SUFFICES ASSUME TypeInv, TokenInv, AdvanceInv, [Next]_vars PROVE AdvanceInv'
    OBVIOUS
  <2>1. CASE UNCHANGED vars
    BY <2>1 DEF vars, memory, disk, space, AdvanceInv, TokenHeld, Running, QueueFree, Outstanding
  <2>2. CASE Next
    BY <2>2, SyncAdvance, CallAdvance, QueueAdvance, CrashAdvance, EditAdvance DEF Next
  <2> QED
    BY <2>1, <2>2
<1>2. Spec => []TokenInv
  BY TokenInvariant DEF OneCall
<1> QED
  BY <1>1, <1>2, InitAdvance, TypeInvariant, PTL DEF Spec

\* No save takes back what the store file knows, whatever pages, failures and
\* crashes come between the request and the save; only an older app's store is
\* emptied.
THEOREM FileNeverForgets ==
  ASSUME OneCall
  PROVE  Spec => KnowledgeKept
<1> DEFINE Kept == \/ db' = EmptyStore /\ ctx.version < appVersion
                   \/ Outstanding(db'.token) \subseteq Outstanding(db.token)
<1>1. TypeInv /\ AdvanceInv /\ [Next]_vars => [db' # db => Kept]_vars
  <2> SUFFICES ASSUME TypeInv, AdvanceInv, Next, db' # db PROVE Kept
    OBVIOUS
  <2>1. CASE Commit
    <3>1. db' = ctx /\ TokenHeld = ctx.token
      BY <2>1 DEF Commit, TokenHeld, Running
    <3> QED
      BY <3>1 DEF AdvanceInv
  <2>2. ASSUME NEW c \in Calls, StartOutdated(c) PROVE Kept
    BY <2>2, VersionFacts DEF StartOutdated
  <2>3. CASE CrashInWipe
    BY <2>3, VersionFacts DEF CrashInWipe
  <2> QED
    BY <2>1, <2>2, <2>3
    DEF Next, Sync, StartMigrated, StartUnversioned, StartOutdatedWipeFails, Local, ReadPending,
        StartCached, Ask, StartPage, Answer, Fail, Queue, ResolveEntry, WritePending,
        CommitRefused, SaveRelations, Crash, Edit, disk
<1> QED
  BY <1>1, AdvanceInvariant, TypeInvariant, PTL DEF Spec, KnowledgeKept
=============================================================================
