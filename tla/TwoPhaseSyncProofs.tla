-------------------------- MODULE TwoPhaseSyncProofs --------------------------
(***************************************************************************)
(* Two-phase and plain syncs and JSON seeding, for any space, locales, cut *)
(* into pages, failures, wipes and restarts: types, for any number of      *)
(* calls, and that the token claims nothing that is not stored in the      *)
(* locales it should be, for one call at a time.                           *)
(***************************************************************************)
EXTENDS TwoPhaseSync, TLAPS

Contents == [Key -> {Absent} \cup Nat]

StoreType == [content : Contents, token : {NoToken} \cup Token, version : {0} \cup DbVersions]

-----------------------------------------------------------------------------
(* Types.                                                                   *)

\* Only a sync goes through steps; it waits for an answer or has it.
CallShape(request, reply, sync, at) ==
    /\ sync \notin Syncs => at = "begun"
    /\ request = None \/ reply = None

TypeInv == LocalizedTypeOK /\ \A c \in Calls : CallShape(asked[c], answer[c], stage[c], step[c])

CallType(request, reply, sync, at, files) ==
    /\ request \in {None, NoToken} \cup Token
    /\ reply = None \/ IsReply(reply)
    /\ sync \in Stages
    /\ at \in Steps
    /\ request # None \/ reply # None <=> at = "fetching"
    /\ files \in {None} \cup SUBSET Ids
    /\ files # None <=> sync = "seed"
    /\ CallShape(request, reply, sync, at)

RestType ==
    /\ scheme \subseteq Locales
    /\ bundle \in [Ids -> Change]
    /\ appVersion \in DbVersions

LEMMA CallTypes ==
  ASSUME TypeInv, NEW c \in Calls
  PROVE  CallType(asked[c], answer[c], stage[c], step[c], unread[c])
BY DEF TypeInv, LocalizedTypeOK, CallType

LEMMA Functions ==
  ASSUME TypeInv
  PROVE  /\ DOMAIN asked = Calls /\ DOMAIN answer = Calls
         /\ DOMAIN stage = Calls /\ DOMAIN step = Calls /\ DOMAIN unread = Calls
BY DEF TypeInv, LocalizedTypeOK

\* A step of one call that leaves the others as they are.
LEMMA OneCallType ==
  ASSUME TypeInv, NEW c \in Calls, NEW request, NEW reply, NEW sync, NEW at, NEW files,
         asked' = [asked EXCEPT ![c] = request] \/ (asked' = asked /\ request = asked[c]),
         answer' = [answer EXCEPT ![c] = reply] \/ (answer' = answer /\ reply = answer[c]),
         stage' = [stage EXCEPT ![c] = sync] \/ (stage' = stage /\ sync = stage[c]),
         step' = [step EXCEPT ![c] = at] \/ (step' = step /\ at = step[c]),
         unread' = [unread EXCEPT ![c] = files] \/ (unread' = unread /\ files = unread[c]),
         CallType(request, reply, sync, at, files),
         DeliveryTypeOK', held' \in StoreType, saved' \in StoreType, RestType'
  PROVE  TypeInv'
<1>1. /\ asked'[c] = request /\ answer'[c] = reply /\ stage'[c] = sync /\ step'[c] = at
      /\ unread'[c] = files
      /\ \A d \in Calls \ {c} : /\ asked'[d] = asked[d] /\ answer'[d] = answer[d]
                                /\ stage'[d] = stage[d] /\ step'[d] = step[d]
                                /\ unread'[d] = unread[d]
      /\ DOMAIN answer' = Calls
  BY Functions
<1>2. \A d \in Calls : CallType(asked'[d], answer'[d], stage'[d], step'[d], unread'[d])
  BY <1>1, CallTypes
<1>3. /\ asked' \in [Calls -> {None, NoToken} \cup Token]
      /\ stage' \in [Calls -> Stages] /\ step' \in [Calls -> Steps]
      /\ unread' \in [Calls -> {None} \cup SUBSET Ids]
  <2>1. asked' \in [Calls -> {None, NoToken} \cup Token]
    BY <1>2 DEF TypeInv, LocalizedTypeOK, CallType
  <2>2. stage' \in [Calls -> Stages] /\ step' \in [Calls -> Steps]
    BY <1>2 DEF TypeInv, LocalizedTypeOK, CallType
  <2>3. unread' \in [Calls -> {None} \cup SUBSET Ids]
    BY <1>2 DEF TypeInv, LocalizedTypeOK, CallType
  <2> QED
    BY <2>1, <2>2, <2>3
<1>4. LocalizedTypeOK'
  BY <1>1, <1>2, <1>3 DEF LocalizedTypeOK, CallType, RestType, StoreType, Contents, IsReply, Change
<1> QED
  BY <1>2, <1>4 DEF TypeInv, CallType, CallShape

LEMMA StoreTypes ==
  ASSUME LocalizedTypeOK
  PROVE  held \in StoreType /\ saved \in StoreType
BY DEF LocalizedTypeOK, StoreType, Contents

LEMMA Versions ==
  ASSUME LocalizedTypeOK
  PROVE  held.version \in Nat /\ saved.version \in Nat /\ appVersion \in Nat
<1>1. \A v \in {0} \cup DbVersions : v \in Nat
  BY TwoPhaseAssumption
<1>2. held.version \in {0} \cup DbVersions /\ saved.version \in {0} \cup DbVersions
  BY StoreTypes DEF StoreType
<1>3. appVersion \in DbVersions
  BY DEF LocalizedTypeOK
<1> QED
  BY <1>1, <1>2, <1>3

LEMMA EmptyType == Empty \in StoreType
BY DEF Empty, StoreType, Contents

LEMMA RepliesType ==
  ASSUME DeliveryTypeOK, NEW token \in {NoToken} \cup Token, NEW r \in Replies(token)
  PROVE  IsReply(r)
<1>1. Remaining(token) \subseteq Ids /\ Since(token) \in Nat
  BY DEF Remaining, Since, Token, DeliveryTypeOK
<1>2. PICK page \in SUBSET Remaining(token) :
        r = [items |-> [id \in page |-> server[id]],
             token |-> [at |-> Since(token), rest |-> Remaining(token) \ page]]
  BY DEF Replies
<1>3. page \in SUBSET Ids
  BY <1>1
<1>4. r.items \in [page -> Change] /\ r.token \in Token
  BY <1>1, <1>2, <1>3 DEF DeliveryTypeOK, Token
<1>5. r \in [items : [page -> Change], token : Token]
  BY <1>2, <1>4
<1> QED
  BY <1>3, <1>5 DEF IsReply

LEMMA ReplyType ==
  ASSUME NEW r, IsReply(r)
  PROVE  /\ DOMAIN r.items \in SUBSET Ids
         /\ r.items \in [DOMAIN r.items -> Change]
         /\ r.token \in Token
BY DEF IsReply

LEMMA ReceivedType ==
  ASSUME NEW content \in Contents, NEW items, items \in [DOMAIN items -> Change], NEW locales
  PROVE  Received(content, items, locales) \in Contents
<1> SUFFICES ASSUME NEW k \in Key
             PROVE  Received(content, items, locales)[k] \in {Absent} \cup Nat
  BY DEF Received, Contents
<1>1. content[k] \in {Absent} \cup Nat
  BY DEF Contents
<1>2. k.id \in DOMAIN items => items[k.id].at \in Nat
  BY DEF Change
<1> QED
  BY <1>1, <1>2 DEF Received

LEMMA InstallType ==
  ASSUME LocalizedTypeOK, NEW items, items \in [DOMAIN items -> Change], NEW token \in Token,
         NEW last, Install(items, token, last)
  PROVE  /\ held' \in StoreType /\ saved' \in StoreType
         /\ held'.content = Received(held.content, items, scheme) /\ held'.token = token
         /\ held'.version = held.version
         /\ saved' = held' \/ saved' = saved
<1>1. held \in StoreType /\ saved \in StoreType
  BY StoreTypes
<1>2. Received(held.content, items, scheme) \in Contents
  BY <1>1, ReceivedType DEF StoreType
<1>3. held' = [held EXCEPT !.content = Received(held.content, items, scheme), !.token = token]
  BY DEF Install
<1>4. held' \in StoreType /\ held'.content = Received(held.content, items, scheme)
      /\ held'.token = token /\ held'.version = held.version
  BY <1>1, <1>2, <1>3 DEF StoreType
<1>5. saved' = held' \/ saved' = saved
  BY DEF Install, SaveHeld, SaveHeldTo
<1> QED
  BY <1>1, <1>4, <1>5

\* The four outcomes of migrateDbIfNeeded.
LEMMA MigrateCopies ==
  ASSUME TypeInv, NEW c \in Calls, Migrate(c)
  PROVE  /\ held' \in StoreType /\ saved' \in StoreType
         /\ \/ held.version >= appVersion /\ UNCHANGED copies
            \/ /\ held.version = 0
               /\ held'.content = held.content /\ held'.token = held.token
               /\ held'.version = appVersion /\ saved' \in {held', saved}
            \/ /\ held'.token = NoToken /\ held'.version = appVersion
               /\ saved' \in {held', Empty}
            \/ /\ held.version < appVersion /\ held' = saved /\ saved' = saved
<1>a. /\ held \in StoreType /\ saved \in StoreType /\ Empty \in StoreType
      /\ appVersion \in DbVersions
  BY StoreTypes, EmptyType DEF TypeInv, LocalizedTypeOK
<1>b. appVersion \in Nat /\ held.version \in Nat
  BY Versions DEF TypeInv
<1>0. /\ held \in StoreType /\ saved \in StoreType /\ Empty \in StoreType
      /\ appVersion \in DbVersions /\ appVersion \in Nat /\ held.version \in Nat
  BY <1>a, <1>b
<1>1. CASE MigrateCurrent(c)
  BY <1>0, <1>1 DEF MigrateCurrent, copies
<1>2. CASE MigrateUnversioned(c)
  <2>1. held.version = 0 /\ held' = [held EXCEPT !.version = appVersion] /\ saved' \in {held', saved}
    BY <1>2 DEF MigrateUnversioned, SaveHeld, SaveHeldTo
  <2>2. /\ held' \in StoreType /\ held'.content = held.content /\ held'.token = held.token
        /\ held'.version = appVersion
    BY <1>0, <2>1 DEF StoreType
  <2> QED
    BY <1>0, <2>1, <2>2
<1>3. CASE MigrateOutdated(c)
  <2>1. held' = [Empty EXCEPT !.version = appVersion] /\ saved' \in {held', Empty}
    BY <1>3 DEF MigrateOutdated, SaveHeldTo
  <2>2. held' \in StoreType /\ held'.token = NoToken /\ held'.version = appVersion
    BY <1>0, <2>1 DEF StoreType, Empty
  <2> QED
    BY <1>0, <2>1, <2>2
<1>4. CASE MigrateOutdatedFails(c)
  BY <1>0, <1>4 DEF MigrateOutdatedFails, Outdated
<1> QED
  BY <1>1, <1>2, <1>3, <1>4 DEF Migrate

LEMMA ChangeOfSpace ==
  ASSUME DeliveryTypeOK, Edit
  PROVE  /\ DeliveryTypeOK' /\ clock' = clock + 1 /\ UNCHANGED <<copies, requests>>
         /\ \E id \in Ids : /\ server'[id].at = clock + 1
                            /\ \A other \in Ids \ {id} : server'[other] = server[other]
<1>0. clock \in Nat /\ MaxChanges \in Nat /\ UNCHANGED <<copies, requests>>
  BY DeliveryAssumption DEF Edit, DeliveryTypeOK
<1>1. PICK id \in Ids : \E links \in {Unpublished} \cup UNION {Drafts[i] : i \in Ids} :
                            SetResource(id, links)
  BY DeliveryAssumption DEF Edit, Publish, Unpublish
<1>2. PICK links \in {Unpublished} \cup UNION {Drafts[i] : i \in Ids} : SetResource(id, links)
  BY <1>1
<1>3. /\ clock < MaxChanges /\ clock' = clock + 1
      /\ server' = [server EXCEPT ![id] = [at |-> clock + 1, links |-> links]]
  BY <1>2 DEF SetResource
<1>4. [at |-> clock + 1, links |-> links] \in Change
  BY <1>0 DEF Change
<1>5. /\ server' \in [Ids -> Change] /\ server'[id].at = clock + 1
      /\ \A other \in Ids \ {id} : server'[other] = server[other]
  BY <1>3, <1>4 DEF DeliveryTypeOK
<1>6. \A other \in Ids : server'[other].at <= clock'
  BY <1>0, <1>3, <1>5 DEF DeliveryTypeOK, Change
<1> QED
  BY <1>0, <1>3, <1>5, <1>6 DEF DeliveryTypeOK

LEMMA CallStepType ==
  ASSUME TypeInv, NEW c \in Calls, Proceed(c)
  PROVE  TypeInv'
<1>0. /\ LocalizedTypeOK /\ DeliveryTypeOK /\ RestType
      /\ held \in StoreType /\ saved \in StoreType
  BY StoreTypes DEF TypeInv, LocalizedTypeOK, RestType
<1>1. CallType(asked[c], answer[c], stage[c], step[c], unread[c])
  BY CallTypes
<1> DEFINE Rest == DeliveryTypeOK' /\ held' \in StoreType /\ saved' \in StoreType /\ RestType'
<1>2. CASE Migrate(c)
  <2>1. /\ stage[c] \in Syncs /\ step[c] = "begun" /\ step' = [step EXCEPT ![c] = "migrated"]
        /\ asked' = asked /\ answer' = answer /\ stage' = stage /\ unread' = unread
        /\ UNCHANGED <<space, scheme, bundle, appVersion>>
    BY <1>2 DEF Migrate, Advance, requests
  <2>2. CallType(asked[c], answer[c], stage[c], "migrated", unread[c])
    BY <1>1, <2>1 DEF CallType, CallShape, Steps
  <2>3. Rest
    BY <1>0, <1>2, <2>1, MigrateCopies DEF space, DeliveryTypeOK, RestType
  <2> QED
    BY <2>1, <2>2, <2>3, OneCallType
<1>3. CASE Ask(c)
  <2>1. held.token \in {NoToken} \cup Token /\ held.token # None
    BY <1>0, NoneAssumption DEF StoreType
  <2>2. /\ asked' = [asked EXCEPT ![c] = held.token] /\ answer' = answer
        /\ stage' = stage /\ step[c] = "migrated" /\ step' = [step EXCEPT ![c] = "fetching"]
        /\ unread' = unread /\ held' = held /\ saved' \in {saved, held}
        /\ UNCHANGED <<space, scheme, bundle, appVersion>>
    BY <1>3 DEF Ask, Advance
  <2>3. CallType(held.token, answer[c], stage[c], "fetching", unread[c])
    BY <1>1, <2>1, <2>2 DEF CallType, CallShape, Steps
  <2>4. Rest
    BY <1>0, <2>2 DEF space, DeliveryTypeOK, RestType
  <2> QED
    BY <2>2, <2>3, <2>4, OneCallType
<1>4. CASE Receive(c)
  <2>1. PICK r \in Replies(asked[c]) : answer' = [answer EXCEPT ![c] = r]
    BY <1>4 DEF Receive, Respond
  <2>2. asked[c] # None /\ asked' = [asked EXCEPT ![c] = None]
        /\ stage' = stage /\ step' = step /\ unread' = unread
    BY <1>4 DEF Receive, Respond, localization, calls
  <2>3. IsReply(r) /\ r # None
    BY <1>0, <1>1, <2>1, <2>2, RepliesType, NoneAssumption DEF CallType
  <2>4. CallType(None, r, stage[c], step[c], unread[c])
    BY <1>1, <2>2, <2>3 DEF CallType, CallShape
  <2>5. Rest
    BY <1>0, <1>4 DEF Receive, Respond, copies, space, localization, DeliveryTypeOK, RestType
  <2> QED
    BY <2>1, <2>2, <2>4, <2>5, OneCallType
<1>5. CASE Fail(c)
  <2>1. /\ asked[c] # None /\ asked' = [asked EXCEPT ![c] = None] /\ answer' = answer
        /\ stage' = stage /\ step' = [step EXCEPT ![c] = "completing"] /\ unread' = unread
    BY <1>5 DEF Fail, GiveUp, Advance
  <2>2. CallType(None, answer[c], stage[c], "completing", unread[c])
    BY <1>1, <2>1 DEF CallType, CallShape, Steps
  <2>3. Rest
    BY <1>0, <1>5 DEF Fail, GiveUp, copies, space, DeliveryTypeOK, RestType
  <2> QED
    BY <2>1, <2>2, <2>3, OneCallType
<1>6. CASE Update(c)
  <2> DEFINE r == answer[c]
             more == HasMorePages(r)
             next == IF more THEN r.token ELSE None
             at == IF more THEN "fetching" ELSE "completing"
  <2>1. /\ r # None /\ asked' = [asked EXCEPT ![c] = next] /\ answer' = [answer EXCEPT ![c] = None]
        /\ stage' = stage /\ step' = [step EXCEPT ![c] = at] /\ Install(r.items, r.token, ~more)
        /\ unread' = unread /\ UNCHANGED <<space, scheme, bundle, appVersion>>
    BY <1>6 DEF Update, Advance
  <2>2. r.items \in [DOMAIN r.items -> Change] /\ r.token \in Token
    BY <1>1, <2>1, ReplyType DEF CallType
  <2>3. CallType(next, None, stage[c], at, unread[c])
    BY <1>1, <2>1, <2>2, NoneAssumption DEF CallType, CallShape, Steps
  <2>4. held' \in StoreType /\ saved' \in StoreType
    BY <1>0, <2>1, <2>2, InstallType
  <2>5. Rest
    BY <1>0, <2>1, <2>4 DEF space, DeliveryTypeOK, RestType
  <2> HIDE DEF next, at, r, more
  <2> QED
    BY <2>1, <2>3, <2>5, OneCallType
<1>7. CASE StartFinal(c)
  <2>1. /\ stage[c] = "first" /\ step[c] = "completing" /\ asked' = asked /\ answer' = answer
        /\ stage' = [stage EXCEPT ![c] = "final"] /\ step' = [step EXCEPT ![c] = "begun"]
        /\ scheme' = Locales /\ unread' = unread /\ UNCHANGED <<space, bundle, appVersion>>
        /\ held' = [held EXCEPT !.token = NoToken] /\ saved' \in {held', saved}
    BY <1>7 DEF StartFinal, Become, Advance, SaveHeld, SaveHeldTo, requests
  <2>2. CallType(asked[c], answer[c], "final", "begun", unread[c])
    BY <1>1, <2>1 DEF CallType, CallShape, Stages, Syncs, Steps
  <2>3. held' \in StoreType /\ saved' \in StoreType
    BY <1>0, <2>1 DEF StoreType
  <2>4. Rest
    BY <1>0, <2>1, <2>3 DEF space, DeliveryTypeOK, RestType
  <2> QED
    BY <2>1, <2>2, <2>4, OneCallType
<1>8. CASE StartFinalFails(c) \/ Complete(c)
  <2>1. /\ stage[c] \in Syncs /\ step[c] = "completing" /\ asked' = asked /\ answer' = answer
        /\ stage' = [stage EXCEPT ![c] = "idle"] /\ step' = [step EXCEPT ![c] = "begun"]
        /\ unread' = unread
    BY <1>8 DEF StartFinalFails, Complete, Become, Advance, vars, requests, Syncs
  <2>2. CallType(asked[c], answer[c], "idle", "begun", unread[c])
    BY <1>1, <2>1 DEF CallType, CallShape, Stages, Syncs, Steps
  <2>3. Rest
    BY <1>0, <1>8 DEF StartFinalFails, Complete, vars, copies, space, DeliveryTypeOK, RestType
  <2> QED
    BY <2>1, <2>2, <2>3, OneCallType
<1> QED
  BY <1>2, <1>3, <1>4, <1>5, <1>6, <1>7, <1>8 DEF Proceed

LEMMA BeginType ==
  ASSUME TypeInv, NEW c \in Calls, SyncPlain(c) \/ SyncTwoPhase(c)
  PROVE  TypeInv'
<1>0. /\ LocalizedTypeOK /\ DeliveryTypeOK /\ RestType
      /\ held \in StoreType /\ saved \in StoreType
  BY StoreTypes DEF TypeInv, LocalizedTypeOK, RestType
<1>1. CallType(asked[c], answer[c], stage[c], step[c], unread[c])
  BY CallTypes
<1>2. PICK sync \in {"plain", "first"} : stage' = [stage EXCEPT ![c] = sync]
  BY DEF SyncPlain, SyncTwoPhase, Become
<1>3. /\ stage[c] = "idle" /\ asked' = asked /\ answer' = answer /\ step' = step
      /\ unread' = unread /\ UNCHANGED <<copies, space, bundle, appVersion>>
  BY DEF SyncPlain, SyncTwoPhase, vars, requests
<1>4. CallType(asked[c], answer[c], sync, step[c], unread[c])
  BY <1>1, <1>3 DEF CallType, CallShape, Stages, Syncs
<1>5. scheme' = scheme \/ scheme' \in InitialSchemes
  BY DEF SyncPlain, SyncTwoPhase
<1>6. RestType'
  BY <1>0, <1>3, <1>5, TwoPhaseAssumption DEF RestType
<1>7. DeliveryTypeOK' /\ held' \in StoreType /\ saved' \in StoreType
  BY <1>0, <1>3 DEF copies, space, DeliveryTypeOK
<1> QED
  BY <1>2, <1>3, <1>4, <1>6, <1>7, OneCallType

LEMMA BundlePage ==
  ASSUME TypeInv, NEW c \in Calls, SeedPage(c)
  PROVE  /\ stage[c] = "seed" /\ unread[c] # None /\ unread[c] \in SUBSET Ids
         /\ \E page \in SUBSET unread[c] :
              LET rest == unread[c] \ page
                  items == [id \in page |-> bundle[id]]
                  token == [at |-> 0, rest |-> rest]
              IN  /\ items \in [DOMAIN items -> Change] /\ token \in Token
                  /\ Install(items, token, rest = {})
                  /\ unread' = [unread EXCEPT ![c] = IF rest = {} THEN None ELSE rest]
                  /\ stage' = [stage EXCEPT ![c] = IF rest = {} THEN "idle" ELSE "seed"]
<1>1. stage[c] = "seed" /\ unread[c] # None /\ unread[c] \in SUBSET Ids /\ bundle \in [Ids -> Change]
  BY CallTypes DEF TypeInv, LocalizedTypeOK, SeedPage, CallType
<1>2. PICK page \in SUBSET unread[c] :
        LET rest == unread[c] \ page
        IN  /\ Install([id \in page |-> bundle[id]], [at |-> 0, rest |-> rest], rest = {})
            /\ unread' = [unread EXCEPT ![c] = IF rest = {} THEN None ELSE rest]
            /\ stage' = [stage EXCEPT ![c] = IF rest = {} THEN "idle" ELSE "seed"]
  BY DEF SeedPage, Become
<1>3. [at |-> 0, rest |-> unread[c] \ page] \in Token
  BY <1>1 DEF Token
<1>4. [id \in page |-> bundle[id]] \in [page -> Change]
  BY <1>1
<1> QED
  BY <1>1, <1>2, <1>3, <1>4

LEMMA SeedType ==
  ASSUME TypeInv, NEW c \in Calls, Seed(c) \/ SeedPage(c) \/ SeedThrows(c)
  PROVE  TypeInv'
<1>0. /\ LocalizedTypeOK /\ DeliveryTypeOK /\ RestType
      /\ held \in StoreType /\ saved \in StoreType
  BY StoreTypes DEF TypeInv, LocalizedTypeOK, RestType
<1>1. CallType(asked[c], answer[c], stage[c], step[c], unread[c])
  BY CallTypes
<1>2. /\ asked' = asked /\ answer' = answer /\ step' = step
      /\ UNCHANGED <<space, scheme, bundle, appVersion>>
  BY DEF Seed, SeedPage, SeedThrows, vars, requests
<1>3. DeliveryTypeOK' /\ RestType'
  BY <1>0, <1>2 DEF space, DeliveryTypeOK, RestType
<1>4. CASE Seed(c)
  <2> DEFINE files == {id \in Ids : IsPublished(bundle[id])}
  <2>1. /\ stage[c] = "idle" /\ stage' = [stage EXCEPT ![c] = "seed"]
        /\ unread' = [unread EXCEPT ![c] = files] /\ UNCHANGED copies
    BY <1>4 DEF Seed, Become, vars
  <2>2. files \in SUBSET Ids /\ files # None
    BY NoneAssumption
  <2> HIDE DEF files
  <2>3. CallType(asked[c], answer[c], "seed", step[c], files)
    BY <1>1, <2>1, <2>2 DEF CallType, CallShape, Stages, Syncs
  <2> QED
    BY <1>0, <1>2, <1>3, <2>1, <2>3, OneCallType DEF copies
<1>5. CASE SeedPage(c)
  <2>1. PICK page \in SUBSET unread[c] :
          LET rest == unread[c] \ page
              items == [id \in page |-> bundle[id]]
              token == [at |-> 0, rest |-> rest]
          IN  /\ items \in [DOMAIN items -> Change] /\ token \in Token
              /\ Install(items, token, rest = {})
              /\ unread' = [unread EXCEPT ![c] = IF rest = {} THEN None ELSE rest]
              /\ stage' = [stage EXCEPT ![c] = IF rest = {} THEN "idle" ELSE "seed"]
    BY <1>5, BundlePage
  <2> DEFINE rest == unread[c] \ page
             files == IF rest = {} THEN None ELSE rest
             sync == IF rest = {} THEN "idle" ELSE "seed"
  <2>2. held' \in StoreType /\ saved' \in StoreType
    BY <1>0, <2>1, InstallType
  <2>3. stage[c] = "seed" /\ rest \in SUBSET Ids /\ rest # None
    BY <1>5, BundlePage, NoneAssumption
  <2>4. CallType(asked[c], answer[c], sync, step[c], files)
    BY <1>1, <2>3 DEF CallType, CallShape, Stages, Syncs
  <2>5. unread' = [unread EXCEPT ![c] = files] /\ stage' = [stage EXCEPT ![c] = sync]
    BY <2>1
  <2> HIDE DEF files, sync
  <2> QED
    BY <1>2, <1>3, <2>2, <2>4, <2>5, OneCallType
<1>6. CASE SeedThrows(c)
  <2>1. /\ stage[c] = "seed" /\ stage' = [stage EXCEPT ![c] = "idle"]
        /\ unread' = [unread EXCEPT ![c] = None] /\ UNCHANGED copies
    BY <1>6 DEF SeedThrows, Become, vars
  <2>2. CallType(asked[c], answer[c], "idle", step[c], None)
    BY <1>1, <2>1 DEF CallType, CallShape, Stages, Syncs
  <2> QED
    BY <1>0, <1>2, <1>3, <2>1, <2>2, OneCallType DEF copies
<1> QED
  BY <1>4, <1>5, <1>6

LEMMA QuitType ==
  ASSUME TypeInv, Quit
  PROVE  TypeInv'
<1>0. /\ LocalizedTypeOK /\ DeliveryTypeOK /\ RestType
      /\ held \in StoreType /\ saved \in StoreType
  BY StoreTypes DEF TypeInv, LocalizedTypeOK, RestType
<1>1. saved' \in StoreType /\ held' = saved'
  BY <1>0, EmptyType DEF Quit, Restart
<1>2. /\ asked' = [c \in Calls |-> None] /\ answer' = [c \in Calls |-> None]
      /\ stage' = [c \in Calls |-> "idle"] /\ step' = [c \in Calls |-> "begun"]
      /\ unread' = [c \in Calls |-> None]
      /\ scheme' = Configured /\ appVersion' \in DbVersions /\ UNCHANGED <<space, bundle>>
  BY DEF Quit, Restart, NoRequests
<1>3. DeliveryTypeOK' /\ RestType'
  BY <1>0, <1>2, TwoPhaseAssumption DEF space, DeliveryTypeOK, RestType
<1>4. \A c \in Calls : /\ asked'[c] = None /\ answer'[c] = None /\ unread'[c] = None
                       /\ stage'[c] = "idle" /\ step'[c] = "begun"
  BY <1>2
<1>5. LocalizedTypeOK'
  BY <1>1, <1>2, <1>3, <1>4 DEF LocalizedTypeOK, RestType, StoreType, Contents, Stages, Steps
<1> QED
  BY <1>4, <1>5 DEF TypeInv, CallShape

LEMMA EditType ==
  ASSUME TypeInv, EditSpace
  PROVE  TypeInv'
<1>1. DeliveryTypeOK' /\ UNCHANGED <<copies, requests>>
  BY ChangeOfSpace DEF EditSpace, TypeInv, LocalizedTypeOK
<1>2. UNCHANGED <<copies, requests, scheme, stage, step, unread, bundle, appVersion>>
  BY <1>1 DEF EditSpace, localization, calls
<1>3. LocalizedTypeOK'
  BY <1>1, <1>2 DEF TypeInv, LocalizedTypeOK, copies, requests, IsReply, Change
<1> QED
  BY <1>2, <1>3 DEF TypeInv, CallShape, requests

LEMMA TypeStep ==
  ASSUME TypeInv, [TwoPhaseNext]_phaseVars
  PROVE  TypeInv'
<1>1. CASE UNCHANGED phaseVars
  BY <1>1 DEF phaseVars, vars, copies, requests, space, localization, calls, TypeInv,
              LocalizedTypeOK, DeliveryTypeOK, CallShape, IsReply, Change
<1> QED
  BY <1>1, BeginType, CallStepType, SeedType, QuitType, EditType DEF TwoPhaseNext

LEMMA InitType == TwoPhaseInit => TypeInv
<1> SUFFICES ASSUME TwoPhaseInit PROVE TypeInv
  OBVIOUS
<1>1. DeliveryTypeOK /\ server \in [Ids -> Change]
  <2>1. \A id \in Ids : Initially[id] \subseteq {Unpublished} \cup UNION {Drafts[i] : i \in Ids}
    BY DeliveryAssumption
  <2>2. UNION {Initially[id] : id \in Ids} \subseteq {Unpublished} \cup UNION {Drafts[i] : i \in Ids}
    BY <2>1
  <2>3. server \in [Ids -> Change] /\ \A id \in Ids : server[id].at = 0
    BY <2>2 DEF TwoPhaseInit, Init, DeliveryInit, Change
  <2> QED
    BY <2>3, DeliveryAssumption DEF TwoPhaseInit, Init, DeliveryInit, DeliveryTypeOK
<1>2. held \in StoreType /\ saved \in StoreType
  BY EmptyType DEF TwoPhaseInit, Init
<1> QED
  BY <1>1, <1>2, TwoPhaseAssumption, NoneAssumption
     DEF TwoPhaseInit, Init, NoRequests, TypeInv, LocalizedTypeOK, CallShape, StoreType, Contents,
         Stages, Steps

LEMMA TypeInvariant == TwoPhaseSpec => []TypeInv
BY InitType, TypeStep, PTL DEF TwoPhaseSpec

\* Types for any number of calls: a call waits for an answer or has one exactly
\* while it is fetching, and files are left to read exactly while it seeds
\* (SynchronizationManager.swift:223-246, SynchronizationManager+SeedDB.swift:53-66).
THEOREM LocalizedTypeCorrect == TwoPhaseSpec => []LocalizedTypeOK
<1>1. TypeInv => LocalizedTypeOK
  BY DEF TypeInv
<1> QED
  BY <1>1, TypeInvariant, PTL

-----------------------------------------------------------------------------
(* What a token claims is stored.                                           *)

OutstandingIn(space0, token) ==
    IF token = NoToken THEN Ids
    ELSE token.rest \cup {id \in Ids : space0[id].at > token.at}

HoldsIn(space0, content, token, locales) ==
    \A k \in Key :
        k.id \in Persisted \ OutstandingIn(space0, token) /\ IsPublished(space0[k.id]) /\ k.locale \in locales
            => content[k] = space0[k.id].at

Old(time, token) == token # NoToken => token.at <= time

LEMMA HoldsHoldsIn ==
  ASSUME NEW store, NEW locales
  PROVE  Holds(store, locales) <=> HoldsIn(server, store.content, store.token, locales)
BY DEF Holds, HoldsIn, Outstanding, OutstandingIn

LEMMA FewerLocales ==
  ASSUME NEW space0, NEW content, NEW token, NEW locales, NEW fewer \in SUBSET locales,
         HoldsIn(space0, content, token, locales)
  PROVE  HoldsIn(space0, content, token, fewer)
BY DEF HoldsIn

\* A sync that starts from nothing owes nothing yet.
LEMMA NothingClaimed ==
  ASSUME NEW space0, NEW content, NEW locales, NEW time
  PROVE  HoldsIn(space0, content, NoToken, locales) /\ Old(time, NoToken)
BY DEF HoldsIn, OutstandingIn, Old, Key

\* A change of the space makes a resource outstanding and nothing else.
LEMMA ChangeHolds ==
  ASSUME NEW space1 \in [Ids -> Change], NEW space2 \in [Ids -> Change], NEW time \in Nat,
         NEW id \in Ids, space2[id].at = time + 1,
         \A other \in Ids \ {id} : space2[other] = space1[other],
         NEW content, NEW token \in {NoToken} \cup Token, NEW locales,
         Old(time, token), HoldsIn(space1, content, token, locales)
  PROVE  HoldsIn(space2, content, token, locales) /\ Old(time + 1, token)
<1>1. CASE token = NoToken
  BY <1>1, NothingClaimed
<1>2. CASE token # NoToken
  <2>1. token.at \in Nat /\ token.at <= time
    BY <1>2 DEF Token, Old
  <2>2. id \in OutstandingIn(space2, token)
    BY <1>2, <2>1 DEF OutstandingIn
  <2>3. \A other \in Ids \ {id} :
           other \in OutstandingIn(space2, token) <=> other \in OutstandingIn(space1, token)
    BY <1>2 DEF OutstandingIn
  <2>4. \A k \in Key : k.id \in Ids
    BY DEF Key
  <2>5. HoldsIn(space2, content, token, locales)
    BY <2>2, <2>3, <2>4 DEF HoldsIn
  <2> QED
    BY <2>1, <2>5 DEF Old
<1> QED
  BY <1>1, <1>2

LEMMA ReceivedItem ==
  ASSUME NEW content, NEW items, NEW locales, NEW k \in Key
  PROVE  /\ k.id \notin DOMAIN items => Received(content, items, locales)[k] = content[k]
         /\ k.id \in DOMAIN items /\ IsPublished(items[k.id]) /\ k.id \in Persisted /\ k.locale \in locales
              => Received(content, items, locales)[k] = items[k.id].at
BY DEF Received

\* An answer, applied in some locales, brings a store that holds in them, or in
\* fewer, what its token claims to what the answer's token claims.
LEMMA ReplyHolds ==
  ASSUME DeliveryTypeOK, NEW content, NEW token \in {NoToken} \cup Token,
         NEW stored, NEW locales \in SUBSET stored,
         Old(clock, token), HoldsIn(server, content, token, locales), NEW r \in Replies(token)
  PROVE  /\ HoldsIn(server, Received(content, r.items, stored), r.token, locales)
         /\ Old(clock, r.token)
<1>0. clock \in Nat
  BY DEF DeliveryTypeOK
<1>1. PICK page \in SUBSET Remaining(token) :
        r = [items |-> [id \in page |-> server[id]],
             token |-> [at |-> Since(token), rest |-> Remaining(token) \ page]]
  BY DEF Replies
<1>2. r.token # NoToken
  BY <1>0, <1>1, RepliesType, ReplyType, NoTokenAssumption
<1>3. r.token.at = Since(token) /\ r.token.rest = Remaining(token) \ page
      /\ r.items = [id \in page |-> server[id]]
  BY <1>1
<1>4. Since(token) \in Nat /\ Since(token) <= clock
  BY <1>0 DEF Since, Old, Token
<1>5. ASSUME NEW k \in Key, k.id \in Persisted \ OutstandingIn(server, r.token),
             IsPublished(server[k.id]), k.locale \in locales
      PROVE  Received(content, r.items, stored)[k] = server[k.id].at
  <2>1. /\ k.id \in Ids /\ k.id \notin Remaining(token) \ page
        /\ server[k.id].at \in Nat /\ server[k.id].at <= Since(token)
    BY <1>2, <1>3, <1>4, <1>5 DEF OutstandingIn, Key, DeliveryTypeOK, Change
  <2>2. CASE k.id \in page
    BY <1>3, <1>5, <2>2, ReceivedItem
  <2>3. CASE k.id \notin page
    <3>1. Received(content, r.items, stored)[k] = content[k]
      BY <1>3, <2>3, ReceivedItem
    <3>2. k.id \notin Remaining(token) /\ token # NoToken
      BY <1>5, <2>1, <2>3 DEF Remaining
    <3>3. token.at \in Nat
      BY <3>2 DEF Token
    <3>4. k.id \notin OutstandingIn(server, token)
      BY <2>1, <3>2, <3>3 DEF Remaining, Since, OutstandingIn
    <3> QED
      BY <1>5, <3>1, <3>4 DEF HoldsIn
  <2> QED
    BY <2>2, <2>3
<1> QED
  BY <1>3, <1>4, <1>5 DEF HoldsIn, Old

-----------------------------------------------------------------------------
(* One call at a time.                                                      *)

OneCall == \A c, d \in Calls : c = d

\* The file's version never runs ahead of the one in memory, so a wipe that
\* fails does not leave a store that looks current.
StoresInv ==
    /\ Common \subseteq scheme
    /\ HoldsIn(server, held.content, held.token, Common) /\ Old(clock, held.token)
    /\ HoldsIn(server, saved.content, saved.token, Common) /\ Old(clock, saved.token)
    /\ saved.version <= held.version

\* A request goes on from the token in memory, and its answer fits the content
\* in memory once it is stored in the scheme of the moment.
RequestInv(c) ==
    /\ asked[c] # None => asked[c] = held.token
    /\ answer[c] # None =>
          /\ Old(clock, answer[c].token)
          /\ HoldsIn(server, Received(held.content, answer[c].items, scheme), answer[c].token, Common)

\* A second phase starts from nothing, in all locales.
FinalInv(c) ==
    stage[c] = "final" =>
        /\ scheme = Locales
        /\ step[c] = "begun" => held.token = NoToken
        /\ held.version >= appVersion =>
              /\ HoldsIn(server, held.content, held.token, Locales)
              /\ answer[c] # None =>
                    HoldsIn(server, Received(held.content, answer[c].items, scheme),
                            answer[c].token, Locales)

\* What the bundle has is what is published if it has not changed since, and
\* the files that are read are in memory.
BundleInv == \A id \in Ids : bundle[id].at = 0 /\ (server[id].at = 0 => server[id] = bundle[id])

FilesInv(c) ==
    unread[c] # None =>
        \A k \in Key : IsPublished(bundle[k.id]) /\ k.id \in Persisted \ unread[c] /\ k.locale \in Common
            => held.content[k] = 0

CallInv(c) == RequestInv(c) /\ FinalInv(c) /\ FilesInv(c)

PhaseInv == TypeInv /\ StoresInv /\ BundleInv /\ \A c \in Calls : CallInv(c)

LEMMA CommonLocales ==
  /\ Common \subseteq Configured /\ Common \subseteq Locales
  /\ \A initial \in InitialSchemes : Common \subseteq initial
BY TwoPhaseAssumption DEF Common

LEMMA PhaseTypes ==
  ASSUME PhaseInv
  PROVE  /\ TypeInv /\ LocalizedTypeOK /\ DeliveryTypeOK /\ held \in StoreType /\ saved \in StoreType
         /\ held.token \in {NoToken} \cup Token /\ saved.token \in {NoToken} \cup Token
         /\ held.version \in Nat /\ saved.version \in Nat /\ appVersion \in Nat
<1>1. TypeInv /\ LocalizedTypeOK /\ DeliveryTypeOK /\ held \in StoreType /\ saved \in StoreType
  BY StoreTypes DEF PhaseInv, TypeInv, LocalizedTypeOK
<1> QED
  BY <1>1, Versions DEF StoreType

\* A call that neither waits for an answer nor has one.
LEMMA QuietCall ==
  ASSUME TypeInv, NEW c \in Calls, step[c] # "fetching" \/ stage[c] \notin Syncs
  PROVE  asked[c] = None /\ answer[c] = None
BY DEF TypeInv, LocalizedTypeOK, CallShape

LEMMA BusyCall ==
  ASSUME TypeInv, NEW c \in Calls, stage[c] \in Syncs \/ step[c] # "begun" \/ answer[c] # None
  PROVE  unread[c] = None /\ stage[c] \in Syncs
BY DEF TypeInv, LocalizedTypeOK, CallShape, Syncs

\* Steps that leave the stores, the space and the scheme alone, and at most
\* stop waiting for an answer.
LEMMA QuietStep ==
  ASSUME PhaseInv, TypeInv', UNCHANGED <<copies, space, scheme, bundle, answer, appVersion>>,
         asked' = asked \/ (\E c \in Calls : asked' = [asked EXCEPT ![c] = None]),
         \A c \in Calls : stage'[c] = "final" => /\ stage[c] = "final"
                                                 /\ step'[c] = "begun" => step[c] = "begun",
         \A c \in Calls : unread'[c] \in {unread[c], None, {id \in Ids : IsPublished(bundle[id])}}
  PROVE  PhaseInv'
<1>1. \A c \in Calls : RequestInv(c)'
  <2>1. \A c \in Calls : asked'[c] # None => asked'[c] = held.token
    BY DEF PhaseInv, CallInv, RequestInv, TypeInv, LocalizedTypeOK
  <2> QED
    BY <2>1 DEF PhaseInv, CallInv, RequestInv, copies, space
<1>2. \A c \in Calls : FinalInv(c)'
  BY DEF PhaseInv, CallInv, FinalInv, copies, space
<1>3. \A c \in Calls : FilesInv(c)'
  BY DEF PhaseInv, CallInv, FilesInv, copies, Key
<1>4. BundleInv' /\ StoresInv'
  BY DEF PhaseInv, BundleInv, StoresInv, copies, space
<1> QED
  BY <1>1, <1>2, <1>3, <1>4 DEF PhaseInv, CallInv

LEMMA BeginPhase ==
  ASSUME OneCall, PhaseInv, TypeInv', NEW c \in Calls, SyncPlain(c) \/ SyncTwoPhase(c)
  PROVE  PhaseInv'
<1>0. TypeInv /\ StoresInv /\ BundleInv /\ CallInv(c) /\ \A d \in Calls : d = c
  BY DEF PhaseInv, OneCall
<1>1. /\ stage[c] = "idle" /\ stage'[c] \in {"plain", "first"}
      /\ UNCHANGED <<vars, unread, bundle, appVersion>>
  BY <1>0, Functions DEF SyncPlain, SyncTwoPhase, Become
<1>2. asked[c] = None /\ answer[c] = None
  BY <1>0, <1>1, QuietCall DEF Syncs
<1>3. Common \subseteq scheme'
  BY <1>0, CommonLocales DEF SyncPlain, SyncTwoPhase, StoresInv
<1>4. StoresInv' /\ BundleInv'
  BY <1>0, <1>1, <1>3 DEF StoresInv, BundleInv, vars, copies, space
<1>5. CallInv(c)'
  BY <1>0, <1>1, <1>2 DEF CallInv, RequestInv, FinalInv, FilesInv, vars, copies, requests, space
<1> QED
  BY <1>0, <1>4, <1>5 DEF PhaseInv

LEMMA MigratePhase ==
  ASSUME OneCall, PhaseInv, TypeInv', NEW c \in Calls, Migrate(c)
  PROVE  PhaseInv'
<1>0. TypeInv /\ StoresInv /\ BundleInv /\ CallInv(c) /\ \A d \in Calls : d = c
  BY DEF PhaseInv, OneCall
<1>1. /\ stage[c] \in Syncs /\ step[c] = "begun" /\ step'[c] = "migrated"
      /\ UNCHANGED <<requests, space, scheme, stage, unread, bundle, appVersion>>
  BY <1>0, Functions DEF Migrate, Advance
<1>2. asked[c] = None /\ answer[c] = None /\ unread[c] = None
  BY <1>0, <1>1, QuietCall, BusyCall
<1>3. Empty.token = NoToken /\ Empty.version = 0
  BY DEF Empty
<1>4. /\ HoldsIn(server, held'.content, held'.token, Common) /\ Old(clock, held'.token)
      /\ HoldsIn(server, saved'.content, saved'.token, Common) /\ Old(clock, saved'.token)
      /\ saved'.version <= held'.version
      /\ held.token = NoToken /\ held'.version >= appVersion => held'.token = NoToken
  <2>1. CASE held.version >= appVersion /\ UNCHANGED copies
    BY <1>0, <2>1 DEF StoresInv, copies
  <2>2. CASE /\ held.version = 0
             /\ held'.content = held.content /\ held'.token = held.token
             /\ held'.version = appVersion /\ saved' \in {held', saved}
    BY <1>0, <2>2, PhaseTypes DEF StoresInv
  <2>3. CASE /\ held'.token = NoToken /\ held'.version = appVersion
             /\ saved' \in {held', Empty}
    <3>1. saved'.token = NoToken /\ saved'.version <= held'.version
      BY <1>3, <2>3, PhaseTypes
    <3> QED
      BY <2>3, <3>1, NothingClaimed
  <2>4. CASE held.version < appVersion /\ held' = saved /\ saved' = saved
    BY <1>0, <2>4, PhaseTypes DEF StoresInv
  <2> QED
    BY <1>0, <2>1, <2>2, <2>3, <2>4, MigrateCopies
<1>5. StoresInv' /\ BundleInv'
  BY <1>0, <1>1, <1>4 DEF StoresInv, BundleInv, space
<1>6. ASSUME stage[c] = "final", held'.version >= appVersion
      PROVE  HoldsIn(server, held'.content, held'.token, Locales)
  <2>1. held'.token = NoToken
    BY <1>0, <1>1, <1>4, <1>6 DEF CallInv, FinalInv
  <2> QED
    BY <2>1, NothingClaimed
<1>7. FinalInv(c)'
  BY <1>0, <1>1, <1>2, <1>6 DEF CallInv, FinalInv, requests, space
<1>8. RequestInv(c)' /\ FilesInv(c)'
  BY <1>1, <1>2 DEF RequestInv, FilesInv, requests
<1> QED
  BY <1>0, <1>5, <1>7, <1>8 DEF PhaseInv, CallInv

LEMMA CallPhase ==
  ASSUME OneCall, PhaseInv, TypeInv', NEW c \in Calls, Proceed(c)
  PROVE  PhaseInv'
<1>0. /\ TypeInv /\ DeliveryTypeOK /\ StoresInv /\ BundleInv /\ CallInv(c)
      /\ \A d \in Calls : d = c
  BY PhaseTypes DEF PhaseInv, OneCall
<1>1. CASE Migrate(c)
  BY <1>1, MigratePhase
<1>2. CASE Ask(c)
  <2>1. /\ step[c] = "migrated" /\ step'[c] = "fetching" /\ asked'[c] = held.token
        /\ held' = held /\ saved' \in {saved, held}
        /\ UNCHANGED <<answer, space, scheme, stage, unread, bundle, appVersion>>
    BY <1>0, <1>2, Functions DEF Ask, Advance
  <2>2. StoresInv' /\ BundleInv'
    <3>1. saved'.version <= held'.version
      BY <1>0, <2>1, PhaseTypes DEF StoresInv
    <3>2. HoldsIn(server, saved'.content, saved'.token, Common) /\ Old(clock, saved'.token)
      BY <1>0, <2>1 DEF StoresInv
    <3> QED
      BY <1>0, <2>1, <3>1, <3>2 DEF StoresInv, BundleInv, space
  <2>3. CallInv(c)'
    BY <1>0, <2>1 DEF CallInv, RequestInv, FinalInv, FilesInv, space
  <2> QED
    BY <1>0, <2>2, <2>3 DEF PhaseInv
<1>3. CASE Receive(c)
  <2>1. /\ asked[c] # None /\ asked' = [asked EXCEPT ![c] = None]
        /\ UNCHANGED <<copies, space, scheme, stage, step, unread, bundle, appVersion>>
    BY <1>3 DEF Receive, Respond, localization, calls
  <2>2. PICK r \in Replies(held.token) : answer' = [answer EXCEPT ![c] = r]
    BY <1>0, <1>3, <2>1 DEF Receive, Respond, CallInv, RequestInv
  <2>3. asked'[c] = None /\ answer'[c] = r /\ answer[c] = None
    BY <1>0, <2>1, <2>2, Functions DEF TypeInv, CallShape
  <2>4. /\ HoldsIn(server, Received(held.content, r.items, scheme), r.token, Common)
        /\ Old(clock, r.token)
    BY <1>0, PhaseTypes, ReplyHolds DEF StoresInv
  <2>5. stage[c] = "final" /\ held.version >= appVersion =>
          HoldsIn(server, Received(held.content, r.items, scheme), r.token, Locales)
    <3> SUFFICES ASSUME stage[c] = "final", held.version >= appVersion
                 PROVE  HoldsIn(server, Received(held.content, r.items, scheme), r.token, Locales)
      OBVIOUS
    <3>1. scheme = Locales /\ HoldsIn(server, held.content, held.token, Locales)
      BY <1>0 DEF CallInv, FinalInv
    <3>2. Old(clock, held.token) /\ Locales \in SUBSET scheme
      BY <1>0, <3>1 DEF StoresInv
    <3> QED
      BY <1>0, <3>1, <3>2, PhaseTypes, ReplyHolds
  <2>6. CallInv(c)'
    BY <1>0, <2>1, <2>3, <2>4, <2>5 DEF CallInv, RequestInv, FinalInv, FilesInv, copies, space
  <2>7. StoresInv' /\ BundleInv'
    BY <1>0, <2>1 DEF StoresInv, BundleInv, copies, space
  <2> QED
    BY <1>0, <2>6, <2>7 DEF PhaseInv
<1>4. CASE Fail(c)
  <2>1. /\ asked[c] # None /\ asked' = [asked EXCEPT ![c] = None]
        /\ step'[c] = "completing"
        /\ UNCHANGED <<copies, space, scheme, stage, unread, bundle, answer, appVersion>>
    BY <1>0, <1>4, Functions DEF Fail, GiveUp, Advance
  <2> QED
    BY <1>0, <2>1, QuietStep
<1>5. CASE Update(c)
  <2> DEFINE r == answer[c]
  <2>1. /\ r # None /\ Install(r.items, r.token, ~HasMorePages(r))
        /\ asked' = [asked EXCEPT ![c] = IF HasMorePages(r) THEN r.token ELSE None]
        /\ answer' = [answer EXCEPT ![c] = None]
        /\ step'[c] \in {"fetching", "completing"}
        /\ UNCHANGED <<space, scheme, stage, unread, bundle, appVersion>>
    BY <1>0, <1>5, Functions DEF Update, Advance
  <2>2. IsReply(r) /\ unread[c] = None
    BY <1>0, <2>1, BusyCall DEF TypeInv, LocalizedTypeOK
  <2>3. r.items \in [DOMAIN r.items -> Change] /\ r.token \in Token
    BY <2>2, ReplyType
  <2>4. /\ held'.content = Received(held.content, r.items, scheme) /\ held'.token = r.token
        /\ held'.version = held.version /\ (saved' = held' \/ saved' = saved)
    BY <2>1, <2>3, InstallType, PhaseTypes
  <2>5. HoldsIn(server, held'.content, held'.token, Common) /\ Old(clock, held'.token)
    BY <1>0, <2>1, <2>4 DEF CallInv, RequestInv
  <2>6. /\ HoldsIn(server, saved'.content, saved'.token, Common) /\ Old(clock, saved'.token)
        /\ saved'.version <= held'.version
    <3>1. CASE saved' = held'
      BY <2>4, <2>5, <3>1, PhaseTypes
    <3>2. CASE saved' = saved
      BY <1>0, <2>4, <3>2 DEF StoresInv
    <3> QED
      BY <2>4, <3>1, <3>2
  <2>7. answer'[c] = None /\ (asked'[c] # None => asked'[c] = held'.token)
    BY <1>0, <2>1, <2>4, Functions
  <2>8. stage[c] = "final" /\ held.version >= appVersion =>
          HoldsIn(server, held'.content, held'.token, Locales)
    BY <1>0, <2>1, <2>4 DEF CallInv, FinalInv
  <2>9. StoresInv' /\ BundleInv'
    BY <1>0, <2>1, <2>5, <2>6 DEF StoresInv, BundleInv, space
  <2>10. CallInv(c)'
    BY <1>0, <2>1, <2>2, <2>4, <2>7, <2>8 DEF CallInv, RequestInv, FinalInv, FilesInv, space
  <2> QED
    BY <1>0, <2>9, <2>10 DEF PhaseInv
<1>6. CASE StartFinal(c)
  <2>1. /\ stage[c] = "first" /\ step[c] = "completing"
        /\ UNCHANGED <<requests, space, unread, bundle, appVersion>>
        /\ scheme' = Locales /\ held' = [held EXCEPT !.token = NoToken] /\ saved' \in {held', saved}
    BY <1>6 DEF StartFinal, SaveHeld, SaveHeldTo
  <2>2. /\ held'.token = NoToken /\ held'.version = held.version
        /\ asked[c] = None /\ answer[c] = None /\ unread[c] = None
    BY <1>0, <2>1, PhaseTypes, QuietCall, BusyCall DEF StoreType
  <2>3. /\ HoldsIn(server, held'.content, held'.token, Common)
        /\ HoldsIn(server, held'.content, held'.token, Locales) /\ Old(clock, held'.token)
    BY <2>2, NothingClaimed
  <2>4. /\ HoldsIn(server, saved'.content, saved'.token, Common) /\ Old(clock, saved'.token)
        /\ saved'.version <= held'.version
    <3>1. CASE saved' = held'
      BY <2>2, <2>3, <3>1, PhaseTypes
    <3>2. CASE saved' = saved
      BY <1>0, <2>2, <3>2 DEF StoresInv
    <3> QED
      BY <2>1, <3>1, <3>2
  <2>5. StoresInv' /\ BundleInv'
    BY <1>0, <2>1, <2>3, <2>4, CommonLocales DEF StoresInv, BundleInv, space
  <2>6. CallInv(c)'
    BY <2>1, <2>2, <2>3 DEF CallInv, RequestInv, FinalInv, FilesInv, requests, space
  <2> QED
    BY <1>0, <2>5, <2>6 DEF PhaseInv
<1>7. CASE StartFinalFails(c) \/ Complete(c)
  <2>1. /\ stage'[c] = "idle" /\ UNCHANGED <<vars, scheme, unread, bundle, appVersion>>
    BY <1>0, <1>7, Functions DEF StartFinalFails, Complete, Become
  <2> QED
    BY <1>0, <2>1, QuietStep DEF vars, requests
<1> QED
  BY <1>1, <1>2, <1>3, <1>4, <1>5, <1>6, <1>7 DEF Proceed

LEMMA SeedPhase ==
  ASSUME OneCall, PhaseInv, TypeInv', NEW c \in Calls, Seed(c) \/ SeedPage(c) \/ SeedThrows(c)
  PROVE  PhaseInv'
<1>0. /\ TypeInv /\ DeliveryTypeOK /\ StoresInv /\ BundleInv /\ CallInv(c)
      /\ \A d \in Calls : d = c
  BY PhaseTypes DEF PhaseInv, OneCall
<1>1. CASE Seed(c) \/ SeedThrows(c)
  <2>1. /\ stage'[c] \in {"idle", "seed"} /\ UNCHANGED <<vars, scheme, step, bundle, appVersion>>
        /\ unread'[c] \in {None, {id \in Ids : IsPublished(bundle[id])}}
    BY <1>0, <1>1, Functions DEF Seed, SeedThrows, Become
  <2> QED
    BY <1>0, <2>1, QuietStep DEF vars, requests
<1>2. CASE SeedPage(c)
  <2>1. UNCHANGED <<requests, space, scheme, bundle, appVersion>> /\ stage[c] = "seed" /\ unread[c] # None
    BY <1>0, <1>2, BundlePage DEF SeedPage
  <2>2. PICK page \in SUBSET unread[c] :
          LET rest == unread[c] \ page
              items == [id \in page |-> bundle[id]]
              token == [at |-> 0, rest |-> rest]
          IN  /\ items \in [DOMAIN items -> Change] /\ token \in Token
              /\ Install(items, token, rest = {})
              /\ unread' = [unread EXCEPT ![c] = IF rest = {} THEN None ELSE rest]
              /\ stage' = [stage EXCEPT ![c] = IF rest = {} THEN "idle" ELSE "seed"]
    BY <1>0, <1>2, BundlePage
  <2> DEFINE items == [id \in page |-> bundle[id]]
             content == Received(held.content, items, scheme)
  <2>3. /\ held'.content = content /\ held'.token = [at |-> 0, rest |-> unread[c] \ page]
        /\ held'.version = held.version /\ (saved' = held' \/ saved' = saved)
        /\ held'.token \in Token
    BY <2>2, InstallType, PhaseTypes
  <2>4. ASSUME NEW k \in Key, IsPublished(bundle[k.id]), k.id \in Persisted \ (unread[c] \ page),
               k.locale \in Common
        PROVE  content[k] = 0
    <3>1. k.id \in Ids /\ bundle[k.id].at = 0 /\ k.locale \in scheme
      BY <1>0, <2>4 DEF BundleInv, StoresInv, Key
    <3>2. CASE k.id \in page
      BY <2>4, <3>1, <3>2, ReceivedItem
    <3>3. CASE k.id \notin page
      <4>1. content[k] = held.content[k]
        BY <3>3, ReceivedItem
      <4> QED
        BY <1>0, <2>1, <2>4, <3>3, <4>1 DEF CallInv, FilesInv
    <3> QED
      BY <3>2, <3>3
  <2>5. HoldsIn(server, held'.content, held'.token, Common) /\ Old(clock, held'.token)
    <3>1. held'.token # NoToken /\ clock \in Nat
      <4>1. clock \in Nat
        BY <1>0 DEF DeliveryTypeOK
      <4> QED
        BY <2>3, <4>1, NoTokenAssumption
    <3>2. ASSUME NEW k \in Key, k.id \in Persisted \ OutstandingIn(server, held'.token),
                 IsPublished(server[k.id]), k.locale \in Common
          PROVE  held'.content[k] = server[k.id].at
      <4>1. k.id \in Ids /\ k.id \notin unread[c] \ page /\ server[k.id].at \in Nat /\ ~(server[k.id].at > 0)
        BY <1>0, <2>3, <3>1, <3>2 DEF OutstandingIn, Key, DeliveryTypeOK, Change
      <4>2. server[k.id].at = 0 /\ server[k.id] = bundle[k.id]
        BY <1>0, <4>1 DEF BundleInv
      <4> QED
        BY <2>3, <2>4, <3>2, <4>1, <4>2
    <3>3. HoldsIn(server, held'.content, held'.token, Common)
      BY <3>2 DEF HoldsIn
    <3>4. Old(clock, held'.token)
      BY <2>3, <3>1 DEF Old
    <3> QED
      BY <3>3, <3>4
  <2>6. /\ HoldsIn(server, saved'.content, saved'.token, Common) /\ Old(clock, saved'.token)
        /\ saved'.version <= held'.version
    <3>1. CASE saved' = held'
      BY <2>3, <2>5, <3>1, PhaseTypes
    <3>2. CASE saved' = saved
      BY <1>0, <2>3, <3>2 DEF StoresInv
    <3> QED
      BY <2>3, <3>1, <3>2
  <2>7. StoresInv' /\ BundleInv'
    BY <1>0, <2>1, <2>5, <2>6 DEF StoresInv, BundleInv, space
  <2>8. /\ unread'[c] = IF unread[c] \ page = {} THEN None ELSE unread[c] \ page
        /\ stage'[c] \in {"idle", "seed"}
    BY <1>0, <2>2, Functions
  <2>9. FilesInv(c)'
    <3>1. SUFFICES ASSUME unread'[c] # None
                   PROVE  \A k \in Key :
                            IsPublished(bundle[k.id]) /\ k.id \in Persisted \ unread'[c] /\ k.locale \in Common
                              => held'.content[k] = 0
      BY <2>1 DEF FilesInv
    <3>2. unread'[c] = unread[c] \ page
      BY <2>8, <3>1
    <3> QED
      BY <2>3, <2>4, <3>2
  <2>10. RequestInv(c)' /\ FinalInv(c)'
    <3>1. asked'[c] = None /\ answer'[c] = None
      BY <1>0, <2>1, QuietCall DEF Syncs, requests
    <3> QED
      BY <2>8, <3>1 DEF RequestInv, FinalInv
  <2> QED
    BY <1>0, <2>7, <2>9, <2>10 DEF PhaseInv, CallInv
<1> QED
  BY <1>1, <1>2

LEMMA QuitPhase ==
  ASSUME PhaseInv, TypeInv', Quit
  PROVE  PhaseInv'
<1>1. /\ saved' = saved \/ saved' = Empty
      /\ held' = saved'
      /\ asked' = [c \in Calls |-> None] /\ answer' = [c \in Calls |-> None]
      /\ stage' = [c \in Calls |-> "idle"] /\ unread' = [c \in Calls |-> None]
      /\ scheme' = Configured /\ UNCHANGED <<space, bundle>>
  BY DEF Quit, Restart, NoRequests
<1>2. HoldsIn(server, saved'.content, saved'.token, Common) /\ Old(clock, saved'.token)
  <2>1. CASE saved' = Empty
    <3>1. saved'.token = NoToken
      BY <2>1 DEF Empty
    <3> QED
      BY <3>1, NothingClaimed
  <2>2. CASE saved' = saved
    BY <2>2 DEF PhaseInv, StoresInv
  <2> QED
    BY <1>1, <2>1, <2>2
<1>3. saved'.version <= held'.version
  <2>1. saved'.version \in Nat
    BY <1>1, PhaseTypes DEF Empty
  <2> QED
    BY <1>1, <2>1
<1>4. StoresInv'
  BY <1>1, <1>2, <1>3, CommonLocales DEF StoresInv, space
<1>5. BundleInv'
  BY <1>1 DEF PhaseInv, BundleInv, space
<1>6. \A c \in Calls : asked'[c] = None /\ answer'[c] = None /\ stage'[c] = "idle" /\ unread'[c] = None
  BY <1>1
<1> QED
  BY <1>4, <1>5, <1>6 DEF PhaseInv, CallInv, RequestInv, FinalInv, FilesInv

LEMMA EditPhase ==
  ASSUME PhaseInv, TypeInv', EditSpace
  PROVE  PhaseInv'
<1>0. /\ DeliveryTypeOK /\ DeliveryTypeOK' /\ clock' = clock + 1
      /\ UNCHANGED <<copies, requests, scheme, stage, step, unread, bundle, appVersion>>
  BY PhaseTypes, ChangeOfSpace DEF EditSpace, localization, calls
<1>1. PICK id \in Ids : /\ server'[id].at = clock + 1
                        /\ \A other \in Ids \ {id} : server'[other] = server[other]
  BY PhaseTypes, ChangeOfSpace DEF EditSpace
<1>2. server \in [Ids -> Change] /\ server' \in [Ids -> Change] /\ clock \in Nat
  BY <1>0 DEF DeliveryTypeOK
<1>3. ASSUME NEW content, NEW token \in {NoToken} \cup Token, NEW locales,
             Old(clock, token), HoldsIn(server, content, token, locales)
      PROVE  HoldsIn(server', content, token, locales) /\ Old(clock', token)
  BY <1>0, <1>1, <1>2, <1>3, ChangeHolds
<1>4. StoresInv'
  <2>1. /\ HoldsIn(server', held.content, held.token, Common) /\ Old(clock', held.token)
        /\ HoldsIn(server', saved.content, saved.token, Common) /\ Old(clock', saved.token)
    BY <1>3, PhaseTypes DEF PhaseInv, StoresInv
  <2> QED
    BY <1>0, <2>1 DEF PhaseInv, StoresInv, copies
<1>5. ASSUME NEW c \in Calls, answer[c] # None, NEW locales,
             HoldsIn(server, Received(held.content, answer[c].items, scheme), answer[c].token, locales)
      PROVE  /\ HoldsIn(server', Received(held.content, answer[c].items, scheme), answer[c].token, locales)
             /\ Old(clock', answer[c].token)
  <2>1. answer[c].token \in Token
    BY <1>5, ReplyType, PhaseTypes DEF LocalizedTypeOK
  <2>2. Old(clock, answer[c].token)
    BY <1>5 DEF PhaseInv, CallInv, RequestInv
  <2> QED
    BY <1>3, <1>5, <2>1, <2>2
<1>6. ASSUME NEW c \in Calls
      PROVE  CallInv(c)'
  <2>1. CallInv(c)
    BY DEF PhaseInv
  <2>2. RequestInv(c)'
    BY <1>0, <1>5, <2>1 DEF CallInv, RequestInv, copies, requests
  <2>3. stage[c] = "final" /\ held.version >= appVersion =>
          HoldsIn(server', held.content, held.token, Locales)
    BY <1>3, <2>1, PhaseTypes DEF PhaseInv, StoresInv, CallInv, FinalInv
  <2>4. FinalInv(c)'
    BY <1>0, <1>5, <2>1, <2>3 DEF CallInv, FinalInv, copies, requests
  <2>5. FilesInv(c)'
    BY <1>0, <2>1 DEF CallInv, FilesInv, copies
  <2> QED
    BY <2>2, <2>4, <2>5 DEF CallInv
<1>7. \A other \in Ids : server'[other].at = 0 => server'[other] = server[other]
  BY <1>1, <1>2
<1>8. BundleInv'
  BY <1>0, <1>7 DEF PhaseInv, BundleInv
<1> QED
  BY <1>4, <1>6, <1>8 DEF PhaseInv

LEMMA InitPhase == TwoPhaseInit => PhaseInv
<1> SUFFICES ASSUME TwoPhaseInit PROVE PhaseInv
  OBVIOUS
<1>1. /\ held.token = NoToken /\ saved.token = NoToken /\ scheme = Configured
      /\ held.version = 0 /\ saved.version = 0
  BY DEF TwoPhaseInit, Init, Empty
<1>2. StoresInv
  BY <1>1, NothingClaimed, CommonLocales DEF StoresInv
<1>3. BundleInv
  BY DEF TwoPhaseInit, Init, DeliveryInit, BundleInv
<1>4. \A c \in Calls : CallInv(c)
  BY DEF TwoPhaseInit, Init, NoRequests, CallInv, RequestInv, FinalInv, FilesInv
<1> QED
  BY <1>2, <1>3, <1>4, InitType DEF PhaseInv

\* For an app with one call at a time, the token claims nothing that is not
\* stored in the locales all its schemes have in common, and while a second
\* phase is under way on a store of the app's version, nothing that is not
\* stored in all locales: for any space, schemes, pages, seeds, failures,
\* wipes, refused saves and restarts.
THEOREM TokenDelivers ==
  ASSUME OneCall
  PROVE  TwoPhaseSpec => []Delivered
<1>1. ASSUME PhaseInv, [TwoPhaseNext]_phaseVars
      PROVE  PhaseInv'
  <2>1. TypeInv'
    BY <1>1, TypeStep DEF PhaseInv
  <2>2. CASE UNCHANGED phaseVars
    BY <1>1, <2>1, <2>2, QuietStep DEF phaseVars, vars, requests, localization, calls
  <2> QED
    BY <1>1, <2>1, <2>2, BeginPhase, CallPhase, SeedPhase, QuitPhase, EditPhase DEF TwoPhaseNext
<1>2. PhaseInv => Delivered
  BY HoldsHoldsIn DEF PhaseInv, StoresInv, CallInv, FinalInv, Delivered
<1> QED
  BY <1>1, <1>2, InitPhase, PTL DEF TwoPhaseSpec
=============================================================================
