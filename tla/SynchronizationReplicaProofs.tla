-------------------- MODULE SynchronizationReplicaProofs --------------------
(***************************************************************************)
(* SynchronizationManager implements Replica, for any space and any number *)
(* of overlapping calls, with failing requests, wipes and saves, and with  *)
(* crashes at any step.                                                    *)
(***************************************************************************)
EXTENDS SynchronizationTokenProofs

\* The state of the replica, and what each step has to be.
Seen == <<Copy(ctx, TokenHeld), Copy(db, db.token), Requested, Arrived, server, clock>>

\* A page is saved only when it is the last one.
LastPage ==
    ~QueueFree /\ block.step # "resolve" /\ phase[block.call] = "answered"
        => ~HasMorePages(reply[block.call])

-----------------------------------------------------------------------------
(* The mapping.                                                             *)

LEMMA CopyFacts ==
  ASSUME NEW store, NEW token
  PROVE  /\ Copy(store, token).token = token /\ Copy(store, token).version = store.version
         /\ Copy(store, token).content =
              [k \in Key |-> IF store.objects[k] = NoObject THEN NoObject ELSE store.objects[k].at]
BY DEF Copy

\* The same objects in the same versions are the same content.
LEMMA SameCopy ==
  ASSUME NEW store1, NEW store2, NEW token, store1.version = store2.version,
         Present(store1.objects) = Present(store2.objects),
         \A k \in Present(store1.objects) : store2.objects[k].at = store1.objects[k].at
  PROVE  Copy(store2, token) = Copy(store1, token)
<1>1. \A k \in Key : (IF store2.objects[k] = NoObject THEN NoObject ELSE store2.objects[k].at)
                   = (IF store1.objects[k] = NoObject THEN NoObject ELSE store1.objects[k].at)
  BY DEF Present
<1> QED
  BY <1>1 DEF Copy

LEMMA EmptyCopy ==
  /\ Copy(EmptyStore, NoToken) = Synchronized!Empty
  /\ \A v : Copy([EmptyStore EXCEPT !.version = v], NoToken) = [Synchronized!Empty EXCEPT !.version = v]
<1>1. Synchronized!Key = Key
  BY DEF Key, Synchronized!Key
<1> SUFFICES ASSUME NEW v
             PROVE  Copy([EmptyStore EXCEPT !.version = v], NoToken) =
                      [Synchronized!Empty EXCEPT !.version = v]
  BY DEF Copy, EmptyStore, Synchronized!Empty
<1>2. [EmptyStore EXCEPT !.version = v] =
        [objects |-> [k \in Key |-> NoObject], token |-> NoToken, version |-> v]
  BY DEF EmptyStore
<1>3. [Synchronized!Empty EXCEPT !.version = v] =
        [content |-> [k \in Key |-> NoObject], token |-> NoToken, version |-> v]
  BY <1>1 DEF Synchronized!Empty
<1> QED
  BY <1>2, <1>3 DEF Copy

LEMMA VersionCopy ==
  ASSUME NEW store \in Store, NEW token, NEW v
  PROVE  Copy([store EXCEPT !.version = v], token) = [Copy(store, token) EXCEPT !.version = v]
<1> DEFINE other == [store EXCEPT !.version = v]
           content == [k \in Key |-> IF store.objects[k] = NoObject THEN NoObject
                                     ELSE store.objects[k].at]
<1>1. other.objects = store.objects /\ other.version = v
  BY DEF Store
<1> HIDE DEF other
<1>2. Copy(other, token) = [content |-> content, token |-> token, version |-> v]
  BY <1>1 DEF Copy
<1>3. Copy(store, token) = [content |-> content, token |-> token, version |-> store.version]
  BY DEF Copy
<1> HIDE DEF content
<1>4. [Copy(store, token) EXCEPT !.version = v] =
        [content |-> content, token |-> token, version |-> v]
  BY <1>3
<1> QED
  BY <1>2, <1>4 DEF other

\* Between blocks the token held is the context's, and nothing is being applied.
LEMMA FreeFacts ==
  ASSUME QueueFree
  PROVE  TokenHeld = ctx.token /\ \A c \in Calls : ~ApplyingPage(c)
BY DEF QueueFree, TokenHeld, Running, ApplyingPage

\* What a call has asked and received, as the replica sees it.
LEMMA CallFacts ==
  ASSUME TypeInv, NEW c \in Calls
  PROVE  /\ Requested[c] = IF phase[c] = "sent" THEN asked[c]
                           ELSE IF ApplyingPage(c) /\ HasMorePages(reply[c]) THEN reply[c].token
                           ELSE NoReply
         /\ Arrived[c] = IF phase[c] = "answered" /\ ~ApplyingPage(c) THEN reply[c] ELSE NoReply
         /\ phase[c] = "sent" => asked[c] # NoReply
         /\ phase[c] = "answered" => reply[c] # NoReply
BY AbsenceAssumption DEF Requested, Arrived, TypeInv, TypeOK, Shape

-----------------------------------------------------------------------------
(* The steps.                                                               *)

LEMMA SyncReplica ==
  ASSUME TypeInv, NEW c \in Calls, Sync(c)
  PROVE  Synchronized!Next \/ UNCHANGED Seen
<1>0. /\ phase[c] = "idle" /\ QueueFree /\ UNCHANGED <<asked, reply, server, clock>>
      /\ ctx \in Store /\ db \in Store /\ appVersion \in DbVersions
      /\ phase' \in [Calls -> Phases] /\ phase'[c] \in {"called", "migrating"}
      /\ \A d \in Calls \ {c} : phase'[d] = phase[d]
      /\ \A d \in Calls : ~ApplyingPage(d)
      /\ TokenHeld = ctx.token
  BY FreeFacts
  DEF Sync, StartMigrated, StartUnversioned, StartOutdated, StartOutdatedWipeFails, Goto, space,
      TypeInv, TypeOK, Phases
<1>1. QueueFree' \/ Begin(c, "commit")
  BY <1>0 DEF Sync, StartMigrated, StartUnversioned, StartOutdated, StartOutdatedWipeFails, QueueFree
<1>2. /\ \A d \in Calls : ~ApplyingPage(d)'
      /\ TokenHeld' = ctx'.token
  <2>1. CASE Begin(c, "commit")
    BY <1>0, <2>1, BeginFacts DEF ApplyingPage, TokenHeld, Steps
  <2>2. CASE QueueFree'
    BY <2>2 DEF QueueFree, TokenHeld, Running, ApplyingPage
  <2> QED
    BY <1>1, <2>1, <2>2
<1>3. UNCHANGED <<Requested, Arrived>>
  BY <1>0, <1>2 DEF Requested, Arrived
<1>4. CASE StartMigrated(c)
  BY <1>0, <1>2, <1>3, <1>4 DEF StartMigrated, disk, Seen
<1>5. CASE StartUnversioned(c)
  <2>1. /\ ctx.version = 0 /\ ctx' = [ctx EXCEPT !.version = appVersion] /\ db' = db
    BY <1>5 DEF StartUnversioned, disk
  <2>2. ctx'.token = ctx.token
    BY <1>0, <2>1 DEF Store
  <2>3. Copy(ctx, TokenHeld)' = [Copy(ctx, TokenHeld) EXCEPT !.version = appVersion]
    BY <1>0, <1>2, <2>1, <2>2, VersionCopy
  <2>4. Synchronized!Stamp(appVersion)
    BY <1>0, <1>3, <2>1, <2>3, CopyFacts
    DEF Synchronized!Stamp, Synchronized!requests, Synchronized!space
  <2> QED
    BY <1>0, <2>4 DEF Synchronized!Next
<1>6. CASE StartOutdated(c)
  <2>1. /\ ctx.version \in 1 .. appVersion - 1
        /\ ctx' = [EmptyStore EXCEPT !.version = appVersion] /\ db' = EmptyStore
    BY <1>6 DEF StartOutdated
  <2>2. ctx'.token = NoToken /\ db'.token = NoToken
    BY <2>1 DEF EmptyStore
  <2>3. /\ Copy(ctx, TokenHeld)' = [Synchronized!Empty EXCEPT !.version = appVersion]
        /\ Copy(db, db.token)' = Synchronized!Empty
    BY <1>2, <2>1, <2>2, EmptyCopy
  <2>4. Synchronized!Renew(appVersion)
    BY <1>0, <1>3, <2>1, <2>3, CopyFacts
    DEF Synchronized!Renew, Synchronized!requests, Synchronized!space
  <2> QED
    BY <1>0, <2>4 DEF Synchronized!Next
<1>7. CASE StartOutdatedWipeFails(c)
  <2>1. ctx' = db /\ db' = db
    BY <1>7 DEF StartOutdatedWipeFails, disk
  <2>2. Synchronized!Revert
    BY <1>0, <1>2, <1>3, <2>1 DEF Synchronized!Revert, Synchronized!requests, Synchronized!space
  <2> QED
    BY <2>2 DEF Synchronized!Next
<1> QED
  BY <1>4, <1>5, <1>6, <1>7 DEF Sync

LEMMA LocalReplica ==
  ASSUME TypeInv, NEW c \in Calls, ReadPending(c) \/ StartCached(c) \/ Ask(c)
  PROVE  Synchronized!Next \/ UNCHANGED Seen
<1>0. /\ UNCHANGED <<ctx, reply, db, server, clock>>
      /\ phase[c] \notin {"idle", "sent", "answered", "migrating"}
      /\ phase' \in [Calls -> Phases] /\ \A d \in Calls \ {c} : phase'[d] = phase[d]
      /\ ctx \in Store
  BY DEF ReadPending, StartCached, Ask, Goto, disk, space, TypeInv, TypeOK, Phases
<1>1. CASE ReadPending(c)
  <2>1. /\ UNCHANGED <<asked, block>> /\ phase'[c] \in {"asking", "queued"} /\ phase[c] = "called"
    BY <1>1 DEF ReadPending, Goto, TypeInv, TypeOK
  <2>2. ~QueueFree => block.call # c
    BY <2>1 DEF TypeInv, Shape
  <2>3. /\ TokenHeld' = TokenHeld
        /\ \A d \in Calls : ApplyingPage(d)' <=> ApplyingPage(d)
    <3>1. ~QueueFree => block.call \in Calls
      BY TypeFacts
    <3> QED
      BY <1>0, <2>1, <2>2, <3>1 DEF TokenHeld, ApplyingPage, Running, QueueFree
  <2>4. UNCHANGED <<Requested, Arrived>>
    BY <1>0, <2>1, <2>3 DEF Requested, Arrived
  <2> QED
    BY <1>0, <2>3, <2>4 DEF Seen
<1>2. CASE StartCached(c)
  <2>1. /\ QueueFree /\ Begin(c, "resolve") /\ UNCHANGED <<asked, phase>> /\ phase[c] = "queued"
    BY <1>2 DEF StartCached
  <2>2. /\ TokenHeld = ctx.token /\ TokenHeld' = ctx.token
        /\ \A d \in Calls : ~ApplyingPage(d) /\ ~ApplyingPage(d)'
    <3>1. block'.call = c
      BY <2>1, BeginFacts DEF Steps
    <3> QED
      BY <1>0, <2>1, <3>1, FreeFacts DEF TokenHeld, ApplyingPage
  <2>3. UNCHANGED <<Requested, Arrived>>
    BY <1>0, <2>1, <2>2 DEF Requested, Arrived
  <2> QED
    BY <1>0, <2>2, <2>3 DEF Seen
<1>3. CASE Ask(c)
  <2>1. /\ QueueFree /\ QueueFree' /\ phase[c] = "asking" /\ phase'[c] = "sent"
        /\ asked' = [asked EXCEPT ![c] = ctx.token] /\ asked'[c] = ctx.token
        /\ \A d \in Calls \ {c} : asked'[d] = asked[d]
    BY <1>3 DEF Ask, Goto, QueueFree, TypeInv, TypeOK
  <2>2. /\ TokenHeld = ctx.token /\ TokenHeld' = ctx.token
        /\ \A d \in Calls : ~ApplyingPage(d) /\ ~ApplyingPage(d)'
    BY <1>0, <2>1, FreeFacts DEF QueueFree, TokenHeld, Running, ApplyingPage
  <2>3. /\ Requested[c] = NoReply /\ Arrived[c] = NoReply /\ Arrived' = Arrived
        /\ Requested' = [Requested EXCEPT ![c] = ctx.token]
    BY <1>0, <2>1, <2>2 DEF Requested, Arrived
  <2>4. UNCHANGED <<Copy(ctx, TokenHeld), Copy(db, db.token)>>
    BY <1>0, <2>2
  <2>5. Copy(ctx, TokenHeld).token = ctx.token
    BY <2>2 DEF Copy
  <2>6. Synchronized!Request(c)
    BY <1>0, <2>3, <2>4, <2>5
    DEF Synchronized!Request, Synchronized!copies, Synchronized!space
  <2> QED
    BY <2>6 DEF Synchronized!Next
<1> QED
  BY <1>1, <1>2, <1>3

\* The client's part.
LEMMA ClientReplica ==
  ASSUME TypeInv, NEW c \in Calls, Answer(c) \/ Fail(c)
  PROVE  Synchronized!Next
<1>0. /\ UNCHANGED <<ctx, db, block, server, clock>> /\ phase[c] = "sent"
      /\ phase' \in [Calls -> Phases] /\ phase'[c] \in {"idle", "answered"}
      /\ \A d \in Calls \ {c} : /\ phase'[d] = phase[d] /\ asked'[d] = asked[d]
                                /\ reply'[d] = reply[d]
  BY DEF Answer, Fail, Goto, disk, space, TypeInv, TypeOK, Phases
<1>1. ~QueueFree => block.call # c /\ block.call \in Calls
  BY <1>0, TypeFacts DEF TypeInv, Shape
<1>2. /\ TokenHeld' = TokenHeld
      /\ \A d \in Calls : ApplyingPage(d)' <=> ApplyingPage(d)
      /\ ~ApplyingPage(c)
  BY <1>0, <1>1 DEF TokenHeld, ApplyingPage, Running, QueueFree
<1>3. /\ Requested[c] = asked[c] /\ asked[c] # NoReply /\ Arrived[c] = NoReply
      /\ Requested' = [Requested EXCEPT ![c] = NoReply]
  BY <1>0, <1>2, CallFacts DEF Requested, Arrived
<1>4. CASE Answer(c)
  <2>1. PICK r \in Replies(asked[c]) : reply' = [reply EXCEPT ![c] = r]
    BY <1>4 DEF Answer
  <2>2. phase'[c] = "answered" /\ reply'[c] = r
    BY <1>4, <2>1 DEF Answer, Goto, TypeInv, TypeOK
  <2>3. Arrived' = [Arrived EXCEPT ![c] = r]
    BY <1>0, <1>2, <2>2 DEF Arrived
  <2>4. Synchronized!Replies(Requested[c]) = Replies(asked[c])
    BY <1>3 DEF Synchronized!Replies, Synchronized!Remaining, Synchronized!Since,
                Synchronized!IsPublished, Replies, Remaining, Since, IsPublished
  <2>5. Synchronized!Respond(c)
    BY <1>0, <1>2, <1>3, <2>3, <2>4
    DEF Synchronized!Respond, Synchronized!copies, Synchronized!space
  <2> QED
    BY <2>5 DEF Synchronized!Next
<1>5. CASE Fail(c)
  <2>1. phase'[c] = "idle"
    BY <1>5 DEF Fail, Goto, TypeInv, TypeOK
  <2>2. Arrived' = Arrived
    BY <1>0, <1>2, <2>1 DEF Arrived
  <2>3. Synchronized!GiveUp(c)
    BY <1>0, <1>2, <1>3, <2>2
    DEF Synchronized!GiveUp, Synchronized!copies, Synchronized!space
  <2> QED
    BY <2>3 DEF Synchronized!Next
<1> QED
  BY <1>4, <1>5

\* A page changes the replica's content as the replica says.
LEMMA PageCopy ==
  ASSUME NEW objects \in Objects, NEW items, DOMAIN items \in SUBSET Ids,
         items \in [DOMAIN items -> Change], NEW content,
         content = [k \in Key |-> IF objects[k] = NoObject THEN NoObject ELSE objects[k].at],
         NEW k \in Key
  PROVE  (IF ApplyItems(objects, items)[k] = NoObject THEN NoObject
          ELSE ApplyItems(objects, items)[k].at)
           = Synchronized!Received(content, items, Locales)[k]
<1> DEFINE after == ApplyItems(objects, items)[k]
<1>1. Synchronized!Received(content, items, Locales)[k] =
        IF k.id \notin DOMAIN items THEN content[k]
        ELSE IF ~IsPublished(items[k.id]) THEN NoObject
        ELSE IF k.id \in Persisted THEN items[k.id].at
        ELSE content[k]
  BY DEF Synchronized!Received, Synchronized!Key, Synchronized!IsPublished, IsPublished, Key
<1>2. content[k] = IF objects[k] = NoObject THEN NoObject ELSE objects[k].at
  OBVIOUS
<1>3. CASE k.id \in DOMAIN items => IsPublished(items[k.id]) /\ k.id \notin Persisted
  <2>1. /\ after = NoObject <=> objects[k] = NoObject
        /\ objects[k] # NoObject => after.at = objects[k].at
    BY <1>3, ApplyItemsKeeps
  <2> QED
    BY <1>1, <1>2, <1>3, <2>1
<1>4. CASE k.id \in DOMAIN items /\ ~IsPublished(items[k.id])
  <2>1. after = NoObject
    BY <1>4 DEF ApplyItems
  <2> QED
    BY <1>1, <1>4, <2>1
<1>5. CASE k.id \in DOMAIN items /\ IsPublished(items[k.id]) /\ k.id \in Persisted
  <2>1. Matches(items[k.id], after)
    BY <1>5, PageFits
  <2> QED
    BY <1>1, <1>5, <2>1 DEF Matches
<1> QED
  BY <1>3, <1>4, <1>5

LEMMA PageReplica ==
  ASSUME TypeInv, NEW c \in Calls, StartPage(c)
  PROVE  Synchronized!Next
<1> DEFINE r == reply[c]
           old == Copy(ctx, TokenHeld)
           content == [k \in Key |-> IF ctx.objects[k] = NoObject THEN NoObject
                                     ELSE ctx.objects[k].at]
<1>0. /\ UNCHANGED <<phase, asked, reply, db, server, clock>>
      /\ phase[c] = "answered" /\ QueueFree /\ Begin(c, "resolve")
      /\ ctx' = [ctx EXCEPT !.objects = ApplyItems(ctx.objects, r.items)]
      /\ ctx \in Store /\ ctx.objects \in Objects
  BY TypeFacts DEF StartPage, disk, space
<1>1. /\ r # NoReply /\ DOMAIN r.items \in SUBSET Ids /\ r.items \in [DOMAIN r.items -> Change]
  BY <1>0, CallFacts, ReplyType DEF TypeInv, Shape
<1>2. /\ ~QueueFree' /\ block'.call = c /\ Running("resolve")'
      /\ \A d \in Calls : ~ApplyingPage(d)
      /\ TokenHeld = ctx.token /\ TokenHeld' = r.token
      /\ ApplyingPage(c)' /\ \A d \in Calls \ {c} : ~ApplyingPage(d)'
  <2>1. ~QueueFree' /\ block'.call = c /\ Running("resolve")'
    BY <1>0, BeginFacts DEF Steps
  <2> QED
    BY <1>0, <2>1, FreeFacts DEF TokenHeld, ApplyingPage
<1>3. Arrived[c] = r /\ Arrived' = [Arrived EXCEPT ![c] = NoReply]
  BY <1>0, <1>2 DEF Arrived
<1>4. Requested' = [Requested EXCEPT ![c] = IF HasMorePages(r) THEN r.token ELSE NoReply]
  BY <1>0, <1>2 DEF Requested
<1>5. Copy(ctx, TokenHeld)' = [old EXCEPT !.content = Synchronized!Received(@, r.items, Locales),
                                          !.token = r.token]
  <2> DEFINE after == Synchronized!Received(content, r.items, Locales)
  <2>1. ctx'.objects = ApplyItems(ctx.objects, r.items) /\ ctx'.version = ctx.version
    BY <1>0 DEF Store
  <2>2. old = [content |-> content, token |-> TokenHeld, version |-> ctx.version]
    BY DEF Copy
  <2>3. ASSUME NEW k \in Key
        PROVE  (IF ctx'.objects[k] = NoObject THEN NoObject ELSE ctx'.objects[k].at) = after[k]
    BY <1>0, <1>1, <2>1, PageCopy
  <2>4. after = [k \in Key |-> after[k]]
    BY DEF Synchronized!Received, Synchronized!Key, Key
  <2> HIDE DEF content, after, r
  <2>5. Copy(ctx, TokenHeld)' = [content |-> after, token |-> r.token, version |-> ctx.version]
    BY <1>2, <2>1, <2>3, <2>4 DEF Copy
  <2>6. old.content = content
    BY <2>2
  <2>7. Synchronized!Received(old.content, r.items, Locales) = after
    BY <2>6 DEF after
  <2> HIDE DEF old
  <2>8. [old EXCEPT !.content = Synchronized!Received(@, r.items, Locales), !.token = r.token]
          = [old EXCEPT !.content = after, !.token = r.token]
    BY <2>7
  <2> DEFINE half == [old EXCEPT !.content = after]
  <2>9. half = [content |-> after, token |-> TokenHeld, version |-> ctx.version]
    BY <2>2
  <2>10. [old EXCEPT !.content = after, !.token = r.token] = [half EXCEPT !.token = r.token]
    OBVIOUS
  <2> HIDE DEF half
  <2>11. [half EXCEPT !.token = r.token]
          = [content |-> after, token |-> r.token, version |-> ctx.version]
    BY <2>9
  <2> QED
    BY <2>5, <2>8, <2>10, <2>11
<1>6. Synchronized!Apply(c, Locales)
  BY <1>0, <1>1, <1>3, <1>4, <1>5
  DEF Synchronized!Apply, Synchronized!HasMorePages, HasMorePages, Synchronized!space
<1> QED
  BY <1>6 DEF Synchronized!Next

\* The steps of a block that leave what the replica sees alone, save, or go on
\* to the request.
LEMMA ResolveReplica ==
  ASSUME TypeInv, NEW k \in EntryKey, ResolveEntry(k)
  PROVE  UNCHANGED Seen
<1>1. /\ UNCHANGED <<phase, asked, reply, block, db, server, clock>>
      /\ ctx \in Store
  BY TypeFacts DEF ResolveEntry, disk, space
<1>2. /\ ctx' = [ctx EXCEPT !.objects = ctx'.objects]
      /\ Present(ctx'.objects) = Present(ctx.objects)
      /\ \A q \in Present(ctx.objects) : ctx'.objects[q].at = ctx.objects[q].at
  BY ResolveEntryEffect
<1>3. ctx'.token = ctx.token /\ ctx'.version = ctx.version
  BY <1>1, <1>2 DEF Store
<1>4. TokenHeld' = TokenHeld /\ \A c \in Calls : ApplyingPage(c)' <=> ApplyingPage(c)
  BY <1>1, <1>3 DEF TokenHeld, ApplyingPage, Running, QueueFree
<1>5. UNCHANGED <<Requested, Arrived>>
  BY <1>1, <1>4 DEF Requested, Arrived
<1>6. Copy(ctx', TokenHeld) = Copy(ctx, TokenHeld)
  BY <1>2, <1>3, SameCopy
<1>7. UNCHANGED <<Copy(ctx, TokenHeld), Copy(db, db.token)>>
  BY <1>1, <1>4, <1>6
<1> QED
  BY <1>1, <1>5, <1>7 DEF Seen

LEMMA WriteReplica ==
  ASSUME TypeInv, WritePending
  PROVE  UNCHANGED Seen
<1> DEFINE c == block.call
<1>0. /\ Running("resolve") /\ ~QueueFree /\ c \in Calls /\ phase[c] \in {"queued", "answered"}
      /\ UNCHANGED <<db, server, clock>>
      /\ ctx \in Store
      /\ \A d \in Calls \ {c} : ~ApplyingPage(d)
  BY TypeFacts DEF WritePending, TypeInv, Shape, Running, space, ApplyingPage
<1>1. CASE phase[c] = "queued"
  <2>1. Begin(c, "commit") /\ UNCHANGED <<ctx, phase, asked, reply>>
    BY <1>1 DEF WritePending
  <2>2. block'.call = c /\ ~QueueFree'
    BY <1>0, <2>1, BeginFacts DEF Steps
  <2>3. TokenHeld' = TokenHeld /\ \A d \in Calls : ~ApplyingPage(d) /\ ~ApplyingPage(d)'
    BY <1>0, <1>1, <2>1, <2>2 DEF TokenHeld, ApplyingPage
  <2>4. UNCHANGED <<Requested, Arrived>>
    BY <2>1, <2>3 DEF Requested, Arrived
  <2> QED
    BY <1>0, <2>1, <2>3, <2>4 DEF Seen
<1>2. CASE phase[c] = "answered"
  <2>1. /\ ctx' = [ctx EXCEPT !.token = reply[c].token]
        /\ IF HasMorePages(reply[c])
           THEN Finish(c, reply[c].token)
           ELSE Begin(c, "commit") /\ UNCHANGED <<phase, asked, reply>>
    BY <1>2 DEF WritePending
  <2>2. reply[c].token \in Token /\ reply[c] # NoReply
    BY <1>0, <1>2, ReplyType, CallFacts DEF TypeInv, Shape
  <2>3. /\ ctx'.objects = ctx.objects /\ ctx'.version = ctx.version
        /\ ctx'.token = reply[c].token
    BY <1>0, <2>1, <2>2 DEF Store
  <2>4. /\ TokenHeld = reply[c].token
        /\ Requested[c] = IF HasMorePages(reply[c]) THEN reply[c].token ELSE NoReply
        /\ Arrived[c] = NoReply
    BY <1>0, <1>2 DEF TokenHeld, Requested, Arrived, ApplyingPage
  <2>5. TokenHeld' = ctx'.token /\ UNCHANGED <<Requested, Arrived>>
    <3>1. CASE HasMorePages(reply[c])
      <4>1. Finish(c, reply[c].token)
        BY <2>1, <3>1
      <4>2. QueueFree' /\ ~Running("resolve")' /\ phase'[c] = "sent" /\ asked'[c] = reply[c].token
            /\ \A d \in Calls \ {c} : /\ phase'[d] = phase[d] /\ reply'[d] = reply[d]
                                      /\ asked'[d] = asked[d]
        BY <1>0, <1>2, <3>1, <4>1 DEF Finish, Goto, QueueFree, Running, TypeInv, TypeOK
      <4>3. \A d \in Calls : ~ApplyingPage(d)'
        BY <4>2 DEF ApplyingPage
      <4>4. TokenHeld' = ctx'.token
        BY <4>2 DEF TokenHeld
      <4>5. \A d \in Calls : Requested[d]' = Requested[d] /\ Arrived[d]' = Arrived[d]
        BY <1>0, <2>4, <3>1, <4>2, <4>3 DEF Requested, Arrived
      <4> QED
        BY <4>4, <4>5 DEF Requested, Arrived
    <3>2. CASE ~HasMorePages(reply[c])
      <4>1. Begin(c, "commit") /\ UNCHANGED <<phase, asked, reply>>
        BY <2>1, <3>2
      <4>2. block'.call = c /\ ~QueueFree' /\ ~Running("resolve")'
        BY <1>0, <4>1, BeginFacts DEF Steps
      <4>3. \A d \in Calls : ApplyingPage(d)' <=> ApplyingPage(d)
        BY <1>0, <4>1, <4>2 DEF ApplyingPage
      <4>4. TokenHeld' = ctx'.token
        BY <4>2 DEF TokenHeld
      <4> QED
        BY <4>1, <4>3, <4>4 DEF Requested, Arrived
    <3> QED
      BY <3>1, <3>2
  <2>6. Copy(ctx, TokenHeld)' = Copy(ctx, TokenHeld)
    BY <2>3, <2>4, <2>5 DEF Copy
  <2> QED
    BY <1>0, <2>5, <2>6 DEF Seen
<1> QED
  BY <1>0, <1>1, <1>2

LEMMA CommitReplica ==
  ASSUME TypeInv, Commit
  PROVE  Synchronized!Next
<1> DEFINE c == block.call
<1>0. /\ ~Running("resolve") /\ ~QueueFree /\ c \in Calls /\ Begin(c, "relations")
      /\ db' = ctx /\ UNCHANGED <<ctx, phase, asked, reply, server, clock>>
  BY TypeFacts DEF Commit, Running, space
<1>1. block'.call = c /\ ~QueueFree' /\ ~Running("resolve")'
  BY <1>0, BeginFacts DEF Steps
<1>2. /\ TokenHeld = ctx.token /\ TokenHeld' = ctx.token
      /\ \A d \in Calls : ApplyingPage(d)' <=> ApplyingPage(d)
  BY <1>0, <1>1 DEF TokenHeld, ApplyingPage
<1>3. UNCHANGED <<Requested, Arrived>>
  BY <1>0, <1>2 DEF Requested, Arrived
<1>4. /\ Copy(db, db.token)' = Copy(ctx, TokenHeld)
      /\ Copy(ctx, TokenHeld)' = Copy(ctx, TokenHeld)
  BY <1>0, <1>2
<1>5. Synchronized!Save
  BY <1>0, <1>3, <1>4 DEF Synchronized!Save, Synchronized!requests, Synchronized!space
<1> QED
  BY <1>5 DEF Synchronized!Next

LEMMA FinishReplica ==
  ASSUME TypeInv, LastPage, CommitRefused \/ SaveRelations
  PROVE  Synchronized!Next \/ UNCHANGED Seen
<1> DEFINE c == block.call
<1>0. /\ ~QueueFree /\ block.step # "resolve" /\ ~Running("resolve") /\ c \in Calls
      /\ phase[c] \in {"queued", "answered", "migrating"}
      /\ Finish(c, ctx.token)
      /\ UNCHANGED <<ctx, db, server, clock>>
      /\ \A d \in Calls \ {c} : ~ApplyingPage(d)
  BY TypeFacts
  DEF CommitRefused, SaveRelations, Running, disk, space, TypeInv, Shape, ApplyingPage
<1>1. /\ QueueFree' /\ ~Running("resolve")'
      /\ \A d \in Calls \ {c} : /\ phase'[d] = phase[d] /\ reply'[d] = reply[d]
                                /\ asked'[d] = asked[d]
      /\ phase[c] = "queued" => phase'[c] = "sent" /\ asked'[c] = ctx.token
      /\ phase[c] # "queued" => phase'[c] \in {"called", "idle"}
  BY <1>0 DEF Finish, Goto, QueueFree, Running, TypeInv, TypeOK, LastPage
<1>2. /\ TokenHeld = ctx.token /\ TokenHeld' = ctx.token
      /\ \A d \in Calls : ~ApplyingPage(d)'
  BY <1>0, <1>1 DEF TokenHeld, ApplyingPage
<1>3. Requested[c] = NoReply /\ Arrived[c] = NoReply
  BY <1>0 DEF Requested, Arrived, ApplyingPage, LastPage
<1>4. \A d \in Calls \ {c} : Requested[d]' = Requested[d] /\ Arrived[d]' = Arrived[d]
  BY <1>0, <1>1, <1>2 DEF Requested, Arrived
<1>5. Arrived'[c] = NoReply
  BY <1>0, <1>1 DEF Arrived
<1>6. Arrived' = Arrived
  BY <1>3, <1>4, <1>5 DEF Arrived
<1>7. UNCHANGED <<Copy(ctx, TokenHeld), Copy(db, db.token)>>
  BY <1>0, <1>2
<1>8. CASE phase[c] = "queued"
  <2>1. Requested'[c] = ctx.token
    BY <1>0, <1>1, <1>8 DEF Requested
  <2>2. Requested' = [Requested EXCEPT ![c] = ctx.token]
    BY <1>4, <2>1 DEF Requested
  <2>3. Copy(ctx, TokenHeld).token = ctx.token
    BY <1>2 DEF Copy
  <2>4. Synchronized!Request(c)
    BY <1>0, <1>3, <1>6, <1>7, <2>2, <2>3
    DEF Synchronized!Request, Synchronized!copies, Synchronized!space
  <2> QED
    BY <1>0, <2>4 DEF Synchronized!Next
<1>9. CASE phase[c] # "queued"
  <2>1. Requested'[c] = NoReply
    BY <1>0, <1>1, <1>2, <1>9 DEF Requested
  <2>2. Requested' = Requested
    BY <1>3, <1>4, <2>1 DEF Requested
  <2> QED
    BY <1>0, <1>6, <1>7, <2>2 DEF Seen
<1> QED
  BY <1>8, <1>9

\* What happens to the process and to the space.
LEMMA CrashReplica ==
  ASSUME TypeInv, Crash \/ CrashInWipe
  PROVE  Synchronized!Next
<1>0. /\ Restarted /\ ctx' = db' /\ ctx \in Store
      /\ db' = db \/ (ctx.version # 0 /\ db' = EmptyStore)
  BY TypeFacts DEF Crash, CrashInWipe
<1>1. QueueFree' /\ (\A c \in Calls : phase'[c] = "idle") /\ UNCHANGED <<server, clock>>
  BY <1>0 DEF Restarted, QueueFree, space
<1>2. TokenHeld' = ctx'.token /\ \A c \in Calls : ~ApplyingPage(c)'
  BY <1>1 DEF TokenHeld, Running, ApplyingPage, QueueFree
<1>3. Requested' = Synchronized!NoRequests /\ Arrived' = Synchronized!NoRequests
  BY <1>1, <1>2 DEF Requested, Arrived, Synchronized!NoRequests
<1>4. Copy(ctx, TokenHeld)' = Copy(db, db.token)'
  BY <1>0, <1>2
<1>5. \/ Copy(db, db.token)' = Copy(db, db.token)
      \/ ctx.version # 0 /\ Copy(db, db.token)' = Synchronized!Empty
  <2>1. EmptyStore.token = NoToken
    BY DEF EmptyStore
  <2> QED
    BY <1>0, <2>1, EmptyCopy
<1>6. Copy(ctx, TokenHeld).version = ctx.version
  BY DEF Copy
<1>7. Synchronized!Restart
  BY <1>1, <1>3, <1>4, <1>5, <1>6 DEF Synchronized!Restart, Synchronized!space
<1> QED
  BY <1>7 DEF Synchronized!Next

LEMMA EditReplica ==
  ASSUME Edit
  PROVE  Synchronized!Next
<1>1. UNCHANGED <<memory, disk>>
  BY DEF Edit
<1>2. UNCHANGED <<ctx, db, phase, asked, reply, block>>
  BY <1>1 DEF memory, disk
<1>3. TokenHeld' = TokenHeld /\ \A c \in Calls : ApplyingPage(c)' <=> ApplyingPage(c)
  BY <1>2 DEF TokenHeld, ApplyingPage, Running, QueueFree
<1>4. UNCHANGED <<Requested, Arrived>>
  BY <1>2, <1>3 DEF Requested, Arrived
<1>5. UNCHANGED <<Copy(ctx, TokenHeld), Copy(db, db.token)>>
  BY <1>2, <1>3
<1>6. Synchronized!Edit
  BY <1>4, <1>5
  DEF Edit, Synchronized!Edit, Synchronized!copies, Synchronized!requests,
      Publish, Unpublish, SetResource, Synchronized!Publish, Synchronized!Unpublish,
      Synchronized!SetResource, IsPublished, Synchronized!IsPublished
<1> QED
  BY <1>6 DEF Synchronized!Next

-----------------------------------------------------------------------------
(* The theorem.                                                             *)

LEMMA LastPageStep ==
  ASSUME TypeInv, LastPage, [Next]_vars
  PROVE  LastPage'
<1> USE DEF LastPage
<1>1. ASSUME NEW c \in Calls, Sync(c) PROVE LastPage'
  <2>1. QueueFree
    BY <1>1 DEF Sync, StartMigrated, StartUnversioned, StartOutdated, StartOutdatedWipeFails
  <2>2. QueueFree' \/ (Begin(c, "commit") /\ phase'[c] = "migrating")
    BY <1>1, <2>1
    DEF Sync, StartMigrated, StartUnversioned, StartOutdated, StartOutdatedWipeFails, Goto,
        QueueFree, TypeInv, TypeOK
  <2>3. Begin(c, "commit") => block'.call = c
    BY BeginFacts DEF Steps
  <2> QED
    BY <2>2, <2>3
<1>2. ASSUME NEW c \in Calls, ReadPending(c) \/ Ask(c) \/ Answer(c) \/ Fail(c) PROVE LastPage'
  <2>1. /\ block' = block /\ phase[c] \in {"called", "asking", "sent"}
        /\ \A d \in Calls \ {c} : phase'[d] = phase[d] /\ reply'[d] = reply[d]
    BY <1>2 DEF ReadPending, Ask, Answer, Fail, Goto, TypeInv, TypeOK
  <2>2. ~QueueFree => block.call \in Calls \ {c}
    BY <2>1, TypeFacts DEF TypeInv, Shape
  <2> QED
    BY <2>1, <2>2 DEF QueueFree
<1>3. ASSUME NEW c \in Calls, StartCached(c) \/ StartPage(c) PROVE LastPage'
  BY <1>3, BeginFacts DEF StartCached, StartPage, Steps
<1>4. ASSUME NEW k \in EntryKey, ResolveEntry(k) PROVE LastPage'
  BY <1>4 DEF ResolveEntry, QueueFree
<1>5. CASE WritePending
  <2>1. block.call \in Calls /\ ~QueueFree
    BY <1>5, TypeFacts DEF WritePending, Running
  <2>2. \/ Finish(block.call, reply[block.call].token)
        \/ /\ Begin(block.call, "commit") /\ UNCHANGED <<phase, reply>>
           /\ phase[block.call] # "queued" => ~HasMorePages(reply[block.call])
    BY <1>5 DEF WritePending
  <2>3. Finish(block.call, reply[block.call].token) => QueueFree'
    BY DEF Finish, QueueFree
  <2>4. Begin(block.call, "commit") => block'.call = block.call
    BY <2>1, BeginFacts DEF Steps
  <2> QED
    BY <2>2, <2>3, <2>4
<1>6. CASE Commit
  <2>1. block.call \in Calls /\ ~QueueFree /\ block.step = "commit"
    BY <1>6, TypeFacts DEF Commit, Running
  <2>2. Begin(block.call, "relations") /\ UNCHANGED <<phase, reply>>
    BY <1>6 DEF Commit
  <2>3. block'.call = block.call
    BY <2>1, <2>2, BeginFacts DEF Steps
  <2> QED
    BY <2>1, <2>2, <2>3
<1>7. CASE CommitRefused \/ SaveRelations
  BY <1>7 DEF CommitRefused, SaveRelations, Finish, QueueFree
<1>8. CASE Crash \/ CrashInWipe
  BY <1>8 DEF Crash, CrashInWipe, Restarted, QueueFree
<1>9. CASE Edit \/ UNCHANGED vars
  BY <1>9 DEF Edit, vars, memory, QueueFree
<1> QED
  BY <1>1, <1>2, <1>3, <1>4, <1>5, <1>6, <1>7, <1>8, <1>9 DEF Next, Local, Queue

LEMMA InitReplica == Init => Synchronized!Init
<1> SUFFICES ASSUME Init PROVE Synchronized!Init
  OBVIOUS
<1>1. QueueFree /\ \A c \in Calls : phase[c] = "idle"
  BY DEF Init, QueueFree
<1>2. TokenHeld = ctx.token /\ \A c \in Calls : ~ApplyingPage(c)
  BY <1>1, FreeFacts
<1>3. Requested = Synchronized!NoRequests /\ Arrived = Synchronized!NoRequests
  BY <1>1, <1>2 DEF Requested, Arrived, Synchronized!NoRequests
<1>4. ctx = EmptyStore /\ db = EmptyStore /\ EmptyStore.token = NoToken
  BY DEF Init, EmptyStore
<1>5. Copy(ctx, TokenHeld) = Synchronized!Empty /\ Copy(db, db.token) = Synchronized!Empty
  BY <1>2, <1>4, EmptyCopy
<1>6. Synchronized!DeliveryInit
  BY DEF Init, DeliveryInit, Synchronized!DeliveryInit
<1> QED
  BY <1>3, <1>5, <1>6 DEF Synchronized!Init

LEMMA NextReplica ==
  ASSUME TypeInv, LastPage, [Next]_vars
  PROVE  [Synchronized!Next]_(Synchronized!vars)
<1>1. UNCHANGED Seen => UNCHANGED Synchronized!vars
  BY DEF Seen, Synchronized!vars, Synchronized!copies, Synchronized!requests, Synchronized!space
<1>2. CASE UNCHANGED vars
  <2>1. UNCHANGED <<ctx, db, phase, asked, reply, block, server, clock>>
    BY <1>2 DEF vars, memory, disk, space
  <2>2. TokenHeld' = TokenHeld /\ \A c \in Calls : ApplyingPage(c)' <=> ApplyingPage(c)
    BY <2>1 DEF TokenHeld, ApplyingPage, Running, QueueFree
  <2>3. UNCHANGED <<Requested, Arrived>>
    BY <2>1, <2>2 DEF Requested, Arrived
  <2>4. UNCHANGED Seen
    BY <2>1, <2>2, <2>3 DEF Seen
  <2> QED
    BY <1>1, <2>4
<1>3. CASE Next
  <2>1. Synchronized!Next \/ UNCHANGED Seen
    BY <1>3, SyncReplica, LocalReplica, ClientReplica, PageReplica, ResolveReplica, WriteReplica,
       CommitReplica, FinishReplica, CrashReplica, EditReplica DEF Next, Local, Queue
  <2> QED
    BY <1>1, <2>1
<1> QED
  BY <1>2, <1>3

\* The store advances by whole pages, each in one step with its token, and what
\* is saved is the store as it is after a page: for any space and links, any
\* number of overlapping calls, failures and crashes.
THEOREM ImplementsReplica == Spec => ReplicaSpec
<1>1. Init => LastPage
  BY DEF Init, LastPage, QueueFree
<1>2. TypeInv /\ LastPage /\ [Next]_vars => LastPage'
  BY LastPageStep
<1>3. TypeInv /\ LastPage /\ [Next]_vars => [Synchronized!Next]_(Synchronized!vars)
  BY NextReplica
<1> QED
  BY <1>1, <1>2, <1>3, InitReplica, TypeInvariant, PTL DEF Spec, ReplicaSpec, Synchronized!Spec

=============================================================================
