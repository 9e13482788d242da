----------------------- MODULE SynchronizationManager -----------------------
(***************************************************************************)
(* SynchronizationManager on top of CoreDataStore: sync(limit:dbVersion:), *)
(* the pages the client hands to update(with:), the resolution of links    *)
(* between what was delivered, and the files that carry unresolved links   *)
(* and known relationships from one process to the next.                   *)
(*                                                                         *)
(* Blocks given to the persistence store run one at a time on the queue of *)
(* its context.  A block is several steps here, because the process may    *)
(* end between its writes and because another sync() reads the file of     *)
(* unresolved links without entering the queue.                            *)
(***************************************************************************)
EXTENDS ContentDelivery, RelationshipData

CONSTANTS
    Assets,         \* ids of assets; Parents are the entries of mapped types
    ToOne,          \* fields that hold one link, the others hold a list
    Required,       \* <<id, field>>: links whose Core Data relationship is not optional
    NoValue,        \* a link field without a value
    NotLink,        \* a link field that holds something else than links
    Calls,          \* calls of sync() that may be under way at once
    DbVersions,     \* dbVersion arguments an app may be built with
    MayFailWipe,    \* destroying the store file may throw
    MayEvict,       \* NSCache may discard objects while links are resolved
    CrashSteps,     \* steps of a block, or of a wipe, at which the process may end
    Nothing, Settled, Sentinel, NoObject, NotLoaded, NoBlock, NoReply

Persisted == Parents \cup Assets
Key == [id : Ids, locale : Locales]
EntryKey == [id : Parents, locale : Locales]

\* A managed object: sys.updatedAt, which stands for its attributes, and its
\* relationships (lists of links without their order).
Object == [at : Nat, links : [Fields -> SUBSET Key]]

\* The Core Data store: objects by cache key and the SyncSpacePersistable.
Store == [objects : [Key -> {NoObject} \cup Object],
          token   : {NoToken} \cup Token,
          version : {0} \cup DbVersions]

EmptyStore == [objects |-> [k \in Key |-> NoObject], token |-> NoToken, version |-> 0]

\* relationshipsToResolve.  An entry of it has every link field; a field that
\* is no longer in the entry's dictionary is Settled.
Unresolved == {Nothing} \cup [Fields -> {Settled, Sentinel} \cup SUBSET Key]
NothingToResolve == [k \in EntryKey |-> Nothing]

Phases == {"idle", "migrating", "called", "queued", "asking", "sent", "answered"}
Steps == {"resolve", "commit", "relations"}

ASSUME SynchronizationAssumption ==
    /\ Ids = ChildIds
    /\ Persisted \subseteq Ids
    /\ Parents \cap Assets = {}
    /\ ToOne \subseteq Fields
    /\ Required \subseteq Parents \X ToOne
    /\ DbVersions \subseteq Nat \ {0}
    /\ CrashSteps \subseteq Steps \cup {"none", "wipe"}
    /\ \A id \in Ids : Drafts[id] \subseteq [Fields -> {NoValue, NotLink} \cup SUBSET Ids]

\* One link is one link; the marks for fields are no links.
ASSUME LinkAssumption ==
    /\ \A id \in Ids : \A links \in Drafts[id] : \A f \in ToOne :
          links[f] \in {NoValue, NotLink} \cup {{t} : t \in Ids}
    /\ Settled # Sentinel
    /\ \A keys \in SUBSET Key : keys \notin {Settled, Sentinel}
    /\ Nothing \notin [Fields -> {Settled, Sentinel} \cup SUBSET Key]

ASSUME AbsenceAssumption ==
    /\ NoObject \notin Object
    /\ NoBlock \notin [call : Calls, step : Steps]
    /\ NoReply \notin {NoToken} \cup Token /\ ~IsReply(NoReply)

VARIABLES
    ctx,            \* the managed object context, with unsaved changes
    db,             \* the store file
    toResolve,      \* relationshipsToResolve
    pendingFile,    \* ContentfulRelationshipsToResolve.data, as it is read back
    rel,            \* relationshipsManager.relationships, or NotLoaded
    relFile,        \* ContentfulPersistenceRelationships.data, as it is read back
    appVersion,     \* the dbVersion this process passes to sync()
    phase,          \* [Calls -> how far a sync() has got]
    snapshot,       \* [Calls -> the unresolved links it has read from the file]
    asked,          \* [Calls -> the token of its request]
    reply,          \* [Calls -> the page it has received]
    block,          \* the running block of the context's queue: [call, step]
    work,           \* keys of toResolve the running loop has still to visit
    cache           \* keys of the objects in the block's DataCache

memory == <<ctx, toResolve, rel, phase, snapshot, asked, reply, block, work, cache>>
disk == <<db, pendingFile, relFile>>
space == <<server, clock>>
vars == <<memory, disk, space, appVersion>>

-----------------------------------------------------------------------------
(* Shared helpers.                                                          *)

QueueFree == block = NoBlock

Begin(c, step) == block' = [call |-> c, step |-> step]

Running(step) == ~QueueFree /\ block.step = step

Present(objects) == {k \in Key : objects[k] # NoObject}

Relationships == IF rel = NotLoaded THEN relFile ELSE rel

InLocale(ids, locale) == [id : ids, locale : {locale}]

\* CoreData refuses to save an entry that lacks a required link.
Valid(objects) ==
    \A k \in Present(objects) : \A f \in ToOne :
        <<k.id, f>> \in Required => objects[k].links[f] # {}

-----------------------------------------------------------------------------
(* A process and its calls of sync().                                       *)

Init ==
    /\ DeliveryInit
    /\ ctx = EmptyStore /\ db = EmptyStore
    /\ toResolve = NothingToResolve /\ pendingFile = NothingToResolve
    /\ rel = NotLoaded /\ relFile = EmptyData
    /\ appVersion \in DbVersions
    /\ phase = [c \in Calls |-> "idle"]
    /\ snapshot = [c \in Calls |-> NothingToResolve]
    /\ asked = [c \in Calls |-> NoToken]
    /\ reply = [c \in Calls |-> NoReply]
    /\ block = NoBlock /\ work = {} /\ cache = {}

Goto(c, p) == phase' = [phase EXCEPT ![c] = p]

\* migrateDbIfNeeded: the store carries the version of the app.
StartMigrated(c) ==
    /\ phase[c] = "idle" /\ QueueFree
    /\ ctx.version >= appVersion
    /\ Goto(c, "called")
    /\ UNCHANGED <<ctx, toResolve, rel, snapshot, asked, reply, block, work, cache, disk, space, appVersion>>

\* Variant: a fresh store is not given a version.
StartUnversionedSkipped(c) ==
    /\ phase[c] = "idle" /\ QueueFree
    /\ ctx.version = 0
    /\ Goto(c, "called")
    /\ UNCHANGED <<ctx, toResolve, rel, snapshot, asked, reply, block, work, cache, disk, space, appVersion>>

\* migrateDbIfNeeded: no version was stored yet.
StartUnversioned(c) ==
    /\ phase[c] = "idle" /\ QueueFree
    /\ ctx.version = 0
    /\ ctx' = [ctx EXCEPT !.version = appVersion]
    /\ Goto(c, "migrating")
    /\ Begin(c, "commit")
    /\ UNCHANGED <<toResolve, rel, snapshot, asked, reply, work, cache, disk, space, appVersion>>

\* Variant: the token outlives the content it was for.
StartOutdatedKeepingToken(c) ==
    /\ phase[c] = "idle" /\ QueueFree
    /\ ctx.version \in 1 .. appVersion - 1
    /\ ctx' = [EmptyStore EXCEPT !.version = appVersion, !.token = ctx.token]
    /\ db' = EmptyStore
    /\ relFile' = EmptyData
    /\ toResolve' = NothingToResolve
    /\ Goto(c, "migrating")
    /\ Begin(c, "commit")
    /\ UNCHANGED <<pendingFile, rel, snapshot, asked, reply, work, cache, space, appVersion>>

\* migrateDbIfNeeded: the store is older than the app.  CoreDataStore.wipe
\* replaces the store file, then the relationship file is removed; what the
\* process has loaded of it stays, and so does the file of unresolved links.
StartOutdated(c) ==
    /\ phase[c] = "idle" /\ QueueFree
    /\ ctx.version \in 1 .. appVersion - 1
    /\ ctx' = [EmptyStore EXCEPT !.version = appVersion]
    /\ db' = EmptyStore
    /\ relFile' = EmptyData
    /\ toResolve' = NothingToResolve
    /\ Goto(c, "migrating")
    /\ Begin(c, "commit")
    /\ UNCHANGED <<pendingFile, rel, snapshot, asked, reply, work, cache, space, appVersion>>

\* wipe() throws after it has reset the context; the error is only printed
\* and the synchronization goes on with the old store.
StartOutdatedWipeFails(c) ==
    /\ MayFailWipe
    /\ phase[c] = "idle" /\ QueueFree
    /\ ctx.version \in 1 .. appVersion - 1
    /\ ctx' = db
    /\ Goto(c, "called")
    /\ UNCHANGED <<toResolve, rel, snapshot, asked, reply, block, work, cache, disk, space, appVersion>>

\* Variant: the file that an earlier process left is not read.
ReadPendingNever(c) ==
    /\ phase[c] = "called"
    /\ Goto(c, "asking")
    /\ UNCHANGED <<ctx, toResolve, rel, snapshot, asked, reply, block, work, cache, disk, space, appVersion>>

\* resolveCachedRelationships: the file is read outside the queue, even while
\* another call's block runs.
ReadPending(c) ==
    /\ phase[c] = "called"
    /\ IF pendingFile = NothingToResolve
       THEN Goto(c, "asking") /\ UNCHANGED snapshot
       ELSE Goto(c, "queued") /\ snapshot' = [snapshot EXCEPT ![c] = pendingFile]
    /\ UNCHANGED <<ctx, toResolve, rel, asked, reply, block, work, cache, disk, space, appVersion>>

\* resolveCachedRelationships' block replaces what is in memory by what was read.
StartCached(c) ==
    /\ phase[c] = "queued" /\ QueueFree
    /\ toResolve' = snapshot[c]
    /\ snapshot' = [snapshot EXCEPT ![c] = NothingToResolve]
    /\ work' = {k \in EntryKey : snapshot[c][k] # Nothing}
    /\ cache' = Present(ctx.objects)
    /\ Begin(c, "resolve")
    /\ UNCHANGED <<ctx, rel, phase, asked, reply, disk, space, appVersion>>

\* Variant: every request starts from nothing.
AskFromNothing(c) ==
    /\ phase[c] = "asking" /\ QueueFree
    /\ asked' = [asked EXCEPT ![c] = NoToken]
    /\ Goto(c, "sent")
    /\ UNCHANGED <<ctx, toResolve, rel, snapshot, reply, block, work, cache, disk, space, appVersion>>

\* syncSafely: the token is read on the queue and the request goes out.
Ask(c) ==
    /\ phase[c] = "asking" /\ QueueFree
    /\ asked' = [asked EXCEPT ![c] = ctx.token]
    /\ Goto(c, "sent")
    /\ UNCHANGED <<ctx, toResolve, rel, snapshot, reply, block, work, cache, disk, space, appVersion>>

\* The client receives an answer, or gives up and reports the failure.
Answer(c) ==
    /\ phase[c] = "sent"
    /\ \E r \in Replies(asked[c]) : reply' = [reply EXCEPT ![c] = r]
    /\ asked' = [asked EXCEPT ![c] = NoToken]
    /\ Goto(c, "answered")
    /\ UNCHANGED <<ctx, toResolve, rel, snapshot, block, work, cache, disk, space, appVersion>>

Fail(c) ==
    /\ phase[c] = "sent"
    /\ asked' = [asked EXCEPT ![c] = NoToken]
    /\ Goto(c, "idle")
    /\ UNCHANGED <<ctx, toResolve, rel, snapshot, reply, block, work, cache, disk, space, appVersion>>

-----------------------------------------------------------------------------
(* update(with:): one page.                                                 *)

\* Variants: a field without a value is left out; a link is taken to hold in
\* every locale.
RelationshipsOfSkippingNil(links, locale) ==
    [f \in Fields |-> IF links[f] \in {NoValue, NotLink} THEN Settled
                      ELSE InLocale(links[f], locale)]

RelationshipsOfAllLocales(links, locale) ==
    [f \in Fields |->
        IF links[f] = NoValue THEN Sentinel
        ELSE IF links[f] = NotLink THEN Settled
        ELSE [id : links[f], locale : Locales]]

\* persistableRelationships
RelationshipsOf(links, locale) ==
    [f \in Fields |->
        IF links[f] = NoValue THEN Sentinel
        ELSE IF links[f] = NotLink THEN Settled
        ELSE InLocale(links[f], locale)]

\* Variant: deletions are not applied.
ApplyItemsKeepingDeleted(objects, items) ==
    [k \in Key |->
        IF k.id \in DOMAIN items \cap Persisted /\ IsPublished(items[k.id])
        THEN [at |-> items[k.id].at,
              links |-> IF objects[k] = NoObject THEN [f \in Fields |-> {}] ELSE objects[k].links]
        ELSE objects[k]]

\* create(assets:) and create(entries:), then delete(assetWithId:) and
\* delete(entryWithId:): a deleted object leaves the relationships it was in.
ApplyItems(objects, items) ==
    LET created == {id \in DOMAIN items \cap Persisted : IsPublished(items[id])}
        deleted == {id \in DOMAIN items : ~IsPublished(items[id])}
        linksOf(k) == IF objects[k] = NoObject THEN [f \in Fields |-> {}]
                      ELSE [f \in Fields |-> {t \in objects[k].links[f] : t.id \notin deleted}]
    IN  [k \in Key |->
            IF k.id \in created THEN [at |-> items[k.id].at, links |-> linksOf(k)]
            ELSE IF k.id \in deleted \/ objects[k] = NoObject THEN NoObject
            ELSE [at |-> objects[k].at, links |-> linksOf(k)]]

StartPage(c) ==
    LET items == reply[c].items
        deleted == {id \in DOMAIN items \ Assets : ~IsPublished(items[id])}
        created == {k \in EntryKey : k.id \in DOMAIN items /\ IsPublished(items[k.id])}
        unresolved == [k \in EntryKey |->
                          IF k \in created THEN RelationshipsOf(items[k.id].links, k.locale)
                          ELSE toResolve[k]]
    IN  /\ phase[c] = "answered" /\ QueueFree
        /\ ctx' = [ctx EXCEPT !.objects = ApplyItems(ctx.objects, items)]
        /\ toResolve' = unresolved
        /\ rel' = IF deleted = {} THEN rel ELSE DeleteParents(Relationships, deleted)
        /\ work' = {k \in EntryKey : unresolved[k] # Nothing}
        /\ cache' = Present(ctx'.objects)
        /\ Begin(c, "resolve")
        /\ UNCHANGED <<phase, snapshot, asked, reply, disk, space, appVersion>>

-----------------------------------------------------------------------------
(* resolveRelationships: one entry of relationshipsToResolve at a time, in  *)
(* the dictionary's order, that is in any order.                            *)

OpenFields(fields) == {f \in Fields : fields[f] # Settled}

\* What the visited fields hand to the RelationshipsManager.
NewRelationships(k, fields) ==
    LET keyPath(f) == IF fields[f] = Sentinel
                      THEN [parent |-> k.id, field |-> f, locale |-> k.locale]
                      ELSE KeyPathOf(k.id, f, fields[f])
    IN  [kp \in {keyPath(f) : f \in OpenFields(fields)} |->
            IF fields[kp.field] = Sentinel THEN NoRelationship
            ELSE {t.id : t \in fields[kp.field]}]

\* The entry's links once its open fields are visited with these objects at
\* hand: a single link stays as it was until its target is there.
ResolvedLinks(links, fields, seen) ==
    [f \in Fields |->
        IF fields[f] = Settled THEN links[f]
        ELSE IF fields[f] = Sentinel THEN {}
        ELSE IF f \in ToOne /\ fields[f] \cap seen = {} THEN links[f]
        ELSE fields[f] \cap seen]

\* Variant: an entry is done with once it has been visited.
StillUnresolvedOnce(fields, seen) == Nothing

StillUnresolved(fields, seen) ==
    LET left == [f \in Fields |->
                    IF fields[f] = Settled \/ fields[f] = Sentinel THEN Settled
                    ELSE IF fields[f] \subseteq seen THEN Settled
                    ELSE fields[f]]
    IN  IF OpenFields(left) = {} THEN Nothing ELSE left

\* updateRelationships(with:cache:): the entry becomes a child of every parent
\* at hand whose known relationships name it.
Relink(objects, k, data, seen) ==
    LET found == Lookup(data, k)
        parents(q) == {kp \in found : kp.parent = q.id /\ q.locale = k.locale}
    IN  [q \in Key |->
            IF q \notin seen \cap EntryKey THEN objects[q]
            ELSE [at |-> objects[q].at,
                  links |-> [f \in Fields |->
                    IF \A kp \in parents(q) : kp.field # f THEN objects[q].links[f]
                    ELSE IF f \in ToOne THEN {k}
                    ELSE objects[q].links[f] \cup {k}]]]

Evictions == IF MayEvict THEN SUBSET cache ELSE {{}}

ResolveEntry(k) ==
    /\ Running("resolve") /\ k \in work
    /\ work' = work \ {k}
    /\ \E evicted \in Evictions :
          /\ cache' = cache \ evicted
          /\ IF k \notin cache'
             THEN UNCHANGED <<ctx, toResolve, rel>>
             ELSE LET data == SetRelationships(Relationships, NewRelationships(k, toResolve[k]))
                      own == [ctx.objects EXCEPT ![k].links =
                                  ResolvedLinks(@, toResolve[k], cache')]
                  IN  /\ rel' = data
                      /\ ctx' = [ctx EXCEPT !.objects = Relink(own, k, data, cache')]
                      /\ toResolve' = [toResolve EXCEPT ![k] = StillUnresolved(@, cache')]
    /\ UNCHANGED <<phase, snapshot, asked, reply, block, disk, space, appVersion>>

\* Variant: resolving the links of the file does not lead on to the request.
FinishDropping(c, token) ==
    LET more == phase[c] = "answered" /\ HasMorePages(reply[c])
    IN  /\ block' = NoBlock
        /\ Goto(c, IF phase[c] = "migrating" THEN "called" ELSE IF more THEN "sent" ELSE "idle")
        /\ asked' = [asked EXCEPT ![c] = IF more THEN token ELSE NoToken]
        /\ reply' = [reply EXCEPT ![c] = NoReply]

\* Where a call goes on when its block ends: the client fetches the next page,
\* resolveCachedRelationships completes by asking for the first one.
Finish(c, token) ==
    LET more == phase[c] = "answered" /\ HasMorePages(reply[c])
    IN  /\ block' = NoBlock
        /\ Goto(c, IF phase[c] = "migrating" THEN "called"
                   ELSE IF phase[c] = "queued" \/ more THEN "sent" ELSE "idle")
        /\ asked' = [asked EXCEPT ![c] = IF phase[c] = "queued" \/ more THEN token ELSE NoToken]
        /\ reply' = [reply EXCEPT ![c] = NoReply]

\* Variants: the file is written after the last page only; for pages only.
UnresolvedFileAtEnd ==
    IF phase[block.call] = "answered" /\ HasMorePages(reply[block.call])
    THEN pendingFile ELSE toResolve
UnresolvedFileOfPages == IF phase[block.call] = "queued" THEN pendingFile ELSE toResolve

\* cacheUnresolvedRelationships: what the file holds afterwards; an empty
\* dictionary removes it.
UnresolvedFile == toResolve

\* The end of resolveRelationships, and after a page the token; the links of
\* the file are saved in any case, a page only when it is the last one.
WritePending ==
    /\ Running("resolve") /\ work = {}
    /\ pendingFile' = UnresolvedFile
    /\ cache' = {}
    /\ LET c == block.call
       IN  IF phase[c] = "queued"
           THEN Begin(c, "commit") /\ UNCHANGED <<ctx, phase, asked, reply>>
           ELSE /\ ctx' = [ctx EXCEPT !.token = reply[c].token]
                /\ IF HasMorePages(reply[c])
                   THEN Finish(c, reply[c].token)
                   ELSE Begin(c, "commit") /\ UNCHANGED <<phase, asked, reply>>
    /\ UNCHANGED <<toResolve, rel, snapshot, work, db, relFile, space, appVersion>>

-----------------------------------------------------------------------------
(* save()                                                                   *)

\* The store is saved, then the relationships.
Commit ==
    /\ Running("commit") /\ Valid(ctx.objects)
    /\ db' = ctx
    /\ Begin(block.call, "relations")
    /\ UNCHANGED <<ctx, toResolve, rel, phase, snapshot, asked, reply, work, cache,
                   pendingFile, relFile, space, appVersion>>

\* The store refuses: only a debug build stops here, the block goes on
\* without saving anything.
CommitRefused ==
    /\ Running("commit") /\ ~Valid(ctx.objects)
    /\ Finish(block.call, ctx.token)
    /\ UNCHANGED <<ctx, toResolve, rel, snapshot, work, cache, disk, space, appVersion>>

\* Variant: relationships that have not been read yet are not written.
SaveRelationsUnread ==
    /\ Running("relations")
    /\ relFile' = rel
    /\ Finish(block.call, ctx.token)
    /\ UNCHANGED <<ctx, toResolve, rel, snapshot, work, cache, db, pendingFile, space, appVersion>>

SaveRelations ==
    /\ Running("relations")
    /\ rel' = Relationships
    /\ relFile' = Relationships
    /\ Finish(block.call, ctx.token)
    /\ UNCHANGED <<ctx, toResolve, snapshot, work, cache, db, pendingFile, space, appVersion>>

-----------------------------------------------------------------------------
(* The process ends and is started again, perhaps as a newer app.  Neither  *)
(* file is written atomically: one that was being written cannot be read.   *)

Restarted ==
    /\ toResolve' = NothingToResolve
    /\ rel' = NotLoaded
    /\ phase' = [c \in Calls |-> "idle"]
    /\ snapshot' = [c \in Calls |-> NothingToResolve]
    /\ asked' = [c \in Calls |-> NoToken]
    /\ reply' = [c \in Calls |-> NoReply]
    /\ block' = NoBlock /\ work' = {} /\ cache' = {}
    /\ appVersion' \in {v \in DbVersions : v >= appVersion}
    /\ UNCHANGED space

Crash ==
    /\ (IF QueueFree THEN "none" ELSE block.step) \in CrashSteps
    /\ ctx' = db
    /\ Restarted
    /\ pendingFile' \in IF Running("resolve") /\ work = {}
                        THEN {pendingFile, NothingToResolve} ELSE {pendingFile}
    /\ relFile' \in IF Running("relations") THEN {relFile, EmptyData} ELSE {relFile}
    /\ UNCHANGED db

\* Inside the wipe of StartOutdated: the store file is destroyed, the file of
\* relationships is not removed yet.
CrashInWipe ==
    /\ "wipe" \in CrashSteps
    /\ QueueFree /\ \E c \in Calls : phase[c] = "idle"
    /\ ctx.version \in 1 .. appVersion - 1
    /\ ctx' = EmptyStore /\ db' = EmptyStore
    /\ Restarted
    /\ UNCHANGED <<pendingFile, relFile>>

Edit ==
    /\ \/ \E id \in Ids : Publish(id)
       \/ \E id \in Unpublishable : Unpublish(id)
    /\ UNCHANGED <<memory, disk, appVersion>>

\* sync(limit:dbVersion:then:)
Sync(c) ==
    \/ StartMigrated(c)
    \/ StartUnversioned(c)
    \/ StartOutdated(c)
    \/ StartOutdatedWipeFails(c)

\* The steps the queue and the caller take by themselves.
Local(c) == ReadPending(c) \/ StartCached(c) \/ Ask(c) \/ StartPage(c)

Queue ==
    \/ \E k \in EntryKey : ResolveEntry(k)
    \/ WritePending
    \/ Commit
    \/ CommitRefused
    \/ SaveRelations

Next ==
    \/ Edit
    \/ \E c \in Calls : Sync(c) \/ Local(c) \/ Answer(c) \/ Fail(c)
    \/ Queue
    \/ Crash
    \/ CrashInWipe

Spec == Init /\ [][Next]_vars

\* The system runs the blocks it was given; the app keeps calling sync(); a
\* request that is made again and again is answered some day.
Fairness ==
    /\ WF_vars(Queue)
    /\ \A c \in Calls :
          /\ WF_vars(Sync(c)) /\ WF_vars(Local(c))
          /\ SF_vars(Answer(c))

FairSpec == Spec /\ Fairness

-----------------------------------------------------------------------------
TypeOK ==
    /\ DeliveryTypeOK
    /\ ctx \in Store /\ db \in Store
    /\ toResolve \in [EntryKey -> Unresolved]
    /\ pendingFile \in [EntryKey -> Unresolved]
    /\ rel \in {NotLoaded} \cup Data /\ relFile \in Data
    /\ appVersion \in DbVersions
    /\ phase \in [Calls -> Phases]
    /\ snapshot \in [Calls -> [EntryKey -> Unresolved]]
    /\ asked \in [Calls -> {NoToken} \cup Token]
    /\ DOMAIN reply = Calls
    /\ \A c \in Calls : reply[c] = NoReply \/ IsReply(reply[c])
    /\ block \in {NoBlock} \cup [call : Calls, step : Steps]
    /\ work \subseteq EntryKey
    /\ cache \subseteq Key

(***************************************************************************)
(* Content.                                                                *)
(***************************************************************************)

\* Every resource the store's token claims to know is stored exactly as it was
\* last published, in every locale, or is not stored if it was unpublished.
Mirrors(store) ==
    \A k \in Key : k.id \in Persisted \ Outstanding(store.token) =>
        IF IsPublished(server[k.id])
        THEN store.objects[k] # NoObject /\ store.objects[k].at = server[k.id].at
        ELSE store.objects[k] = NoObject

\* A sync token never runs ahead of the content it was delivered with: not in
\* the store file, whatever crash comes between its pages, its links and its
\* save, and not in the context between two blocks (update(with:),
\* SynchronizationManager.swift:272-299).  Content it skipped would never be
\* delivered again.
TokenNeverAhead == Mirrors(db) /\ (QueueFree => Mirrors(ctx))

\* What the store file knows it keeps: no save replaces its token by one that
\* leaves more to be delivered, whatever pages, failures and crashes come
\* between the request and the save; only the store of an older app is emptied
\* (migrateDbIfNeeded, save(), SynchronizationManager.swift:301-327, 707-714).
KnowledgeKept ==
    [][db' # db => \/ db' = EmptyStore /\ ctx.version < appVersion
                   \/ Outstanding(db'.token) \subseteq Outstanding(db.token)]_vars

(***************************************************************************)
(* What of all this the app sees: a replica of the space.                  *)
(***************************************************************************)

\* A page counts as received from the beginning of its block.
ApplyingPage(c) == ~QueueFree /\ block.call = c /\ phase[c] = "answered"

Copy(store, token) ==
    [content |-> [k \in Key |-> IF store.objects[k] = NoObject THEN NoObject
                                ELSE store.objects[k].at],
     token   |-> token,
     version |-> store.version]

TokenHeld ==
    IF Running("resolve") /\ phase[block.call] = "answered" THEN reply[block.call].token
                                                            ELSE ctx.token

Requested ==
    [c \in Calls |-> IF phase[c] = "sent" THEN asked[c]
                     ELSE IF ApplyingPage(c) /\ HasMorePages(reply[c]) THEN reply[c].token
                     ELSE NoReply]

Arrived == [c \in Calls |-> IF phase[c] = "answered" /\ ~ApplyingPage(c) THEN reply[c] ELSE NoReply]

Synchronized == INSTANCE Replica WITH
    held <- Copy(ctx, TokenHeld), saved <- Copy(db, db.token),
    asked <- Requested, answer <- Arrived, Absent <- NoObject, None <- NoReply

\* However the steps of overlapping calls, failures, crashes and wipes
\* interleave, the store advances by whole pages, each with its token, and only
\* what it then holds is ever saved (update(with:), save(),
\* SynchronizationManager.swift:272-299, 707-714).
ReplicaSpec == Synchronized!Spec

(***************************************************************************)
(* Links.                                                                  *)
(***************************************************************************)

\* A published link field is on record as unresolved, as it was published.
OnRecord(k, f) ==
    \E unresolved \in {toResolve, pendingFile} :
        /\ unresolved[k] # Nothing
        /\ unresolved[k][f] = RelationshipsOf(server[k.id].links, k.locale)[f]

\* Entries whose stored version is the published one.
UpToDate == {k \in EntryKey : /\ ctx.objects[k] # NoObject
                              /\ k.id \notin Outstanding(ctx.token)
                              /\ IsPublished(server[k.id])}

\* What a field of a published entry links to, and what of it is stored.
Wanted(k, f) ==
    LET links == server[k.id].links[f]
    IN  IF links = NoValue THEN {} ELSE InLocale(links, k.locale)

Targets(k, f) == Wanted(k, f) \cap Present(ctx.objects)

LinkFields(k) == {f \in Fields : server[k.id].links[f] # NotLink}

\* Between blocks, an up-to-date entry is linked to nothing its published
\* version does not link to, unless the field is on record as unresolved: a
\* single link shows its old target until the new one arrives
\* (resolveRelationships, SynchronizationManager.swift:352-398).
LinkNotWrong ==
    QueueFree => \A k \in UpToDate : \A f \in LinkFields(k) :
        ctx.objects[k].links[f] \subseteq Targets(k, f) \/ OnRecord(k, f)

\* Between blocks, an up-to-date entry is linked to everything it links to
\* that is stored, unless the field is on record as unresolved.
LinkNotLost ==
    QueueFree => \A k \in UpToDate : \A f \in LinkFields(k) :
        Targets(k, f) \subseteq ctx.objects[k].links[f] \/ OnRecord(k, f)

\* Between blocks, what is unresolved in memory is what the next process would
\* read from the file, unless this process has not looked at it yet.
PendingOnDisk == QueueFree => toResolve \in {NothingToResolve, pendingFile}

(***************************************************************************)
(* Saving and versions.                                                    *)
(***************************************************************************)

\* Whenever the store is about to be saved it can be: no required link is
\* missing.
SaveAccepted == Running("commit") => Valid(ctx.objects)

\* No call gets past migrateDbIfNeeded with a store that an older app filled,
\* whatever crash came between wiping it and giving it the new version.
SyncsMigrated ==
    \A c \in Calls : phase[c] \notin {"idle", "migrating"} => ctx.version >= appVersion

\* Content is never stored without a version: the next app would take it for a
\* fresh store, mark it as its own and keep what it cannot read.
ContentVersioned ==
    \A store \in {ctx, db} : Present(store.objects) # {} => store.version # 0

(***************************************************************************)
(* Progress.                                                               *)
(***************************************************************************)

\* Repeated syncs get the whole space, as it stays in the end, into the store
\* file, whichever requests fail on the way.
EventuallyInSync ==
    <>[](db.token # NoToken /\ Outstanding(db.token) = {} /\ Mirrors(db))

\* Every link whose targets are published ends up in the store file, even if it
\* arrived pages, syncs or failed requests before its targets.
EventuallyLinked ==
    <>[](\A k \in EntryKey : IsPublished(server[k.id]) => \A f \in LinkFields(k) :
            (\A t \in Wanted(k, f) : t.id \in Persisted /\ IsPublished(server[t.id]))
                => db.objects[k] # NoObject /\ db.objects[k].links[f] = Wanted(k, f))
=============================================================================
