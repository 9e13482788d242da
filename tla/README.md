# Verification of contentful-persistence.swift

ContentfulPersistence keeps a local store (Core Data) in step with a Contentful
space: it asks the sync endpoint what changed, creates, updates and deletes
managed objects, and links them to one another although links may arrive long
before the objects they point to. This directory holds TLA+ modules of that
machinery, the TLC configurations that check them, and theorems proved with TLAPS.
`src/…` below is the repository; Swift files without a path are under
`src/Sources/ContentfulPersistence/`.

## 1. Inventory

| Component (code) | State | Operations | Status |
|---|---|---|---|
| `SynchronizationManager` (`SynchronizationManager.swift`) | `relationshipsToResolve`, the file of unresolved links, the version in the store | `sync`, `migrateDbIfNeeded`, `resolveCachedRelationships`, `syncSafely`, `update(with:)`, `resolveRelationships`, `updateRelationships`, `cacheUnresolvedRelationships`, `save`; the two-phase sync with its localization schemes; also the single-resource create/delete | modelled except the single-resource entry points called outside a sync |
| `RelationshipsManager`, `RelationshipCache` (`Relationships/`) | relationship data, loaded lazily; its file | add, delete parent, delete field, save, wipe | modelled |
| `RelationshipData` (`Relationships/RelationshipData.swift`) | two dictionaries: relationships by parent and field, key paths by child | `append`, `delete`, `relationships(for:)` | modelled as pure operators |
| `RelationshipChildId`, `Relationship`, cache keys | – | raw value, parsing, `DataCache.cacheKey` | modelled as pure operators |
| `DataCache` (`DataCache.swift`) | two `NSCache`s of managed objects, made anew for every block | fill, look up, be evicted | modelled: `cache` of `SynchronizationManager.tla` |
| `CoreDataStore` (`CoreDataStore.swift`) | managed object context, store file | `performBlock`, create, fetch, delete, `save`, `wipe` | modelled: `ctx`, `db`, `block` of `SynchronizationManager.tla`, the hooks of preseeding in `Preseeding.tla`; a wipe after which the store cannot be added again is not |
| sync endpoint and `Client` (external) | published versions, sync tokens | answer a request with a page | modelled from how it is used: `ContentDelivery.tla` |
| bundled database preseeding (`Seeding/BundledDatabase/`, the initializer with `preseedConfig`) | the store file, its version, how far a launch has got | decide, take the store out, remove, create, copy, add again, write the version | modelled: `Preseeding.tla` |
| JSON seeding (`Seeding/JSON/`) | the files still to be read | read a page, `update(with:)`, fail | modelled: `Seed`, `SeedPage`, `SeedThrows` of `TwoPhaseSync.tla` |
| `DateFormatterCache`, property mapping | memo table of formatters | convert values | not modelled: data without control |
| `Persistable` protocols | – | – | declarations only |

**How they interact.** The app calls `sync(limit:dbVersion:then:)`.
`migrateDbIfNeeded` compares the version in the store and may wipe it.
`resolveCachedRelationships` reads the file of unresolved links on the caller's
thread and, if there are any, resolves them in a block on the queue of the Core
Data context. `syncSafely` reads the token on that queue and hands it to the
client. The client calls back `update(with:)` for every page and
asks for the next page itself. `update(with:)` is one block: create or update
assets, then entries, which puts each entry's links in `relationshipsToResolve`;
delete; resolve what can be resolved; rewrite the file of unresolved links;
store the token; and save, if this was the last page. `save()` writes the store, then
the relationship file. Managers, the context and the two files are shared by all
calls under way.

The two-phase `sync(syncSpacePersistable:…)` is two such calls: the first one in
the initial localization scheme, then, whether it succeeded or not, the token is
reset and saved and a second one starts from nothing with all locales. Before any of
this an app may fill the store: from recorded pages (`seedDBFromJSONFiles` hands
each to `update(with:)`), or by constructing the manager with a `preseedConfig`,
which replaces the store file by a bundled one if that is newer and writes its
version.

**What is hard.** (a) Links arrive before, after or without their targets, in
other pages, syncs or processes. (b) There are three things on disk, written at
different moments: store, file of unresolved links, relationship file. (c) A
request may fail between pages, leaving a half-delivered sync in the context.
(d) Several calls of `sync` interleave at the blocks of the queue, and one of
their reads does not go through the queue. (e) `NSCache` may drop objects while
links are resolved. (f) The process may end anywhere, and come back as an app
with a higher `dbVersion`. (g) Ids and locales are glued together by underscores.
(h) What a token claims depends on the locales its pages were stored in, and the
scheme changes between phases, calls and processes. (i) Preseeding takes a store
apart in six steps, each of which may throw or be the last one of the process, and
two parties, the seed and `sync`, write the version by which it decides.

**What makes it correct.**

* the endpoint's token: never ahead of the content it came with (`TokenNeverAhead`),
  and never back behind what the store file knew (`KnowledgeKept`);
* links: nothing that is not published (`LinkNotWrong`), nothing lost
  (`LinkNotLost`), and all of them in the end (`EventuallyLinked`);
* the file of unresolved links: what memory has, the next process can read (`PendingOnDisk`);
* versions: no content without version (`ContentVersioned`), no sync on content of an
  older app (`SyncsMigrated`, proved only);
* saving: the store is never asked to save what it must refuse (`SaveAccepted`);
* relationship data: its index lists exactly what it stores (`IndexExact`), and
  the cache is a registry of backlinks with a durable copy (`RegistrySpec`);
* progress: repeated syncs deliver the space (`EventuallyInSync`);
* the store as the app sees it: it advances by whole pages, each with its token, and
  only what it then holds is saved (`ReplicaSpec`);
* localization: whatever the token claims is stored in the locales all schemes share,
  in all locales once a second phase is under way (`Delivered`), and in the locales
  the manager is configured to save (`SchemeDelivered`); what is not published is not
  stored (`NothingLeftOver`), and a two-phase sync ends with its final handler
  (`FinalHandlerCalled`);
* preseeding: no release works on an older one's content (`NoOlderContent`), what was
  synced is kept (`SyncedContentKept`), versions do not go back
  (`VersionNeverLowered`), and a launch that failed is made good (`EventuallySeeded`).

The hazards, each with its line, are in `PROJECT.json`.

## 2. Modules

| Module | What it models | Used by |
|---|---|---|
| `Identifiers` | `RelationshipChildId`'s raw value and its parsing at the last underscore, `DataCache.cacheKey` | all of the following |
| `RelationshipData` | the two dictionaries and their operations | `RelationshipCache`, `SynchronizationManager` |
| `RelationshipCache` | the lazily loaded data and its file | `MCRelationshipCache` |
| `RelationshipRegistry` | abstract specification: a set of backlinks and a durable copy | `RelationshipCache`, by `INSTANCE … WITH` |
| `ContentDelivery` | editors, the sync endpoint, tokens, pages (external) | `SynchronizationManager`, `Replica` |
| `SynchronizationManager` | the manager, the store, the files and the calls | `MCSynchronization` |
| `Replica` | abstract specification: a copy of the space that advances page by page with its token | `SynchronizationManager`, by `INSTANCE … WITH`; `TwoPhaseSync`, by `EXTENDS` |
| `TwoPhaseSync` | localization schemes, the two-phase sync and JSON seeding on top of `Replica` | `MCTwoPhaseSync` |
| `Preseeding` | the launches of an app that ships a bundled store | `MCPreseeding` |
| `MCRelationshipCache`, `MCSynchronization`, `MCTwoPhaseSync`, `MCPreseeding` | ids, locales, link fields, drafts and versions of the small instances | the `.cfg` files |
| `RelationshipDataProofs`, `RelationshipCacheProofs`, `SynchronizationManagerProofs`, `SynchronizationTokenProofs`, `SynchronizationLinkProofs`, `SynchronizationReplicaProofs`, `TwoPhaseSyncProofs`, `PreseedingProofs` | theorems | – |

Definitions under a comment that starts with "Variant" are deliberate mistakes:
putting one in place of the definition that follows it breaks the property that guards
that definition. `PROJECT.json` pairs every property of
every passing run with one.

### Ids

An id is a sequence of *segments*, the pieces between underscores; a locale is one
segment. The raw value of a child id with a locale is the id with the locale
appended, and parsing splits off the last segment if there is more than one,
which is why an id with an underscore is read back as a shorter id in a locale.
Outside `Identifiers`, a cache key "id_locale" is the pair of the two; theorem
`CacheKeyInjective` is what makes that sound.

### SynchronizationManager

| Variable | Code |
|---|---|
| `ctx`, `db` | the context with unsaved changes; the store file. Each has the objects by cache key, the sync token and the version of the `SyncSpacePersistable` |
| `toResolve`, `pendingFile` | `relationshipsToResolve`; `ContentfulRelationshipsToResolve.data` as it is read back |
| `rel`, `relFile` | the lazy property of the relationship cache; its file as it is read back |
| `phase[c]`, `snapshot[c]`, `asked[c]`, `reply[c]` | how far call `c` is; the links it read from the file and has not assigned yet; the token of its request; the page it has received |
| `block`, `work`, `cache` | the block running on the context's queue and the step it is at; the entries `resolveRelationships` has still to visit; the keys its `DataCache` still holds |
| `appVersion` | the `dbVersion` of the running process |

| Action | Code |
|---|---|
| `StartMigrated`, `StartUnversioned`, `StartOutdated`, `StartOutdatedWipeFails` | `migrateDbIfNeeded`, one action per branch, with `CoreDataStore.wipe` |
| `ReadPending`, `StartCached` | `resolveCachedRelationships`: the read outside the queue, the block on it |
| `Ask` | `syncSafely`: the token is read on the queue |
| `Answer`, `Fail` | the client's answer, or an error reported to the caller |
| `StartPage` | the part of `update(with:)` that creates, updates and deletes |
| `ResolveEntry` | one turn of the loop of `resolveRelationships` with `updateRelationships`; any order, since the loop runs over a dictionary |
| `WritePending` | `cacheUnresolvedRelationships`, the token, and whether to save |
| `Commit`, `CommitRefused`, `SaveRelations` | `save()`: the store, then the relationships; a refused save is an assertion in debug builds and nothing else in release builds |
| `Crash` | the process ends and starts again, possibly with a higher `dbVersion`; a file being written is read back as empty |
| `CrashInWipe` | the process ends inside `CoreDataStore.wipe`: the store file is destroyed, the relationship file is still there |
| `Edit` | editors publish and unpublish |

Blocks run one at a time, so an action that needs the queue requires `QueueFree`.
Other calls may start, receive answers, fail and read the file of unresolved links
while a block runs. A block is several steps because the process may end between
its writes and because of that unguarded read.

**Abstractions.** Attributes of an object are represented by `sys.updatedAt`: `at`.
A list of links is a set. `Required` names single links that the store refuses to save as nil,
by entry and field. An object that is deleted leaves the relationships it was
in (Core Data's nullify rule, which the test models use). Content types are the
partition of ids into mapped entries (`Parents`), assets (`Assets`) and resources
the app does not map. Time is the number of changes made to the space. A token
stands for everything that changed up to a time, except the pages of that sync which
are still to come.

### Replica and the refinement

`Replica` keeps a copy in memory (`held`), one in the file (`saved`), and for every
call the token it asked with or the answer it has received. Its actions: ask with the
token held, receive, give up, apply a page *and* its token, save all that is held,
stamp a store without version, replace an outdated one, revert, restart.

`SynchronizationManager` implements it (`ReplicaSpec`) under this mapping: an object is its version (`Copy`); a page
counts as applied from the first step of its block, so while that block resolves links
the token held is the one of the page although the code writes it at the end
(`TokenHeld`), and the request for the next page is already out (`Requested`,
`Arrived`). Links, both files, the order within a block and reads outside the queue
become stutters; `StartPage` is `Apply`, `Commit` is `Save`, `StartUnversioned` and
`StartOutdated` are `Stamp` and `Renew`, a failing wipe is `Revert`. This
is what the abstract module is for: the two-phase sync and the seeding call the same
`update(with:)`, and can be modelled, checked and proved on the small state.

### TwoPhaseSync

| Variable | Code |
|---|---|
| `scheme` | `localizationScheme`, as the set of locales a page is stored in |
| `stage[c]` | whether caller `c` is in a plain sync, in the first or the final phase of two, in a seeding, or idle |
| `step[c]` | how far that sync is: begun, migrated, waiting for an answer, about to call its handler |
| `bundle`, `unread[c]` | the space as it was when the JSON files were recorded; the resources whose files are still to be read by `c` |
| `appVersion` | the `dbVersion` the running process passes to `sync` |

| Action | Code |
|---|---|
| `SyncPlain`, `SyncTwoPhase` | the two `sync` methods; `.all` is refused as an initial scheme |
| `Migrate` | `migrateDbIfNeeded`, one disjunct per branch: the version is current; there is none yet; it is outdated; it is outdated and the wipe throws. Each save in it writes whatever the context holds |
| `Ask` | `resolveCachedRelationships` and `syncSafely`: if links are on file (left open, since links are left out here) what is held is saved; the token is read |
| `Receive`, `Fail`, `Update` | the client's answer or failure, `update(with:)` in the scheme of the moment |
| `StartFinal`, `StartFinalFails` | `handlePartialCompletion`: token reset and saved, scheme `.all`, second phase; or the token cannot be fetched and the final handler gets the error |
| `Complete` | the completion handler |
| `Seed`, `SeedPage`, `SeedThrows` | `seedDBFromJSONFiles`; only the last file has no more pages and is saved. It blocks its own caller and nobody else |
| `Quit` | the process ends, perhaps inside a wipe; the next one has the scheme of the constructor, and perhaps a higher `dbVersion` |

The store may refuse any save (`MayRefuseSave`), a wipe may throw (`MayFailWipe`) and so
may the fetch of the token (`MayFailFetch`); the code goes on regardless. So a sync or a
seeding that stopped half-way is in the context, and the next call's migration or
resolution of links may write it to the file as it is.

### Preseeding

| Variable | Code |
|---|---|
| `release` | the installed release; a launch may be that of a later one |
| `file` | the store file: none, torn by a copy that was cut short, or a store with its version, the release its content belongs to, and whether a sync added to it |
| `stage` | how far the launch is, one value per step of `apply` |
| `faults` | steps that threw, or in which the process ended, so far (bound `MaxFaults`) |

| Action | Code |
|---|---|
| `Launch` | the app's Core Data stack opens the file, or creates it (external) |
| `Skip`, `Close`, `RemoveContainer`, `RemoveContainerFails`, `CreateDirectory`, `Copy`, `Reopen` | `FilePreseedManager.apply`, one action per step, and the two hooks of `CoreDataStore`; the error of `removeItem` is swallowed |
| `Throw`, `Crash` | a step throws and with it the initializer; the process ends in a step |
| `RecordVersion` | `saveNewDbVersion` at the end of the initializer |
| `SyncMigrates`, `SyncSaves` | what a `sync` with `SyncVersion[release]` does to version and content |

## 3. Runs

`tlc -config X.cfg M`. Every run also checks that the system is never stuck: some
call can always go on or start.

| Run | Instance | What it shows |
|---|---|---|
| `relationship_cache` | 2 parents, 1 field, two child ids of which one has an underscore and reads like the other in a locale | `IndexExact`, and the refinement `RegistrySpec`, through replacement, deletion, save, wipe, torn files; both sides record the operation asked for, so that each one must have exactly the registry's effect |
| `sync_pages` | two entries, an asset and a resource that is never published, a single-link and a list field, any paging, failing requests, evictions, the source's single link required (saves are refused while it is nil), 2 changes, the source may be unpublished, crash between the two writes of a save | token, links and file of unresolved links with one call at a time; no save takes back what the file knew |
| `sync_overlap` | two calls, an entry with a required link to an asset, either may be unpublished, pages, crash at every step of every block and inside a wipe, a wipe that may fail, versions 1 and 2, 1 change | `PendingOnDisk` and `ContentVersioned` with calls that interleave, and the refinement `ReplicaSpec` |
| `sync_progress` | fair specification, two locales, pages and failing requests, 2 changes | links hold within their locale and in each; `EventuallyInSync`, `EventuallyLinked` |
| `two_phase` | two resources in two locales, configured for both, first phase in one; pages, failing requests, a wipe and a token fetch that may fail, refused saves, saves of half-delivered syncs, seeding, restarts, versions 1 and 2, 1 change; fair | `Delivered`, `FinalHandlerCalled` |
| `preseed` | three releases, of which the last one passes a later version to `sync` than its seed has, 4 faults; fair | `NoOlderContent`, `SyncedContentKept`, `EventuallySeeded` |
| `republish`, `quit`, `required`, `leftover`, `interrupted`, `lowered` | the smallest instance of each | the disagreements of section 5 |

**Why the bounds are enough to be interesting.** A link needs a source and a target;
a third resource lets a list be half resolved and lets two targets arrive in
different pages. Two changes suffice to publish anew with other links and to do so
while a paged sync is under way. One change is all `sync_overlap` and `two_phase` have: it is
enough for an answer to be older than the space, and for the bundle to be; theorems
`ImplementsReplica` and `TokenDelivers` have no such bound. Two
versions are one migration. Two overlapping calls give every order of the blocks of
two. Two locales are one that the first phase stores and one that only the second
does. Three releases let an update skip one, and four faults let a launch fail, end, and
fail again in another step before it succeeds. `MaxChanges` and `MaxFaults` are the only
bounds on behaviours; everything else is finite by itself.

`sync_pages` checks `TokenNeverAhead` without wipes and with crashes at one place only, which
keeps it small enough for pages, links and refused saves. Wipes and crashes anywhere are left to
theorem `TokenNeverRunsAhead`, and to `Delivered`, which says the same of the store that
`two_phase` wipes, restarts and saves half-delivered. Seeding and the two-phase sync
have one caller in `two_phase`; the actions allow any number.

**What the links' runs leave out, and why.** Four things refute the link properties and
are left out: unpublishing a *target* (`LinkNotLost`; run `republish`); an id that
is another one followed by a locale code (`LinkNotWrong`; theorem `TwinParentsFound`);
a crash that takes saved links back (both; run `quit`); and a second call under way (the
hazard at `SynchronizationManager.swift:757`). A crash takes links back when the file of
unresolved links is ahead of the store: inside a block before its commit, or between
the pages of a sync. Then a link may be lost, and, where the target of a single link was being
replaced, the old link may stay with nothing on record. What is left is not little:
`sync_pages` has the source unpublished and republished, its links replaced, pages anywhere,
evictions, and a process that ends with links unresolved and leaves them to the
next one. Section 4 proves the two properties under exactly these assumptions.

**Fairness** (`sync_progress`). Weak fairness of `Queue`: the context's queue runs
the blocks it is given. Weak fairness of `Local(c)`: completion closures are called.
Weak fairness of `Sync(c)`: the app keeps calling `sync`; the library never retries by
itself. Strong fairness of `Answer(c)`: a request that is made again and again is
answered some day; each may fail any number of times first. Nothing is assumed of
editors or crashes; edits end because of `MaxChanges`.

**Fairness** (`two_phase`). Weak fairness of `Proceed(c)`: blocks are run, and the
client answers a request *or* reports its failure; which of the two is open every time.
This takes a manager that has a client and is not released before its handlers are
called (section 6). Nothing is assumed of the app: it need not call, seed or stay alive.

**Fairness** (`preseed`). Weak fairness of `Launch` and `Construct`: an app is launched
again and its initializer runs to its end or throws; and of leaving a launch that
failed. Nothing is assumed of `sync`, nor that any step succeeds: faults end
because of `MaxFaults`.

## 4. Proofs

All leaves are checked by `tlapm`. The theorems hold for every value of the
constants under the assumptions named in the modules.

| Theorem | Says | Extra assumption |
|---|---|---|
| `RelationshipDataProofs!RoundTrip`, `UnderscoreIdMisread`, `CacheKeyInjective` | what survives the raw value and what does not | – |
| `RelationshipCacheProofs!TypeCorrect`, `IndexAlwaysExact`, `CacheImplementsRegistry` | types, the index, and the refinement of the registry | – |
| `RelationshipDataProofs!LocalizedLookupFindsNothing` | a lookup by a child id with a locale is empty | `PlainIds`: no id is another one followed by a locale code |
| `RelationshipDataProofs!UnderscoreFreeIdsArePlain` | `PlainIds` holds where no id has an underscore | – |
| `RelationshipDataProofs!TwinParentsFound` | where `PlainIds` fails, a lookup returns the relationships of another resource | – |
| `SynchronizationManagerProofs!TypeCorrect` | `Spec => []TypeOK` | – |
| `SynchronizationManagerProofs!PendingAlwaysOnDisk` | `Spec => []PendingOnDisk`, for any number of calls | – |
| `SynchronizationManagerProofs!AlwaysMigratedBeforeSync` | `Spec => []SyncsMigrated`, for any number of calls | wipes do not fail |
| `SynchronizationManagerProofs!ContentAlwaysVersioned` | `Spec => []ContentVersioned`, for any number of calls | – |
| `SynchronizationTokenProofs!TokenNeverRunsAhead` | `Spec => []TokenNeverAhead` | `OneCall`: at most one call at a time |
| `SynchronizationTokenProofs!FileNeverForgets` | `Spec => KnowledgeKept` | `OneCall` |
| `SynchronizationLinkProofs!LinksNeverWrong` | `Spec => []LinkNotWrong` | `OneCall`, `PlainIds`, `NothingRevertedAlone` |
| `SynchronizationLinkProofs!LinksNeverLost` | `Spec => []LinkNotLost` | the same and `TargetsStay`: what is linked to is not unpublished |
| `SynchronizationReplicaProofs!ImplementsReplica` | `Spec => ReplicaSpec`, for any number of calls | – |
| `TwoPhaseSyncProofs!LocalizedTypeCorrect` | `TwoPhaseSpec => []LocalizedTypeOK`, for any number of calls | – |
| `TwoPhaseSyncProofs!TokenDelivers` | `TwoPhaseSpec => []Delivered` | `OneCall` |
| `PreseedingProofs!PreseedingTypeCorrect` | `Spec => []TypeOK` | – |
| `PreseedingProofs!NeverOnOlderContent` | `Spec => []NoOlderContent` | no release passes `sync` a version that a later release's seed does not exceed |
| `PreseedingProofs!LaunchesKeepSyncedContent` | `Spec => SyncedContentKept` | an intact store can be opened |

**The inductive invariants.**

* `TypeInv` is `TypeOK` and `Shape`. `TypeOK` alone is not inductive: a call
  has an answer exactly when it is "answered", a block exists only in the phases
  that run one, and the loop's `work` lies within the unresolved entries. Without
  these, `StartPage` and `WritePending` could read a reply that is not there.
* For `PendingOnDisk`: whatever is assigned to memory inside a block is in the file
  when it ends, and a crash empties memory. With several calls a
  snapshot may be stale, but it becomes memory and then the file, in the same block.
* For `SyncsMigrated`: a call that is past the migration sees a version at least
  the app's in the *context*; a crash sends every call back to its start.
* For `ContentVersioned`: objects appear only in calls past the migration, where
  the version is not 0, and a wiped store is empty until its version is committed.
* For `TokenNeverAhead` (`TokenInv`): it does not follow from the state of the store
  alone. One has to say of the request under way that its token is the context's, of
  the answer under way that its items with the context's objects are exactly
  what its token claims (`Fits`), and of the blocks that have not
  written the token yet which of the two tokens the context has. The endpoint may
  publish at any time, hence `Consistent`: a resource that was not touched since the
  token is stored as published, one that is outstanding may be stored in any older
  version. A store without a token must be *empty*, since a sync from nothing
  reports no deletions; this is where the wipe matters.

* For `KnowledgeKept` (`AdvanceInv`): a token on its way from answer to context to file
  leaves ever less to be delivered. The token "held" is the page's from the first
  step of its block, as in the refinement of `Replica`; without that, the conjunct about
  answers would break when the block starts.
* For `LinkNotWrong` and `LinkNotLost` (`LinkInv`): what is stored and what is on record
  add up to the published links, field by field (`FieldInv`): a field is on record as it was
  published, or it is off the record and holds what it should. This has to be
  said of the token *held*, not the one stored, since a page's entries are on record before its
  token is written; of the record the running step goes by, which is memory while links are
  resolved and the file otherwise (`Record`); and of the store *file* too, where a
  process may fall back to it between blocks (`StoresLinked`). For a page to be applied on
  top of it, the process must have read the file before it asked (`FileRead`), the
  answer must hold what is published of everything its token claims (`AnswerInv`), and a
  deletion must be of something that can be unpublished (`DeletionsJustified`), or links to
  it would go. The lemmas follow the code: `PageLinked` (a page puts all it
  delivers on record, and keeps the rest but for links to what it deletes), `VisitLinked` (one
  turn of the loop either leaves a field as recorded or settles it with exactly its
  targets) and `RelinkNothing` (`updateRelationships` does nothing, by
  `LocalizedLookupFindsNothing`).

  Each assumption is needed. Run `republish` shows what happens without `TargetsStay`, run
  `quit` without `NothingRevertedAlone`, theorem `TwinParentsFound` without `PlainIds`: with
  an asset whose id is `g_en`, entry `g` in locale `en` is linked to the asset's parent.
  `NothingRevertedAlone` lets the process end between the two writes of a save and inside a
  wipe in any case; between blocks, and after a wipe that fails, if every answer is saved at once
  (`SavedAtOnce`: answers are not cut into pages, and no link is required, so no save is
  refused).
* For `ReplicaSpec`: every step maps to a step of the replica or a stutter. The one
  fact about reachable states it needs beyond `TypeInv` is `LastPage`: a block that
  commits or saves relationships after a page belongs to an answer without further
  pages. Otherwise the end of such a block would send a request that the replica has
  sent already.
* For `Delivered` (`PhaseInv`): what a token claims is kept for the locales that the
  constructor's and all initial schemes have in common (`Common`), in which every page is
  stored whatever the scheme of the moment, so that failures, wipes, refused saves and
  restarts with another scheme cannot break it (`StoresInv`). The request goes on from the
  token in memory, and the answer under way, applied to the content in memory, holds what its
  token claims (`RequestInv`). A second phase starts from nothing, or, past a wipe, from an
  empty store, and its pages are stored in all locales (`FinalInv`); the exception is a wipe
  that fails, which falls back to the file. The file's version is never ahead of the one in
  memory, so a context that is current is not reset. The files of a seeding read so far are in
  memory (`FilesInv`), and what has not changed since they were recorded is published as they
  say (`BundleInv`).
* For preseeding: content belongs to no later release than the installed one; content a
  sync added to has at least its release's version (`BaseInv`); the version is below
  that of every later seed (`SeedInv`), so no launch skips a seed it needs; and a launch
  that removes the store has not found a synced one of its own release (`KeptInv`).

**Only model-checked.** `EventuallyInSync`, `EventuallyLinked`, `FinalHandlerCalled` and
`EventuallySeeded` (liveness is out of this prover's reach). The six properties that runs
refute (section 5) have no theorem, or one whose assumptions exclude the
counterexample. `LinkInv` itself was checked with TLC before it was proved, on variants of
`sync_pages` (with crashes, and with a wipe), of `republish` (with pages) and of `required`.

`TokenNeverAhead`, `KnowledgeKept`, `Delivered`, `LinkNotWrong` and `LinkNotLost` are stated
for one call at a time: with two overlapping
calls they can fail, because the older answer may be applied between the pages of the
newer one, because a snapshot of the file may be assigned late, and because the
localization scheme is set under the other call. No document of the repository says what
overlapping calls promise, so these are recorded as hazards and not as findings; what
does hold for them is `ReplicaSpec`.

## 5. Disagreements between the code and what the repository says

Each is the counterexample of a run.

* **`republish`** – a linked entry unpublished and published again between two syncs
  does not return to its parent: the known relationships are filed under the plain
  child id and looked up by the raw value, which has the locale
  (`Relationships/RelationshipData.swift:61`). `src/CHANGELOG.md:32` lists this case as fixed.
  `LocalizedLookupFindsNothing` is the reason, proved.
* **`quit`** – the file of unresolved links is rewritten after every page, the store
  saved after the last: an app that quits in between has a link in neither,
  or keeps an old one with nothing on record (`SynchronizationManager.swift:410`). `src/CHANGELOG.md:58` promises that it is still resolved.
* **`required`** – after a request failed between pages, the next call's
  `resolveCachedRelationships` saves the half-delivered sync
  (`SynchronizationManager.swift:765`), which the comment at lines 290-294 says is not done.
* **`leftover`** – a resource that the first phase of a two-phase sync stored and that
  is unpublished before the second one asks stays in the store: the second phase starts
  from nothing (`SynchronizationManager.swift:198`), and a sync from nothing reports no
  deletions. `src/README.md:24` says that the manager keeps the database in sync with the space.
* **`interrupted`** – the first phase of a two-phase sync is saved in its initial locale
  under a token that claims everything, and the token is reset only afterwards
  (`SynchronizationManager.swift:199`). An app constructed with `.all` that ends in between
  never gets the other locales of what it has: its next `sync` asks for what is new.
  `src/README.md:40` configures `.all` to "Save data for all locales your space supports".
* **`lowered`** – the preseeding initializer writes the seed's version even when it has
  copied nothing (`SynchronizationManager.swift:136`); an app that passes a later version to
  `sync` finds its store outdated, and wipes it, at every launch. `src/README.md:243` speaks of
  the version being set with the copy.

## 6. Not modelled

* `create`/`delete` of single resources called by the app outside a sync
  (`SynchronizationManager.swift:567-705`), public "as a side-effect" and marked never to be
  called directly; within a page deletions are part of `StartPage`, and pages have their
  own `create`;
* value conversion (`DateFormatterCache`, property mapping): data, no control. The memo
  table of formatters is keyed by format without time zone, and no caller passes one;
* a manager without a client, which makes no request and calls no handler, and one that is
  released while a call is under way: `syncSafely` then drops the result, and whether it can
  happen depends on who else holds the manager (the client does, `persistenceIntegration`);
* failures to write or remove the file of unresolved links, which are swallowed, and a read
  of that file (outside the queue) while another call writes it: it is written whole or, when
  the process ends inside the write, torn (a hazard without a property);
* errors of fetch, create and delete, which the code swallows or takes for fatal; only
  wipe and save fail. In `Preseeding` the save of the version succeeds;
* a wipe that destroys the store file and cannot add it again: what follows is Core Data's;
* SQLite's side-cars: a store file and its write-ahead log are one `file`;
* a second context on the same store (confinement types of `CoreDataStore`), where
  blocks are not queued at all;
* links and the file of unresolved links in the two-phase sync and in preseeding: both
  are modelled on the content alone. A store that is replaced by a seed keeps both
  files beside it (a hazard without a property).

## 7. Left for later

1. The relationship data inside the manager: index exactness there, and the variant
   of the lookup that finds its key paths, with the lists filed under "-" that it
   would make reachable.
2. Overlapping calls: the weaker properties of token and links that do hold.
3. Preseeding composed with the file of unresolved links.
