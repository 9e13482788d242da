----------------------------- MODULE TwoPhaseSync -----------------------------
(***************************************************************************)
(* Localization schemes, the two-phase sync and the seeding from bundled   *)
(* JSON files, on top of the replica SynchronizationManager keeps: which   *)
(* locales a page is stored in, and what the token of the store then       *)
(* stands for.  A scheme is the set of locales it stores.  Links are left  *)
(* out: whether some are on file, which decides on one save, is open.      *)
(***************************************************************************)
EXTENDS Replica

CONSTANTS
    Configured,     \* the scheme the manager is constructed with
    InitialSchemes, \* schemes the app passes to the two-phase sync
    MaySeed,        \* the app may seed the store from JSON files
    MayRefuseSave,  \* the store may refuse to be saved
    MayFailWipe,    \* CoreDataStore.wipe may throw
    MayFailFetch    \* CoreDataStore.fetchOne may throw

ASSUME TwoPhaseAssumption ==
    /\ Configured \subseteq Locales
    /\ InitialSchemes \subseteq SUBSET Locales
    /\ DbVersions \subseteq Nat \ {0}

ASSUME NoneAssumption ==
    /\ None \notin {NoToken} \cup Token
    /\ ~IsReply(None)
    /\ \A ids \in SUBSET Ids : ids # None

VARIABLES
    scheme,         \* localizationScheme
    stage,          \* [Calls -> a sync, of two which one, or a seeding]
    step,           \* [Calls -> how far that sync is]
    bundle,         \* the space as it was when the JSON files were made
    unread,         \* [Calls -> ids of the bundle that a seeding has not read yet]
    appVersion      \* the dbVersion this process passes to sync()

calls == <<stage, step, unread>>
localization == <<scheme, calls, bundle, appVersion>>
phaseVars == <<vars, localization>>

Syncs == {"plain", "first", "final"}
Stages == {"idle", "seed"} \cup Syncs
Steps == {"begun", "migrated", "fetching", "completing"}

TwoPhaseInit ==
    /\ Init
    /\ scheme = Configured
    /\ stage = [c \in Calls |-> "idle"]
    /\ step = [c \in Calls |-> "begun"]
    /\ bundle = server
    /\ unread = NoRequests
    /\ appVersion \in DbVersions

Advance(c, s) == step' = [step EXCEPT ![c] = s]

Become(c, s) == stage' = [stage EXCEPT ![c] = s]

\* What save() makes of a store file: its errors are swallowed.
SaveHeldTo(file) == saved' \in {held'} \cup IF MayRefuseSave THEN {file} ELSE {}

SaveHeld == SaveHeldTo(saved)

\* update(with:) in the scheme of the moment; only the last page is saved.
Install(items, token, last) ==
    /\ held' = [held EXCEPT !.content = Received(@, items, scheme), !.token = token]
    /\ IF last THEN SaveHeld ELSE saved' = saved

-----------------------------------------------------------------------------
(* The calls.                                                               *)

\* sync(limit:dbVersion:then:)
SyncPlain(c) ==
    /\ stage[c] = "idle"
    /\ Become(c, "plain")
    /\ UNCHANGED <<vars, scheme, step, unread, bundle, appVersion>>

\* The two-phase sync stores the first phase in the initial scheme.
SyncTwoPhase(c) ==
    /\ stage[c] = "idle"
    /\ \E initial \in InitialSchemes : initial # Locales /\ scheme' = initial
    /\ Become(c, "first")
    /\ UNCHANGED <<vars, step, unread, bundle, appVersion>>

Outdated == held.version \in 1 .. appVersion - 1

\* migrateDbIfNeeded: the store carries the version of the app.
MigrateCurrent(c) ==
    /\ held.version >= appVersion
    /\ UNCHANGED copies

\* No version was stored yet; the save writes whatever else is held.
MigrateUnversioned(c) ==
    /\ held.version = 0
    /\ held' = [held EXCEPT !.version = appVersion]
    /\ SaveHeld

MigrateOutdated(c) ==
    /\ Outdated
    /\ held' = [Empty EXCEPT !.version = appVersion]
    /\ SaveHeldTo(Empty)

\* wipe() throws after it has reset the context, which is only printed.
MigrateOutdatedFails(c) ==
    /\ MayFailWipe /\ Outdated
    /\ held' = saved
    /\ UNCHANGED saved

Migrate(c) ==
    /\ stage[c] \in Syncs /\ step[c] = "begun"
    /\ \/ MigrateCurrent(c)
       \/ MigrateUnversioned(c)
       \/ MigrateOutdated(c)
       \/ MigrateOutdatedFails(c)
    /\ Advance(c, "migrated")
    /\ UNCHANGED <<requests, space, scheme, stage, unread, bundle, appVersion>>

\* resolveCachedRelationships saves whatever is held if there are links on
\* file; in the same block syncSafely asks for what is new since the token.
Ask(c) ==
    /\ step[c] = "migrated"
    /\ saved' \in {saved, held}
    /\ asked' = [asked EXCEPT ![c] = held.token]
    /\ Advance(c, "fetching")
    /\ UNCHANGED <<held, answer, space, scheme, stage, unread, bundle, appVersion>>

Receive(c) == Respond(c) /\ UNCHANGED localization

\* Variant: the client's error is not handed on.
FailSilently(c) == GiveUp(c) /\ UNCHANGED localization

Fail(c) ==
    /\ GiveUp(c)
    /\ Advance(c, "completing")
    /\ UNCHANGED <<scheme, stage, unread, bundle, appVersion>>

Update(c) ==
    /\ answer[c] # None
    /\ LET r == answer[c]
           more == HasMorePages(r)
       IN  /\ Install(r.items, r.token, ~more)
           /\ asked' = [asked EXCEPT ![c] = IF more THEN r.token ELSE None]
           /\ Advance(c, IF more THEN "fetching" ELSE "completing")
    /\ answer' = [answer EXCEPT ![c] = None]
    /\ UNCHANGED <<space, scheme, stage, unread, bundle, appVersion>>

\* Variant: the second phase goes on from the token of the first.
StartFinalKeepingToken(c) ==
    /\ stage[c] = "first" /\ step[c] = "completing"
    /\ scheme' = Locales
    /\ Become(c, "final") /\ Advance(c, "begun")
    /\ UNCHANGED <<vars, unread, bundle, appVersion>>

\* handlePartialCompletion, after a success and after a failure: the token is
\* reset and saved, and the second phase begins with all locales.
StartFinal(c) ==
    /\ stage[c] = "first" /\ step[c] = "completing"
    /\ held' = [held EXCEPT !.token = NoToken]
    /\ SaveHeld
    /\ scheme' = Locales
    /\ Become(c, "final") /\ Advance(c, "begun")
    /\ UNCHANGED <<requests, space, unread, bundle, appVersion>>

\* handlePartialCompletion cannot fetch the token to reset it: the final
\* handler is called with the error and everything stays as the first phase
\* left it.
StartFinalFails(c) ==
    /\ MayFailFetch
    /\ stage[c] = "first" /\ step[c] = "completing"
    /\ Become(c, "idle") /\ Advance(c, "begun")
    /\ UNCHANGED <<vars, scheme, unread, bundle, appVersion>>

\* The completion handler, onFinalCompletion for the second phase.
Complete(c) ==
    /\ stage[c] \in {"plain", "final"} /\ step[c] = "completing"
    /\ Become(c, "idle") /\ Advance(c, "begun")
    /\ UNCHANGED <<vars, scheme, unread, bundle, appVersion>>

-----------------------------------------------------------------------------
(* seedDBFromJSONFiles: the pages of a sync that was recorded earlier, one  *)
(* file each.  It blocks its caller until it is done, but nobody else: a    *)
(* sync called from elsewhere may overlap it.                               *)

Seed(c) ==
    /\ MaySeed /\ stage[c] = "idle"
    /\ Become(c, "seed")
    /\ unread' = [unread EXCEPT ![c] = {id \in Ids : IsPublished(bundle[id])}]
    /\ UNCHANGED <<vars, scheme, step, bundle, appVersion>>

SeedPage(c) ==
    /\ stage[c] = "seed"
    /\ \E page \in SUBSET unread[c] :
          LET rest == unread[c] \ page
              done == rest = {}
          IN  /\ page # {} \/ done
              /\ Install([id \in page |-> bundle[id]], [at |-> 0, rest |-> rest], done)
              /\ unread' = [unread EXCEPT ![c] = IF done THEN None ELSE rest]
              /\ Become(c, IF done THEN "idle" ELSE "seed")
    /\ UNCHANGED <<requests, space, scheme, step, bundle, appVersion>>

\* A file cannot be read or decoded: what was applied stays in the context.
SeedThrows(c) ==
    /\ stage[c] = "seed"
    /\ Become(c, "idle")
    /\ unread' = [unread EXCEPT ![c] = None]
    /\ UNCHANGED <<vars, scheme, step, bundle, appVersion>>

-----------------------------------------------------------------------------
\* The process ends, perhaps inside a wipe, and the app is started again,
\* perhaps as a newer one.
Quit ==
    /\ Restart
    /\ saved' = saved \/ (Outdated /\ \E c \in Calls : stage[c] \in Syncs /\ step[c] = "begun")
    /\ scheme' = Configured
    /\ stage' = [c \in Calls |-> "idle"]
    /\ step' = [c \in Calls |-> "begun"]
    /\ unread' = NoRequests
    /\ appVersion' \in {v \in DbVersions : v >= appVersion}
    /\ UNCHANGED bundle

EditSpace == Edit /\ UNCHANGED localization

\* What the manager and its client do by themselves.
Proceed(c) ==
    \/ Migrate(c) \/ Ask(c) \/ Receive(c) \/ Fail(c) \/ Update(c)
    \/ StartFinal(c) \/ StartFinalFails(c) \/ Complete(c)

TwoPhaseNext ==
    \/ \E c \in Calls : SyncPlain(c) \/ SyncTwoPhase(c) \/ Proceed(c)
    \/ \E c \in Calls : Seed(c) \/ SeedPage(c) \/ SeedThrows(c)
    \/ Quit \/ EditSpace

TwoPhaseSpec == TwoPhaseInit /\ [][TwoPhaseNext]_phaseVars

\* The client answers or reports a failure; queued blocks are run.
FairTwoPhaseSpec == TwoPhaseSpec /\ \A c \in Calls : WF_phaseVars(Proceed(c))

-----------------------------------------------------------------------------
LocalizedTypeOK ==
    /\ DeliveryTypeOK
    /\ {held, saved} \subseteq [content : [Key -> {Absent} \cup Nat],
                                token : {NoToken} \cup Token, version : {0} \cup DbVersions]
    /\ asked \in [Calls -> {None, NoToken} \cup Token]
    /\ DOMAIN answer = Calls
    /\ \A c \in Calls : answer[c] = None \/ IsReply(answer[c])
    /\ scheme \subseteq Locales
    /\ stage \in [Calls -> Stages]
    /\ step \in [Calls -> Steps]
    /\ \A c \in Calls : asked[c] # None \/ answer[c] # None <=> step[c] = "fetching"
    /\ bundle \in [Ids -> Change]
    /\ unread \in [Calls -> {None} \cup SUBSET Ids]
    /\ \A c \in Calls : unread[c] # None <=> stage[c] = "seed"
    /\ appVersion \in DbVersions

\* Every resource a store's token claims to know is stored in these locales as
\* it was last published.
Holds(store, locales) ==
    \A k \in Key :
        k.id \in Persisted \ Outstanding(store.token) /\ IsPublished(server[k.id]) /\ k.locale \in locales
            => store.content[k] = server[k.id].at

\* The locales that every page is stored in, whatever the scheme of the moment.
Common == {l \in Configured : \A initial \in InitialSchemes : l \in initial}

\* Whatever the token claims is stored: in memory and in the file in every
\* locale that the constructor's and the first phase's schemes have in common,
\* and in memory, while a second phase is under way and when it completes, in
\* all locales (sync(syncSpacePersistable:...), SynchronizationManager.swift:182-213;
\* seedDBFromJSONFiles, SynchronizationManager+SeedDB.swift:44-66).  This goes
\* through failures of either phase, seeding that stops half-way, wipes,
\* refused saves, saves of half-delivered syncs and restarts.  What is missing
\* would never be delivered: the next sync asks for what is new since the token.
\* Not covered is a second phase whose wipe fails: it may take back a token whose
\* reset was not saved.
Delivered ==
    /\ Holds(held, Common) /\ Holds(saved, Common)
    /\ \A c \in Calls : stage[c] = "final" /\ held.version >= appVersion => Holds(held, Locales)

\* What the token claims is stored in the locales the manager is configured to
\* save (src/README.md:40).
SchemeDelivered == Holds(held, scheme)

\* A two-phase sync ends with its final handler, whatever becomes of either
\* phase, unless the process ends before.
FinalHandlerCalled == \A c \in Calls : stage[c] = "first" ~> stage[c] = "idle"

\* What the store's token claims to know and is not published is not stored.
NothingLeftOver ==
    \A k \in Key : k.id \notin Outstanding(held.token) /\ ~IsPublished(server[k.id])
        => held.content[k] = Absent
=============================================================================
