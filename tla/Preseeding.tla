------------------------------ MODULE Preseeding ------------------------------
(***************************************************************************)
(* The launches of an app that ships a bundled store: FilePreseedManager   *)
(* with the hooks of CoreDataStore replaces the store file by the seed,    *)
(* step by step, any of which may throw or be the last one of the process; *)
(* the manager then writes the version of the seed, and sync() goes on     *)
(* from there with a version of its own.                                   *)
(*                                                                         *)
(* Content is told apart by the release it belongs to; what it is, and how *)
(* a sync brings it, is in the modules on the synchronization.             *)
(***************************************************************************)
EXTENDS Integers

CONSTANTS
    Releases,       \* releases of the app, named by dbVersion of their seed
    SyncVersion,    \* [Releases -> the dbVersion they pass to sync()]
    MayFailToOpen,  \* an intact store file may not be opened at a launch
    MaxFaults,      \* bound: how often a step throws or the process ends in one
    NoFile, Torn, NoContent

ASSUME PreseedingAssumption ==
    /\ Releases \subseteq Nat \ {0}
    /\ SyncVersion \in [Releases -> Nat \ {0}]
    /\ MaxFaults \in Nat
    /\ NoContent \notin Releases

VARIABLES
    release,        \* the installed release
    file,           \* the store file: a Store, NoFile, or Torn by a copy
    stage,          \* how far the launch has got
    faults

vars == <<release, file, stage, faults>>

\* A store has the dbVersion of its SyncSpacePersistable, 0 without one, the
\* release its content belongs to, and whether a sync has brought some of it.
Store == [version : Nat, by : {NoContent} \cup Releases, synced : BOOLEAN]

ASSUME AbsenceAssumption == NoFile \notin Store /\ Torn \notin Store

EmptyFile == [version |-> 0, by |-> NoContent, synced |-> FALSE]

IsStore(f) == f \notin {NoFile, Torn}

\* The coordinator has the store when it is opened, seeded or running.
Stages == {"off", "opened", "unopened", "closed", "removed", "created", "copied", "seeded",
           "running", "failed"}

Init ==
    /\ release \in Releases
    /\ file = NoFile
    /\ stage = "off"
    /\ faults = 0

Fault == faults < MaxFaults /\ faults' = faults + 1

\* The app sets up its Core Data stack before it constructs the manager: a
\* missing file is created if its directory is there.
Launch ==
    /\ stage = "off"
    /\ release' \in {r \in Releases : r >= release}
    /\ \/ file = NoFile /\ file' = EmptyFile /\ stage' = "opened"
       \/ IsStore(file) /\ file' = file /\ stage' = "opened"
       \/ (IsStore(file) => MayFailToOpen) /\ file' = file /\ stage' = "unopened"
    /\ UNCHANGED faults

\* What apply() reads; an error counts as no version.
LastVersion == IF stage = "opened" THEN file.version ELSE 0

\* Variants: an older version is no reason to seed; a seed of the same version
\* is copied again.
NeedsSeedMissing == ~IsStore(file)
NeedsSeedAgain == file = NoFile \/ release >= LastVersion

NeedsSeed == file = NoFile \/ release > LastVersion

Skip ==
    /\ stage \in {"opened", "unopened"} /\ ~NeedsSeed
    /\ stage' = "seeded"
    /\ UNCHANGED <<release, file, faults>>

\* onStorePreseedingWillBegin, with the side-cars the store file has.
Close ==
    /\ stage \in {"opened", "unopened"} /\ NeedsSeed
    /\ stage' = "closed"
    /\ UNCHANGED <<release, file, faults>>

RemoveContainer ==
    /\ stage = "closed"
    /\ file' = NoFile
    /\ stage' = "removed"
    /\ UNCHANGED <<release, faults>>

\* The error of removeItem is swallowed.
RemoveContainerFails ==
    /\ stage = "closed" /\ Fault
    /\ stage' = "removed"
    /\ UNCHANGED <<release, file>>

CreateDirectory ==
    /\ stage = "removed"
    /\ stage' = "created"
    /\ UNCHANGED <<release, file, faults>>

\* copyItem; the bundled file was made by the same release, perhaps before it
\* wrote a version.  Nothing is copied over a file.
Copy ==
    /\ stage = "created" /\ file = NoFile
    /\ \E version \in {0, release} :
          file' = [version |-> version, by |-> release, synced |-> FALSE]
    /\ stage' = "copied"
    /\ UNCHANGED <<release, faults>>

\* onStorePreseedingCompleted
Reopen ==
    /\ stage = "copied"
    /\ stage' = "seeded"
    /\ UNCHANGED <<release, file, faults>>

\* Variant: the initializer swallows the error.
ThrowSwallowed ==
    /\ stage \in {"opened", "unopened"} /\ Fault
    /\ stage' = "seeded"
    /\ UNCHANGED <<release, file>>

\* Any of the steps throws, the copy for certain if a file is in its way: so
\* does the initializer, and the store stays as it is.
Throw ==
    /\ \/ stage \in {"opened", "unopened", "removed", "created", "copied"} /\ Fault
       \/ stage = "created" /\ IsStore(file) /\ UNCHANGED faults
       \/ stage = "created" /\ file = Torn /\ UNCHANGED faults
    /\ file' \in IF stage = "created" /\ file = NoFile THEN {NoFile, Torn} ELSE {file}
    /\ stage' = "failed"
    /\ UNCHANGED release

\* saveNewDbVersion, at the end of the initializer.
RecordVersion ==
    /\ stage = "seeded"
    /\ file' = [file EXCEPT !.version = release]
    /\ stage' = "running"
    /\ UNCHANGED <<release, faults>>

\* sync(): migrateDbIfNeeded wipes a store of a lower version.
SyncMigrates ==
    /\ stage = "running" /\ file.version < SyncVersion[release]
    /\ file' = [EmptyFile EXCEPT !.version = SyncVersion[release]]
    /\ UNCHANGED <<release, stage, faults>>

\* sync(): what is new is saved on top of what is there.
SyncSaves ==
    /\ stage = "running" /\ file.version >= SyncVersion[release]
    /\ file' = [file EXCEPT !.synced = TRUE, !.by = IF @ = NoContent THEN release ELSE @]
    /\ UNCHANGED <<release, stage, faults>>

Quit ==
    /\ stage \in {"running", "failed"}
    /\ stage' = "off"
    /\ UNCHANGED <<release, file, faults>>

\* The process ends inside the initializer: a copy may be torn.
Crash ==
    /\ stage \notin {"off", "running", "failed"} /\ Fault
    /\ file' \in IF stage = "created" /\ file = NoFile THEN {NoFile, Torn} ELSE {file}
    /\ stage' = "off"
    /\ UNCHANGED release

Construct ==
    \/ Skip \/ Close \/ RemoveContainer \/ CreateDirectory \/ Copy \/ Reopen
    \/ Throw \/ RecordVersion

Next ==
    \/ Launch \/ Construct \/ RemoveContainerFails
    \/ SyncMigrates \/ SyncSaves
    \/ Quit \/ Crash

Spec == Init /\ [][Next]_vars

\* An app is launched again and its initializer runs; one that has failed
\* does not stay so.
FairSpec ==
    /\ Spec
    /\ WF_vars(Launch) /\ WF_vars(Construct)
    /\ WF_vars(stage = "failed" /\ Quit)

-----------------------------------------------------------------------------
TypeOK ==
    /\ release \in Releases
    /\ file \in {NoFile, Torn} \cup Store
    /\ stage \in Stages
    /\ faults \in 0 .. MaxFaults
    /\ stage \in {"opened", "copied", "seeded", "running"} => IsStore(file)

\* Once the manager is constructed the app works on content of its own release
\* or on none: not on what an older one left, whatever has failed or ended in
\* between (FilePreseedManager.swift:44-73, SynchronizationManager.swift:118-141).
NoOlderContent == stage = "running" => file.by \in {NoContent, release}

\* sync() asks for no later a version than the seed has.
SeedSuffices == SyncVersion[release] <= release

\* While the release stays the same, what a sync has brought is kept: no
\* launch replaces it by the seed, no sync wipes it (FilePreseedManager.swift:
\* 54-56, migrateDbIfNeeded).
SyncedContentKept ==
    [][IsStore(file) /\ file.synced /\ file.by = release /\ release' = release /\ SeedSuffices
        => IsStore(file') /\ file'.synced /\ file'.by = release]_vars

\* However often launches fail, or end between removing the old store and
\* adding the new one, the app gets to run, on content of its own release
\* unless sync() has replaced that.
EventuallySeeded == []<>(stage = "running" /\ (SeedSuffices => file.by = release))

\* The dbVersion of a store does not go back as long as it is that store.
VersionNeverLowered ==
    [][IsStore(file) /\ IsStore(file') /\ file'.by = file.by => file'.version >= file.version]_vars
=============================================================================
