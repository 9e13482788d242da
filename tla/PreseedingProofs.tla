--------------------------- MODULE PreseedingProofs ---------------------------
(***************************************************************************)
(* For any releases and any number of failing and ending launches: types;  *)
(* no release works on the content of an older one, if the versions passed *)
(* to sync() do not overtake the seeds of later releases; and none loses   *)
(* what it has synced, if an intact store file can be opened.              *)
(***************************************************************************)
EXTENDS Preseeding, TLAPS

LEMMA StoreFacts ==
  ASSUME TypeOK, IsStore(file)
  PROVE  /\ file \in Store
         /\ file.version \in Nat /\ file.by \in {NoContent} \cup Releases
         /\ file.synced \in BOOLEAN
BY DEF TypeOK, IsStore, Store

LEMMA StoreIsStore == \A f \in Store : IsStore(f)
BY AbsenceAssumption DEF IsStore

LEMMA EmptyIsStore == EmptyFile \in Store
BY DEF EmptyFile, Store

LEMMA TypeStep ==
  ASSUME TypeOK, [Next]_vars
  PROVE  TypeOK'
<1> USE PreseedingAssumption
<1>1. CASE Launch
  <2>1. file' \in {NoFile, Torn} \cup Store /\ (stage' = "opened" => IsStore(file'))
    BY <1>1, EmptyIsStore, StoreIsStore DEF Launch, TypeOK, IsStore
  <2> QED
    BY <1>1, <2>1 DEF Launch, TypeOK, Stages
<1>2. CASE Skip \/ Close
  BY <1>2 DEF Skip, Close, NeedsSeed, LastVersion, TypeOK, Stages, IsStore
<1>3. CASE RemoveContainer \/ RemoveContainerFails \/ CreateDirectory
  BY <1>3 DEF RemoveContainer, RemoveContainerFails, CreateDirectory, Fault, TypeOK, Stages
<1>4. CASE Copy
  <2>1. PICK version \in {0, release} :
          file' = [version |-> version, by |-> release, synced |-> FALSE]
    BY <1>4 DEF Copy
  <2>2. file' \in Store /\ file'.by = release
    BY <2>1 DEF TypeOK, Store
  <2> QED
    BY <1>4, <2>2, StoreIsStore DEF Copy, TypeOK, Stages
<1>5. CASE Reopen
  BY <1>5 DEF Reopen, TypeOK, Stages, IsStore
<1>6. CASE Throw \/ Crash
  BY <1>6 DEF Throw, Crash, Fault, TypeOK, Stages, IsStore
<1>7. CASE RecordVersion
  <2>1. file \in Store
    BY <1>7, StoreFacts DEF RecordVersion, TypeOK
  <2>2. file' \in Store
    BY <1>7, <2>1 DEF RecordVersion, Store, TypeOK
  <2> QED
    BY <1>7, <2>2, StoreIsStore DEF RecordVersion, TypeOK, Stages
<1>8. CASE SyncMigrates
  <2>1. file' \in Store
    BY <1>8 DEF SyncMigrates, EmptyFile, Store, TypeOK
  <2> QED
    BY <1>8, <2>1, StoreIsStore DEF SyncMigrates, TypeOK
<1>9. CASE SyncSaves
  <2>1. file \in Store
    BY <1>9, StoreFacts DEF SyncSaves, TypeOK
  <2>2. file' \in Store
    BY <1>9, <2>1 DEF SyncSaves, Store, TypeOK
  <2> QED
    BY <1>9, <2>2, StoreIsStore DEF SyncSaves, TypeOK
<1>10. CASE Quit
  BY <1>10 DEF Quit, TypeOK, Stages
<1>11. CASE UNCHANGED vars
  BY <1>11 DEF vars, TypeOK, IsStore
<1> QED
  BY <1>1, <1>2, <1>3, <1>4, <1>5, <1>6, <1>7, <1>8, <1>9, <1>10, <1>11 DEF Next, Construct

\* Types, and that a manager never works on a store that is not open, for any
\* releases and versions and any number of faults.
THEOREM PreseedingTypeCorrect == Spec => []TypeOK
<1>1. Init => TypeOK
  BY PreseedingAssumption DEF Init, TypeOK, Stages
<1> QED
  BY <1>1, TypeStep, PTL DEF Spec

-----------------------------------------------------------------------------
(* What a store says of itself.                                             *)

Synced == IsStore(file) /\ file.synced /\ file.by = release

\* No store has content of a later release; one that a sync has brought
\* content to has at least the version of that content's release.
StoreInv ==
    IsStore(file) =>
        /\ file.by # NoContent => file.by <= release
        /\ file.synced => file.by # NoContent /\ file.by <= file.version

VersionInv == stage = "running" => file.version >= release

BaseInv == TypeOK /\ StoreInv /\ VersionInv

LEMMA ReleaseFacts ==
  ASSUME TypeOK
  PROVE  /\ release \in Releases /\ release \in Nat /\ release > 0 /\ release # NoContent
         /\ Releases \subseteq Nat /\ SyncVersion[release] \in Nat
BY PreseedingAssumption DEF TypeOK

\* The facts about an intact store that the steps below compare.
LEMMA NumberFacts ==
  ASSUME TypeOK, IsStore(file)
  PROVE  /\ file \in Store /\ file.version \in Nat
         /\ file.by # NoContent => file.by \in Nat
BY StoreFacts, ReleaseFacts

LEMMA LaterRelease ==
  ASSUME TypeOK, Launch
  PROVE  release' \in Nat /\ release' >= release /\ release' \in Releases
BY ReleaseFacts DEF Launch

\* What a launch finds: the store that was there, or an empty one.
LEMMA LaunchedFile ==
  ASSUME Launch
  PROVE  /\ stage' \in {"opened", "unopened"}
         /\ file' = file \/ (~IsStore(file) /\ file' = EmptyFile)
BY DEF Launch, IsStore

\* A copy that fails or is interrupted leaves no store, or the one it found.
LEMMA InterruptedFile ==
  ASSUME Throw \/ Crash
  PROVE  /\ release' = release /\ stage' \in {"failed", "off"}
         /\ file' = file \/ (file = NoFile /\ ~IsStore(file'))
BY DEF Throw, Crash, IsStore

LEMMA CopiedFile ==
  ASSUME Copy
  PROVE  /\ release' = release /\ stage' = "copied" /\ file = NoFile
         /\ \E version \in {0, release} :
                file' = [version |-> version, by |-> release, synced |-> FALSE]
BY DEF Copy

LEMMA RecordedFile ==
  ASSUME TypeOK, RecordVersion
  PROVE  /\ IsStore(file) /\ release' = release /\ stage = "seeded" /\ stage' = "running"
         /\ IsStore(file') /\ file'.version = release /\ file'.by = file.by
         /\ file'.synced = file.synced
<1>1. IsStore(file) /\ file \in Store
  BY StoreFacts DEF RecordVersion, TypeOK
<1>2. file' \in Store
  BY <1>1, ReleaseFacts DEF RecordVersion, Store
<1> QED
  BY <1>1, <1>2, StoreIsStore DEF RecordVersion, Store

LEMMA SavedFile ==
  ASSUME TypeOK, SyncSaves
  PROVE  /\ IsStore(file) /\ release' = release /\ stage = "running" /\ stage' = "running"
         /\ IsStore(file') /\ file'.version = file.version /\ file'.synced
         /\ file'.by = IF file.by = NoContent THEN release ELSE file.by
<1>1. IsStore(file) /\ file \in Store
  BY StoreFacts DEF SyncSaves, TypeOK
<1>2. file' \in Store
  BY <1>1, ReleaseFacts DEF SyncSaves, Store
<1> QED
  BY <1>1, <1>2, StoreIsStore DEF SyncSaves, Store

LEMMA MigratedFile ==
  ASSUME TypeOK, SyncMigrates
  PROVE  /\ release' = release /\ stage' = "running" /\ file.version < SyncVersion[release]
         /\ file'.version = SyncVersion[release] /\ file'.by = NoContent /\ ~file'.synced
BY DEF SyncMigrates, EmptyFile

\* The steps that leave the file and the release alone, and those that remove it.
Idle == Skip \/ Close \/ CreateDirectory \/ RemoveContainerFails \/ Reopen \/ Quit \/ UNCHANGED vars

LEMMA IdleFile ==
  ASSUME Idle
  PROVE  file' = file /\ release' = release /\ (stage' = "running" => stage = "running")
BY DEF Idle, Skip, Close, CreateDirectory, RemoveContainerFails, Reopen, Quit, vars

LEMMA RemovedFile ==
  ASSUME RemoveContainer
  PROVE  ~IsStore(file') /\ release' = release /\ stage' = "removed"
BY DEF RemoveContainer, IsStore

LEMMA Steps ==
  ASSUME [Next]_vars
  PROVE  \/ Launch \/ Throw \/ Crash \/ Copy \/ RecordVersion \/ SyncSaves \/ SyncMigrates
         \/ Idle \/ RemoveContainer
BY DEF Next, Construct, Idle

LEMMA BaseStep ==
  ASSUME BaseInv, [Next]_vars
  PROVE  BaseInv'
<1> USE DEF BaseInv
<1>1. TypeOK'
  BY TypeStep
<1>2. CASE Launch
  <2>1. CASE file' = file
    BY <1>1, <1>2, <2>1, LaterRelease, LaunchedFile, NumberFacts, ReleaseFacts
       DEF StoreInv, VersionInv, IsStore
  <2>2. CASE file' = EmptyFile
    BY <1>1, <1>2, <2>2, LaunchedFile DEF StoreInv, VersionInv, EmptyFile
  <2> QED
    BY <1>2, <2>1, <2>2, LaunchedFile
<1>3. CASE Throw \/ Crash
  BY <1>1, <1>3, InterruptedFile DEF StoreInv, VersionInv, IsStore
<1>4. CASE Copy
  BY <1>1, <1>4, CopiedFile, ReleaseFacts DEF StoreInv, VersionInv
<1>5. CASE RecordVersion
  BY <1>1, <1>5, RecordedFile, ReleaseFacts, NumberFacts DEF StoreInv, VersionInv
<1>6. CASE SyncSaves
  BY <1>1, <1>6, SavedFile, ReleaseFacts, NumberFacts DEF StoreInv, VersionInv
<1>7. CASE SyncMigrates
  <2>1. stage = "running" /\ IsStore(file)
    BY <1>7 DEF SyncMigrates, TypeOK
  <2>2. SyncVersion[release] >= release
    BY <1>7, <2>1, MigratedFile, NumberFacts, ReleaseFacts DEF VersionInv
  <2> QED
    BY <1>1, <1>7, <2>2, MigratedFile DEF StoreInv, VersionInv
<1>8. CASE Idle \/ RemoveContainer
  BY <1>1, <1>8, IdleFile, RemovedFile DEF StoreInv, VersionInv, IsStore
<1> QED
  BY <1>2, <1>3, <1>4, <1>5, <1>6, <1>7, <1>8, Steps

LEMMA BaseInvariant == Spec => []BaseInv
<1>1. Init => BaseInv
  BY PreseedingAssumption DEF Init, BaseInv, TypeOK, Stages, StoreInv, VersionInv, IsStore
<1> QED
  BY <1>1, BaseStep, PTL DEF Spec

-----------------------------------------------------------------------------
(* Releases pass to sync() no version that a later release's seed does not  *)
(* exceed: every later release then finds the store too old.                *)

LaterSeedsNewer == \A r, s \in Releases : s > r => SyncVersion[r] < s

Age == IF file.by = NoContent THEN release ELSE file.by

SeedInv ==
    /\ IsStore(file) => \A r \in Releases : r > Age => file.version < r
    /\ stage \in {"copied", "seeded", "running"} => file.by \in {NoContent, release}

LEMMA SkipsOwnContent ==
  ASSUME BaseInv, SeedInv, Skip
  PROVE  file.by \in {NoContent, release}
<1>1. stage = "opened" /\ IsStore(file) /\ ~(release > file.version)
  BY ReleaseFacts DEF BaseInv, TypeOK, Skip, NeedsSeed, LastVersion
<1>2. file.version \in Nat /\ (file.by # NoContent => file.by \in Nat /\ file.by <= release)
  BY <1>1, NumberFacts DEF BaseInv, StoreInv
<1> QED
  BY <1>1, <1>2, ReleaseFacts DEF BaseInv, SeedInv, Age

LEMMA SeedStep ==
  ASSUME LaterSeedsNewer, BaseInv, SeedInv, [Next]_vars
  PROVE  SeedInv'
<1> USE DEF BaseInv
<1>1. CASE Launch
  <2>1. CASE file' = file
    BY <1>1, <2>1, LaterRelease, LaunchedFile, NumberFacts, ReleaseFacts
       DEF SeedInv, Age, IsStore
  <2>2. CASE file' = EmptyFile
    BY <1>1, <2>2, LaunchedFile, LaterRelease, ReleaseFacts DEF SeedInv, Age, EmptyFile
  <2> QED
    BY <1>1, <2>1, <2>2, LaunchedFile
<1>2. CASE Throw \/ Crash
  BY <1>2, InterruptedFile DEF SeedInv, Age, IsStore
<1>3. CASE Copy
  BY <1>3, CopiedFile, ReleaseFacts DEF SeedInv, Age
<1>4. CASE RecordVersion
  BY <1>4, RecordedFile, ReleaseFacts DEF SeedInv, Age
<1>5. CASE SyncSaves
  BY <1>5, SavedFile, ReleaseFacts DEF SeedInv, Age
<1>6. CASE SyncMigrates
  BY <1>6, MigratedFile, ReleaseFacts DEF SeedInv, Age, LaterSeedsNewer
<1>7. CASE Skip
  <2>1. file' = file /\ release' = release /\ stage' = "seeded"
    BY <1>7 DEF Skip
  <2> QED
    BY <1>7, <2>1, SkipsOwnContent DEF SeedInv, Age, IsStore
<1>8. CASE Idle /\ ~Skip
  <2>1. stage' \in {"copied", "seeded", "running"} => stage \in {"copied", "seeded", "running"}
    BY <1>8 DEF Idle, Close, CreateDirectory, RemoveContainerFails, Reopen, Quit, vars
  <2> QED
    BY <1>8, <2>1, IdleFile DEF SeedInv, Age, IsStore
<1>9. CASE RemoveContainer
  BY <1>9, RemovedFile DEF SeedInv
<1> QED
  BY <1>1, <1>2, <1>3, <1>4, <1>5, <1>6, <1>7, <1>8, <1>9, Steps

\* No app works on the content of an older release, for any releases and any
\* number of failing and ending launches, if no release passes a version to
\* sync() that a later release's seed does not exceed.
THEOREM NeverOnOlderContent ==
  ASSUME LaterSeedsNewer
  PROVE  Spec => []NoOlderContent
<1>1. Init => SeedInv
  BY DEF Init, SeedInv, IsStore
<1>2. SeedInv => NoOlderContent
  BY DEF SeedInv, NoOlderContent
<1> QED
  BY <1>1, <1>2, SeedStep, BaseInvariant, PTL DEF Spec

-----------------------------------------------------------------------------
(* Stores that can be opened are never taken for missing or outdated.       *)

KeptInv ==
    /\ stage = "unopened" => ~IsStore(file)
    /\ stage \in {"closed", "removed", "created"} => ~Synced

LEMMA ClosesNoSynced ==
  ASSUME BaseInv, KeptInv, Close
  PROVE  ~Synced
<1>1. CASE stage = "unopened"
  BY <1>1 DEF KeptInv, Synced
<1>2. CASE stage = "opened"
  <2>1. IsStore(file) /\ release > file.version
    BY <1>2 DEF BaseInv, TypeOK, Close, NeedsSeed, LastVersion, IsStore
  <2> QED
    BY <2>1, NumberFacts, ReleaseFacts DEF BaseInv, StoreInv, Synced
<1> QED
  BY <1>1, <1>2 DEF Close

LEMMA KeptInvStep ==
  ASSUME ~MayFailToOpen, BaseInv, KeptInv, [Next]_vars
  PROVE  KeptInv'
<1> USE DEF BaseInv
<1>1. CASE Launch
  BY <1>1 DEF Launch, KeptInv, IsStore
<1>2. CASE Throw \/ Crash
  BY <1>2, InterruptedFile DEF KeptInv
<1>3. CASE Copy \/ RecordVersion \/ SyncSaves \/ SyncMigrates
  BY <1>3, CopiedFile, RecordedFile, SavedFile, MigratedFile DEF KeptInv
<1>4. CASE Close
  <2>1. file' = file /\ release' = release /\ stage' = "closed"
    BY <1>4 DEF Close
  <2> QED
    BY <1>4, <2>1, ClosesNoSynced DEF KeptInv, Synced, IsStore
<1>5. CASE Idle /\ ~Close
  <2>1. \/ stage' \in {"seeded", "off"}
        \/ stage \in {"closed", "removed"} /\ stage' \in {"removed", "created"}
        \/ stage' = stage
    BY <1>5 DEF Idle, Skip, CreateDirectory, RemoveContainerFails, Reopen, Quit, vars
  <2> QED
    BY <1>5, <2>1, IdleFile DEF KeptInv, Synced, IsStore
<1>6. CASE RemoveContainer
  BY <1>6, RemovedFile DEF KeptInv, Synced
<1> QED
  BY <1>1, <1>2, <1>3, <1>4, <1>5, <1>6, Steps

LEMMA SyncedStep ==
  ASSUME BaseInv, KeptInv, [Next]_vars, Synced, SeedSuffices, release' = release
  PROVE  Synced'
<1> USE DEF BaseInv
<1>1. IsStore(file) /\ file # NoFile
  BY DEF Synced, IsStore
<1>2. CASE Launch
  BY <1>1, <1>2, LaunchedFile DEF Synced, IsStore
<1>3. CASE Throw \/ Crash
  BY <1>1, <1>3, InterruptedFile DEF Synced, IsStore
<1>4. CASE Copy \/ RemoveContainer
  BY <1>1, <1>4 DEF Copy, RemoveContainer, KeptInv
<1>5. CASE RecordVersion
  BY <1>5, RecordedFile DEF Synced
<1>6. CASE SyncSaves
  BY <1>6, SavedFile, ReleaseFacts DEF Synced
<1>7. CASE SyncMigrates
  <2>1. stage = "running"
    BY <1>7 DEF SyncMigrates
  <2> QED
    BY <1>1, <1>7, <2>1, MigratedFile, NumberFacts, ReleaseFacts DEF VersionInv, SeedSuffices
<1>8. CASE Idle
  BY <1>8, IdleFile DEF Synced, IsStore
<1> QED
  BY <1>2, <1>3, <1>4, <1>5, <1>6, <1>7, <1>8, Steps

\* Launches of the same release keep what it has synced, for any releases and
\* faults, if an intact store can be opened.
THEOREM LaunchesKeepSyncedContent ==
  ASSUME ~MayFailToOpen
  PROVE  Spec => SyncedContentKept
<1>1. Init => KeptInv
  BY DEF Init, KeptInv
<1>2. ASSUME BaseInv, KeptInv, [Next]_vars
      PROVE  [IsStore(file) /\ file.synced /\ file.by = release /\ release' = release /\ SeedSuffices
                => IsStore(file') /\ file'.synced /\ file'.by = release]_vars
  BY <1>2, SyncedStep DEF Synced
<1> QED
  BY <1>1, <1>2, KeptInvStep, BaseInvariant, PTL DEF Spec, SyncedContentKept
=============================================================================
