---------------------- MODULE RelationshipCacheProofs ----------------------
(***************************************************************************)
(* The relationship cache for any parents, fields, children and locales:   *)
(* types, the agreement of its index with its relationships, and that,     *)
(* seen through the index, it implements RelationshipRegistry.             *)
(***************************************************************************)
EXTENDS RelationshipCache, RelationshipDataProofs

-----------------------------------------------------------------------------
(* RelationshipData, seen through its index.                               *)

\* What an assignment does to the pairs the index answers with.
LEMMA SetRelationshipsBacklinks ==
  ASSUME NEW d \in Data, NEW kps \in SUBSET KeyPath, NEW new \in Assignments(kps),
         IndexMatches(d)
  PROVE  Backlinks(SetRelationships(d, new))
           = {b \in Backlinks(d) : b[1] \notin kps}
               \cup {b \in kps \X ChildIds : b[2] \in ChildIdsOf(new[b[1]])}
<1> DEFINE e == SetRelationships(d, new)
<1>0. DOMAIN new = kps
  BY DEF Assignments
<1>1. ASSUME NEW kp \in KeyPath, NEW c \in ChildIds
      PROVE  /\ kp \in d.byChild[c] <=> c \in ChildIdsOf(d.rels[kp])
             /\ kp \in e.byChild[c] <=> c \in ChildIdsOf(e.rels[kp])
  BY SetRelationshipsIndex DEF IndexMatches
<1>2. \A kp \in KeyPath : e.rels[kp] = IF kp \in kps THEN new[kp] ELSE d.rels[kp]
  BY <1>0 DEF SetRelationships
<1>3. ASSUME NEW kp \in KeyPath, NEW c \in ChildIds
      PROVE  <<kp, c>> \in Backlinks(e)
               <=> \/ kp \notin kps /\ <<kp, c>> \in Backlinks(d)
                   \/ kp \in kps /\ c \in ChildIdsOf(new[kp])
  BY <1>1, <1>2 DEF Backlinks
<1>4. /\ Backlinks(e) \subseteq KeyPath \X ChildIds
      /\ Backlinks(d) \subseteq KeyPath \X ChildIds
  BY DEF Backlinks
<1> QED
  BY <1>3, <1>4

LEMMA EmptyDataFacts ==
  EmptyData \in Data /\ IndexMatches(EmptyData) /\ Backlinks(EmptyData) = {}
<1>1. EmptyData \in Data
  BY DEF EmptyData, Data
<1>2. IndexMatches(EmptyData)
  BY DEF EmptyData, IndexMatches, ChildIdsOf
<1>3. Backlinks(EmptyData) = {}
  BY DEF EmptyData, Backlinks
<1> QED
  BY <1>1, <1>2, <1>3

-----------------------------------------------------------------------------
(* The cache: every operation is an assignment to a set of key paths.       *)

DataInv == mem \in {NotLoaded} \cup Data /\ file \in Data /\ IndexExact

IInv == TypeOK /\ IndexExact

LEMMA CallType ==
  ASSUME call \in Call, [Next]_vars
  PROVE  call' \in Call
<1>1. ASSUME NEW p \in Parents, NEW f \in Fields, NEW ids \in SUBSET ChildIds,
             NEW l \in Locales, Add(p, f, ids, l)
      PROVE  call' \in Call
  BY <1>1, KeyPathOfType DEF Add, Call
<1>2. ASSUME NEW p \in Parents, Delete(p) PROVE call' \in Call
  BY <1>2 DEF Delete, Call
<1>3. ASSUME NEW p \in Parents, NEW f \in Fields, NEW l \in Locales, DeleteOne(p, f, l)
      PROVE  call' \in Call
  BY <1>3 DEF DeleteOne, Call, KeyPath
<1>4. CASE Save \/ Wipe \/ Restart
  BY <1>4 DEF Save, Wipe, Restart, Call
<1>5. CASE UNCHANGED vars
  BY <1>5 DEF vars
<1> QED
  BY <1>1, <1>2, <1>3, <1>4, <1>5 DEF Next

LEMMA RelationshipsFacts ==
  ASSUME IInv
  PROVE  Relationships \in Data /\ IndexMatches(Relationships)
BY DEF IInv, TypeOK, IndexExact, Relationships

LEMMA InitInv == Init => IInv
BY EmptyDataFacts DEF Init, IInv, TypeOK, IndexExact, Call

\* No step of the cache, and no restart, separates the index from the
\* relationships it was built from.
LEMMA NextInv == IInv /\ [Next]_vars => IInv'
<1> SUFFICES ASSUME IInv, [Next]_vars PROVE IInv'
  OBVIOUS
<1>0. /\ Relationships \in Data /\ IndexMatches(Relationships)
      /\ file \in Data /\ IndexMatches(file)
  BY RelationshipsFacts DEF IInv, TypeOK, IndexExact
<1>1. ASSUME NEW p \in Parents, NEW f \in Fields, NEW ids \in SUBSET ChildIds,
             NEW l \in Locales, Add(p, f, ids, l)
      PROVE  DataInv'
  <2> DEFINE cs == {[id |-> i, locale |-> l] : i \in ids}
  <2>l. l \in Locales \cup {NoLocale}
    OBVIOUS
  <2>c. {c.id : c \in cs} = ids
    BY <2>l, KeyPathOfType
  <2>1. mem' = SetRelationships(Relationships, [k \in {KeyPathOf(p, f, cs)} |-> ids]) /\ file' = file
    <3>1. mem' = AppendRelationship(Relationships, p, f, cs) /\ file' = file
      BY <1>1 DEF Add
    <3> QED
      BY <2>c, <3>1 DEF AppendRelationship
  <2>2. /\ {KeyPathOf(p, f, cs)} \in SUBSET KeyPath
        /\ [k \in {KeyPathOf(p, f, cs)} |-> ids] \in Assignments({KeyPathOf(p, f, cs)})
    BY KeyPathOfType DEF Assignments
  <2> QED
    BY <1>0, <2>1, <2>2, SetRelationshipsType, SetRelationshipsIndex
    DEF DataInv, IndexExact
<1>2. ASSUME NEW p \in Parents, Delete(p) PROVE DataInv'
  <2> DEFINE kps == {k \in KeyPath : k.parent \in {p} /\ Relationships.rels[k] # NoRelationship}
  <2>1. kps \in SUBSET KeyPath /\ [kp \in kps |-> NoRelationship] \in Assignments(kps)
    BY DEF Assignments
  <2> QED
    BY <1>0, <1>2, <2>1, SetRelationshipsType, SetRelationshipsIndex
    DEF Delete, DeleteParents, DataInv, IndexExact
<1>3. ASSUME NEW p \in Parents, NEW f \in Fields, NEW l \in Locales,
             DeleteOne(p, f, l)
      PROVE  DataInv'
  <2> DEFINE kps == {[parent |-> p, field |-> f, locale |-> l]}
  <2>1. kps \in SUBSET KeyPath /\ [kp \in kps |-> NoRelationship] \in Assignments(kps)
    BY DEF KeyPath, Assignments
  <2> QED
    BY <1>0, <1>3, <2>1, SetRelationshipsType, SetRelationshipsIndex
    DEF DeleteOne, DeleteField, DataInv, IndexExact
<1>4. ASSUME Save PROVE DataInv'
  BY <1>0, <1>4 DEF Save, DataInv, IndexExact
<1>5. ASSUME Wipe PROVE DataInv'
  BY <1>0, <1>5, EmptyDataFacts DEF Wipe, DataInv, IInv, TypeOK, IndexExact
<1>6. ASSUME Restart PROVE DataInv'
  BY <1>0, <1>6, EmptyDataFacts DEF Restart, DataInv, IndexExact
<1>7. ASSUME UNCHANGED vars PROVE DataInv'
  BY <1>7 DEF vars, DataInv, IInv, TypeOK, IndexExact
<1>8. DataInv'
  BY <1>1, <1>2, <1>3, <1>4, <1>5, <1>6, <1>7 DEF Next
<1> QED
  BY <1>8, CallType DEF DataInv, IInv, TypeOK

THEOREM InvariantHolds == Spec => []IInv
BY InitInv, NextInv, PTL DEF Spec

\* The cache's variables always hold relationship data.
THEOREM TypeCorrect == Spec => []TypeOK
<1>1. IInv => TypeOK
  BY DEF IInv
<1> QED
  BY <1>1, InvariantHolds, PTL

\* setRelationship's bookkeeping never lets the index and the relationships
\* drift apart (RelationshipData.swift:69-99).
THEOREM IndexAlwaysExact == Spec => []IndexExact
<1>1. IInv => IndexExact
  BY DEF IInv
<1> QED
  BY <1>1, InvariantHolds, PTL

-----------------------------------------------------------------------------
(* Lookups.                                                                 *)

\* A lookup by a child id without a locale returns exactly the relationships
\* that have the child (RelationshipData.swift:60-63, the case tests exercise).
THEOREM PlainLookupExact ==
  ASSUME NEW d \in Data, IndexMatches(d), NEW c \in ChildIds
  PROVE  Lookup(d, [id |-> c, locale |-> NoLocale])
           = {kp \in KeyPath : d.rels[kp] # NoRelationship /\ c \in d.rels[kp]}
BY DEF Lookup, RawValue, IndexMatches, ChildIdsOf

-----------------------------------------------------------------------------
(* Refinement.                                                              *)

\* An operation of RelationshipData, seen from the registry.
LEMMA AssignmentRefines ==
  ASSUME IInv, NEW kps \in SUBSET KeyPath, NEW new \in Assignments(kps),
         mem' = SetRelationships(Relationships, new), file' = file
  PROVE  /\ Backlinks(Relationships)'
              = {b \in Backlinks(Relationships) : b[1] \notin kps}
                  \cup {b \in kps \X ChildIds : b[2] \in ChildIdsOf(new[b[1]])}
         /\ Backlinks(file)' = Backlinks(file)
<1>1. Relationships \in Data /\ IndexMatches(Relationships)
  BY RelationshipsFacts
<1>2. Relationships' = SetRelationships(Relationships, new)
  BY <1>1, SetRelationshipsType, NotLoadedAssumption DEF Relationships
<1>3. /\ Backlinks(Relationships)' = Backlinks(SetRelationships(Relationships, new))
      /\ Backlinks(file)' = Backlinks(file)
  BY <1>2 DEF Backlinks
<1> QED
  BY <1>1, <1>3, SetRelationshipsBacklinks

LEMMA NextRefines ==
  ASSUME IInv, [Next]_vars
  PROVE  [Registry!Next]_<<Backlinks(Relationships), Backlinks(file), call>>
<1> DEFINE R == Relationships
<1>1. ASSUME NEW p \in Parents, NEW f \in Fields, NEW ids \in SUBSET ChildIds,
             NEW l \in Locales, Add(p, f, ids, l)
      PROVE  Registry!Next
  <2> DEFINE kp == KeyPathOf(p, f, {[id |-> i, locale |-> l] : i \in ids})
  <2>1. kp \in KeyPath
    BY KeyPathOfType
  <2>2. mem' = SetRelationships(R, [k \in {kp} |-> ids]) /\ file' = file
    <3> DEFINE cs == {[id |-> i, locale |-> l] : i \in ids}
    <3>l. l \in Locales \cup {NoLocale}
      OBVIOUS
    <3>1. {c.id : c \in cs} = ids
      BY <3>l, KeyPathOfType
    <3>2. mem' = AppendRelationship(R, p, f, cs) /\ file' = file
      BY <1>1 DEF Add
    <3> QED
      BY <3>1, <3>2 DEF AppendRelationship
  <2>c. call' = [op |-> "record", at |-> kp, children |-> ids]
    BY <1>1 DEF Add
  <2> HIDE DEF kp
  <2> DEFINE new == [k \in {kp} |-> ids]
  <2>3. {kp} \in SUBSET KeyPath /\ new \in Assignments({kp})
    BY <2>1 DEF Assignments
  <2>4. /\ Backlinks(R)' = {b \in Backlinks(R) : b[1] \notin {kp}}
                             \cup {b \in {kp} \X ChildIds : b[2] \in ChildIdsOf(new[b[1]])}
        /\ Backlinks(file)' = Backlinks(file)
    BY <2>2, <2>3, AssignmentRefines
  <2>5. {b \in {kp} \X ChildIds : b[2] \in ChildIdsOf(new[b[1]])} = {kp} \X ids
    BY IdentifierAssumption DEF ChildIdsOf
  <2>6. Registry!Record(kp, ids)
    BY <2>4, <2>5, <2>c DEF Registry!Record
  <2> QED
    BY <2>1, <2>6 DEF Registry!Next
<1>2. ASSUME NEW p \in Parents, Delete(p) PROVE Registry!Next
  <2> DEFINE kps == {kp \in KeyPath : kp.parent \in {p} /\ R.rels[kp] # NoRelationship}
             new == [kp \in kps |-> NoRelationship]
  <2>1. mem' = SetRelationships(R, new) /\ file' = file
    BY <1>2 DEF Delete, DeleteParents
  <2>2. kps \in SUBSET KeyPath /\ new \in Assignments(kps)
    BY DEF Assignments
  <2>3. /\ Backlinks(R)' = {b \in Backlinks(R) : b[1] \notin kps}
                             \cup {b \in kps \X ChildIds : b[2] \in ChildIdsOf(new[b[1]])}
        /\ Backlinks(file)' = Backlinks(file)
    BY <2>1, <2>2, AssignmentRefines
  <2>4. {b \in kps \X ChildIds : b[2] \in ChildIdsOf(new[b[1]])} = {}
    BY DEF ChildIdsOf
  <2>5. \A b \in Backlinks(R) : b[1] \in kps <=> b[1].parent = p
    BY RelationshipsFacts DEF Backlinks, IndexMatches, ChildIdsOf
  <2>6. Registry!ForgetParent(p)
    BY <1>2, <2>3, <2>4, <2>5 DEF Delete, Registry!ForgetParent, ParentOfKeyPath
  <2> QED
    BY <2>6 DEF Registry!Next
<1>3. ASSUME NEW p \in Parents, NEW f \in Fields, NEW l \in Locales,
             DeleteOne(p, f, l)
      PROVE  Registry!Next
  <2> DEFINE kp == [parent |-> p, field |-> f, locale |-> l]
             new == [k \in {kp} |-> NoRelationship]
  <2>1. kp \in KeyPath
    BY DEF KeyPath
  <2>2. mem' = SetRelationships(R, new) /\ file' = file
    BY <1>3 DEF DeleteOne, DeleteField
  <2>c. call' = [op |-> "record", at |-> kp, children |-> {}]
    BY <1>3 DEF DeleteOne
  <2> HIDE DEF kp
  <2>3. {kp} \in SUBSET KeyPath /\ new \in Assignments({kp})
    BY <2>1 DEF Assignments
  <2>4. /\ Backlinks(R)' = {b \in Backlinks(R) : b[1] \notin {kp}}
                             \cup {b \in {kp} \X ChildIds : b[2] \in ChildIdsOf(new[b[1]])}
        /\ Backlinks(file)' = Backlinks(file)
    BY <2>2, <2>3, AssignmentRefines
  <2>5. {b \in {kp} \X ChildIds : b[2] \in ChildIdsOf(new[b[1]])} = {kp} \X {}
    BY DEF ChildIdsOf
  <2>6. Registry!Record(kp, {})
    BY <2>4, <2>5, <2>c DEF Registry!Record
  <2> QED
    BY <2>1, <2>6 DEF Registry!Next
<1>4. CASE Save
  <2>1. Backlinks(R)' = Backlinks(R) /\ Backlinks(file)' = Backlinks(R)
    BY <1>4 DEF Save, Relationships, Backlinks
  <2> QED
    BY <1>4, <2>1 DEF Save, Registry!Next, Registry!Save
<1>5. CASE Wipe
  <2>1. Backlinks(R)' \in {Backlinks(R), {}} /\ Backlinks(file)' = {}
    BY <1>5, EmptyDataFacts DEF Wipe, Relationships, Backlinks
  <2> QED
    BY <1>5, <2>1 DEF Wipe, Registry!Next, Registry!Erase
<1>6. CASE Restart
  <2>1. Backlinks(R)' \in {Backlinks(file), {}} /\ Backlinks(R)' = Backlinks(file)'
    BY <1>6, EmptyDataFacts DEF Restart, Relationships, Backlinks
  <2> QED
    BY <1>6, <2>1 DEF Restart, Registry!Next, Registry!Restart
<1>7. CASE UNCHANGED vars
  BY <1>7 DEF vars, Relationships, Backlinks
<1> QED
  BY <1>1, <1>2, <1>3, <1>4, <1>5, <1>6, <1>7 DEF Next

\* Lookups through the index see what the registry records: nothing replaced,
\* deleted or lost with an unsaved process comes back, nothing recorded since
\* is missed (RelationshipCache.swift:29-83, RelationshipData.swift:41-99).
THEOREM CacheImplementsRegistry == Spec => RegistrySpec
<1>1. Init => Registry!Init
  BY EmptyDataFacts DEF Init, Registry!Init, Relationships
<1>2. IInv /\ [Next]_vars => [Registry!Next]_<<Backlinks(Relationships), Backlinks(file), call>>
  BY NextRefines
<1> QED
  BY <1>1, <1>2, InvariantHolds, PTL DEF Spec, RegistrySpec, Registry!Spec
=============================================================================
