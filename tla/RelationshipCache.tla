-------------------------- MODULE RelationshipCache --------------------------
(***************************************************************************)
(* RelationshipCache and the RelationshipsManager that wraps it: the       *)
(* relationship data in memory, loaded from its file when first used, and  *)
(* the file.  Every operation runs on the queue of the persistence store,  *)
(* so each is one step, save for a process that ends inside a write.       *)
(***************************************************************************)
EXTENDS RelationshipData

CONSTANT NotLoaded      \* the lazy property has not been read yet

ASSUME NotLoadedAssumption == NotLoaded \notin Data

VARIABLES
    mem,        \* RelationshipCache.relationships
    file,       \* what loadFromCache would return: EmptyData when the file
                \* is missing or cannot be decoded
    call        \* the operation last performed, which properties compare
                \* with what became of the data

vars == <<mem, file, call>>

Call == [op : {"record"}, at : KeyPath, children : SUBSET ChildIds]
          \cup [op : {"forget"}, parent : Parents]
          \cup [op : {"save", "erase", "restart"}]

TypeOK ==
    /\ mem \in {NotLoaded} \cup Data
    /\ file \in Data
    /\ call \in Call

Init == mem = NotLoaded /\ file = EmptyData /\ call = [op |-> "restart"]

\* The lazy property: its value once it has been read.
Relationships == IF mem = NotLoaded THEN file ELSE mem

\* cacheToOneRelationship and cacheToManyRelationship: the children of one
\* field are all linked in the locale of their parent.
Add(parent, field, ids, locale) ==
    LET children == {[id |-> i, locale |-> locale] : i \in ids}
    IN  /\ mem' = AppendRelationship(Relationships, parent, field, children)
        /\ call' = [op |-> "record", at |-> KeyPathOf(parent, field, children), children |-> ids]
        /\ UNCHANGED file

Delete(parent) ==
    /\ mem' = DeleteParents(Relationships, {parent})
    /\ call' = [op |-> "forget", parent |-> parent]
    /\ UNCHANGED file

DeleteOne(parent, field, locale) ==
    /\ mem' = DeleteField(Relationships, parent, field, locale)
    /\ call' = [op |-> "record", children |-> {},
                at |-> [parent |-> parent, field |-> field, locale |-> locale]]
    /\ UNCHANGED file

\* Variant: what has not been read from the file is not written to it.
SaveUnread ==
    /\ mem' = mem
    /\ file' = mem
    /\ call' = [op |-> "save"]

\* save(): encoding the property loads it; the file is written in place.
Save ==
    /\ mem' = Relationships
    /\ file' = Relationships
    /\ call' = [op |-> "save"]

\* wipe(): removes the file and leaves the property alone.
Wipe ==
    /\ file' = EmptyData
    /\ call' = [op |-> "erase"]
    /\ UNCHANGED mem

\* The process ends, possibly inside save()'s non-atomic write.
Restart ==
    /\ mem' = NotLoaded
    /\ file' \in {file, EmptyData}
    /\ call' = [op |-> "restart"]

\* SynchronizationManager always names the locale of the entry.
Next ==
    \/ \E p \in Parents, f \in Fields, ids \in SUBSET ChildIds, l \in Locales : Add(p, f, ids, l)
    \/ \E p \in Parents : Delete(p)
    \/ \E p \in Parents, f \in Fields, l \in Locales : DeleteOne(p, f, l)
    \/ Save
    \/ Wipe
    \/ Restart

Spec == Init /\ [][Next]_vars

-----------------------------------------------------------------------------
\* The index agrees with the relationships, in memory and in the file: a key
\* path is listed under a child exactly when the relationship stored there has
\* that child, whatever was replaced, deleted or reloaded in between.
IndexExact ==
    /\ IndexMatches(file)
    /\ mem # NotLoaded => IndexMatches(mem)

\* The backlinks an index answers with, one pair per listed key path.
Backlinks(d) == {b \in KeyPath \X ChildIds : b[1] \in d.byChild[b[2]]}

ParentOfKeyPath(kp) == kp.parent

Registry == INSTANCE RelationshipRegistry WITH
    KeyPaths <- KeyPath,
    Child    <- ChildIds,
    ParentOf <- ParentOfKeyPath,
    Owners   <- Parents,
    recorded <- Backlinks(Relationships),
    saved    <- Backlinks(file)

\* Looked at through its index alone, the cache is the registry: after every
\* operation, the key paths listed under a child are the ones recorded and not
\* replaced or forgotten since, and a restart brings back the last save or
\* nothing (RelationshipCache.swift:29-83, RelationshipData.swift:41-99).
RegistrySpec == Registry!Spec
=============================================================================
