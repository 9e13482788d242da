------------------------ MODULE RelationshipRegistry ------------------------
(***************************************************************************)
(* What the relationship backup promises, without its index, its laziness  *)
(* or its file format: a set of backlinks "child c is linked from key path *)
(* kp" and the copy of it that survives the process.                       *)
(***************************************************************************)
CONSTANTS
    KeyPaths,       \* where a field's links are recorded
    Owners,         \* entries that have link fields
    Child,          \* what may be linked to
    ParentOf(_)     \* the owner of a key path

VARIABLES
    recorded,       \* backlinks the running process goes by
    saved,          \* backlinks the next process will start from
    call            \* the operation last asked for, with its arguments

Init == recorded = {} /\ saved = {} /\ call = [op |-> "restart"]

\* A field's links replace the ones recorded under the same key path.
Record(kp, children) ==
    /\ call' = [op |-> "record", at |-> kp, children |-> children]
    /\ recorded' = {b \in recorded : b[1] # kp} \cup ({kp} \X children)
    /\ UNCHANGED saved

ForgetParent(p) ==
    /\ call' = [op |-> "forget", parent |-> p]
    /\ recorded' = {b \in recorded : ParentOf(b[1]) # p}
    /\ UNCHANGED saved

Save ==
    /\ call' = [op |-> "save"]
    /\ saved' = recorded
    /\ UNCHANGED recorded

\* Erasing the copy only; a process that has not read it yet starts empty.
Erase ==
    /\ call' = [op |-> "erase"]
    /\ recorded' \in {recorded, {}}
    /\ saved' = {}

\* A process that ends inside a save leaves nothing that can be read back.
Restart ==
    /\ call' = [op |-> "restart"]
    /\ saved' \in {saved, {}}
    /\ recorded' = saved'

Next ==
    \/ \E kp \in KeyPaths, children \in SUBSET Child : Record(kp, children)
    \/ \E p \in Owners : ForgetParent(p)
    \/ Save
    \/ Erase
    \/ Restart

Spec == Init /\ [][Next]_<<recorded, saved, call>>
=============================================================================
