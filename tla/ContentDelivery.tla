--------------------------- MODULE ContentDelivery ---------------------------
(***************************************************************************)
(* The sync endpoint of the Content Delivery API and the SDK's client, as  *)
(* far as SynchronizationManager depends on them.  External: no code of    *)
(* this repository; what is relied on is named at each definition.         *)
(*                                                                         *)
(* Time is the number of changes made to the space so far.                 *)
(***************************************************************************)
EXTENDS Integers, FiniteSets

CONSTANTS
    Ids,            \* ids of the entries and assets of the space
    Drafts,         \* [Ids -> the links a published version may have]
    Initially,      \* [Ids -> what may be published when the model starts]
    Unpublishable,  \* ids an editor may unpublish
    Unpublished,    \* in place of the links of a resource that is not published
    NoToken,        \* SyncSpace(limit:), a sync that starts from nothing
    Paging,         \* whether an answer may be cut into pages
    MaxChanges      \* bound: how often an editor changes the space

ASSUME DeliveryAssumption ==
    /\ MaxChanges \in Nat
    /\ Unpublishable \subseteq Ids
    /\ \A id \in Ids : Unpublished \notin Drafts[id]
    /\ \A id \in Ids : Initially[id] \subseteq Drafts[id] \cup {Unpublished}

VARIABLES
    server,         \* [Ids -> [at, links]]: the last change of each resource
    clock

Change == [at : Nat, links : {Unpublished} \cup UNION {Drafts[id] : id \in Ids}]

IsPublished(change) == change.links # Unpublished

\* A sync token stands for everything that changed up to a time, except for
\* the pages of that sync that are still to be fetched.
Token == [at : Nat, rest : SUBSET Ids]

ASSUME NoTokenAssumption == NoToken \notin Token

DeliveryTypeOK ==
    /\ clock \in 0 .. MaxChanges
    /\ server \in [Ids -> Change]
    /\ \A id \in Ids : server[id].at <= clock

DeliveryInit ==
    /\ clock = 0
    /\ server \in [Ids -> {[at |-> 0, links |-> l] : l \in UNION {Initially[id] : id \in Ids}}]
    /\ \A id \in Ids : server[id].links \in Initially[id]

SetResource(id, links) ==
    /\ clock < MaxChanges
    /\ clock' = clock + 1
    /\ server' = [server EXCEPT ![id] = [at |-> clock', links |-> links]]

Publish(id) == \E links \in Drafts[id] : SetResource(id, links)

Unpublish(id) == IsPublished(server[id]) /\ SetResource(id, Unpublished)

\* What a sync with a token still has to deliver: everything published, what
\* changed since the token, or the rest of the pages.
Remaining(token) ==
    IF token = NoToken      THEN {id \in Ids : IsPublished(server[id])}
    ELSE IF token.rest # {} THEN token.rest
    ELSE                         {id \in Ids : server[id].at > token.at}

Since(token) == IF token # NoToken /\ token.rest # {} THEN token.at ELSE clock

\* One answer: the items of a page as they are now (a resource that is not
\* published any more is a deletion) and the token of what comes after it.
Replies(token) ==
    {[items |-> [id \in page |-> server[id]],
      token |-> [at |-> Since(token), rest |-> Remaining(token) \ page]] :
        page \in {p \in SUBSET Remaining(token) :
                    p = Remaining(token) \/ (Paging /\ p # {})}}

IsReply(r) == \E page \in SUBSET Ids : r \in [items : [page -> Change], token : Token]

HasMorePages(r) == r.token.rest # {}

\* Resources of which a token does not claim to know the latest version.
Outstanding(token) ==
    IF token = NoToken THEN Ids
    ELSE token.rest \cup {id \in Ids : server[id].at > token.at}
=============================================================================
