------------------------------- MODULE Replica -------------------------------
(***************************************************************************)
(* What SynchronizationManager promises of the store, seen from outside: a *)
(* copy of the space that advances page by page, content and sync token in *)
(* one step, and that is saved as a whole.  Links, files, blocks of the    *)
(* queue and the steps of a block are left out.                            *)
(***************************************************************************)
EXTENDS ContentDelivery

CONSTANTS
    Persisted,      \* ids of the resources the app stores
    Locales,
    Calls,          \* calls of sync() that may be under way at once
    DbVersions,     \* dbVersion arguments an app may be built with
    Absent,         \* in place of the version of an object that is not stored
    None            \* no request, or no answer

VARIABLES
    held,           \* the store as the app sees it: content, token, version
    saved,          \* the store file
    asked,          \* [Calls -> the token of a request under way]
    answer          \* [Calls -> a page that is received and not applied yet]

copies == <<held, saved>>
requests == <<asked, answer>>
space == <<server, clock>>
vars == <<copies, requests, space>>

Key == [id : Ids, locale : Locales]

Empty == [content |-> [k \in Key |-> Absent], token |-> NoToken, version |-> 0]

NoRequests == [c \in Calls |-> None]

Init ==
    /\ DeliveryInit
    /\ held = Empty /\ saved = Empty
    /\ asked = NoRequests /\ answer = NoRequests

\* A request starts from the token of the store.
Request(c) ==
    /\ asked[c] = None /\ answer[c] = None
    /\ asked' = [asked EXCEPT ![c] = held.token]
    /\ UNCHANGED <<copies, answer, space>>

Respond(c) ==
    /\ asked[c] # None
    /\ \E r \in Replies(asked[c]) : answer' = [answer EXCEPT ![c] = r]
    /\ asked' = [asked EXCEPT ![c] = None]
    /\ UNCHANGED <<copies, space>>

GiveUp(c) ==
    /\ asked[c] # None
    /\ asked' = [asked EXCEPT ![c] = None]
    /\ UNCHANGED <<copies, answer, space>>

\* The content once these items are applied: published ones in these locales,
\* deletions in all.
Received(content, items, locales) ==
    [k \in Key |->
        IF k.id \notin DOMAIN items         THEN content[k]
        ELSE IF ~IsPublished(items[k.id])   THEN Absent
        ELSE IF k.id \in Persisted /\ k.locale \in locales THEN items[k.id].at
        ELSE content[k]]

\* A page and its token; the next page, if there is one, is asked for at once.
Apply(c, locales) ==
    /\ answer[c] # None
    /\ held' = [held EXCEPT !.content = Received(@, answer[c].items, locales),
                            !.token = answer[c].token]
    /\ answer' = [answer EXCEPT ![c] = None]
    /\ asked' = [asked EXCEPT ![c] = IF HasMorePages(answer[c]) THEN answer[c].token ELSE None]
    /\ UNCHANGED <<saved, space>>

Save == saved' = held /\ UNCHANGED <<held, requests, space>>

\* A store without version is given the app's.
Stamp(version) ==
    /\ held.version = 0
    /\ held' = [held EXCEPT !.version = version]
    /\ UNCHANGED <<saved, requests, space>>

\* A store that is older than the app is replaced by an empty one.
Renew(version) ==
    /\ held.version \in 1 .. version - 1
    /\ held' = [Empty EXCEPT !.version = version]
    /\ saved' = Empty
    /\ UNCHANGED <<requests, space>>

\* What is not saved is given up.
Revert == held' = saved /\ UNCHANGED <<saved, requests, space>>

\* The process ends and starts again, perhaps while the store was replaced.
Restart ==
    /\ saved' = saved \/ (held.version # 0 /\ saved' = Empty)
    /\ held' = saved'
    /\ asked' = NoRequests /\ answer' = NoRequests
    /\ UNCHANGED space

Edit ==
    /\ \/ \E id \in Ids : Publish(id)
       \/ \E id \in Unpublishable : Unpublish(id)
    /\ UNCHANGED <<copies, requests>>

Next ==
    \/ \E c \in Calls : Request(c) \/ Respond(c) \/ GiveUp(c) \/ Apply(c, Locales)
    \/ \E v \in DbVersions : Stamp(v) \/ Renew(v)
    \/ Save \/ Revert \/ Restart \/ Edit

Spec == Init /\ [][Next]_vars
=============================================================================
