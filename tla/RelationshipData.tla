-------------------------- MODULE RelationshipData --------------------------
(***************************************************************************)
(* The value type RelationshipData: every relationship the library has     *)
(* seen, by key path, and an index from a child to the key paths of the    *)
(* relationships that contain it.                                          *)
(*                                                                         *)
(* Dictionaries are total functions: an absent relationship is             *)
(* NoRelationship, an absent index entry is {}.  A relationship is the set *)
(* of the ids of its children; its parent, field and locale are its key    *)
(* path.                                                                   *)
(***************************************************************************)
EXTENDS Identifiers, FiniteSets

CONSTANTS
    Parents,        \* ids of entries that may have links
    Fields,         \* names of their link fields
    ChildIds,       \* ids of resources that may be linked to
    Locales,        \* locale codes
    NoRelationship

ASSUME IdentifierAssumption ==
    /\ Parents \subseteq Text
    /\ ChildIds \subseteq Text
    /\ Locales \subseteq Segments
    /\ \A ids \in SUBSET ChildIds : ids # NoRelationship

\* RelationshipKeyPath; its fieldId "field,locale" or "field,-" is the pair.
KeyPath == [parent : Parents, field : Fields, locale : Locales \cup {NoLocale}]

Data == [rels    : [KeyPath -> {NoRelationship} \cup SUBSET ChildIds],
         byChild : [ChildIds -> SUBSET KeyPath]]

EmptyData == [rels    |-> [kp \in KeyPath |-> NoRelationship],
              byChild |-> [c \in ChildIds |-> {}]]

\* Relationship.localeCode: that of its first child, nil when it has none.
LocaleOf(children) ==
    IF children = {} THEN NoLocale ELSE (CHOOSE c \in children : TRUE).locale

KeyPathOf(parent, field, children) ==
    [parent |-> parent, field |-> field, locale |-> LocaleOf(children)]

ChildIdsOf(rel) == IF rel = NoRelationship THEN {} ELSE rel

\* Variant: the children a field no longer has stay in the index.
SetRelationshipsAdding(d, new) ==
    [rels    |-> [kp \in KeyPath |-> IF kp \in DOMAIN new THEN new[kp] ELSE d.rels[kp]],
     byChild |-> [c \in ChildIds |->
        d.byChild[c] \cup {kp \in DOMAIN new : c \in ChildIdsOf(new[kp])}]]

\* setRelationship(new[kp], for: kp) for every kp of new, in any order: a call
\* touches only the index entries of its own key path.
SetRelationships(d, new) ==
    [rels    |-> [kp \in KeyPath |-> IF kp \in DOMAIN new THEN new[kp] ELSE d.rels[kp]],
     byChild |-> [c \in ChildIds |->
        LET has(kp) == c \in ChildIdsOf(new[kp])
            removed == {kp \in DOMAIN new : c \in ChildIdsOf(d.rels[kp]) /\ ~has(kp)}
        IN  (d.byChild[c] \ removed) \cup {kp \in DOMAIN new : has(kp)}]]

\* append(relationship)
AppendRelationship(d, parent, field, children) ==
    SetRelationships(d, [kp \in {KeyPathOf(parent, field, children)} |-> {c.id : c \in children}])

\* delete(parentId:), for each of the parents
DeleteParents(d, parents) ==
    SetRelationships(d,
        [kp \in {k \in KeyPath : k.parent \in parents /\ d.rels[k] # NoRelationship}
            |-> NoRelationship])

\* Variant: the locale is left out of the key path.
DeleteFieldUnlocalized(d, parent, field, locale) ==
    SetRelationships(d,
        [kp \in {[parent |-> parent, field |-> field, locale |-> NoLocale]} |-> NoRelationship])

\* delete(parentId:fieldName:localeCode:)
DeleteField(d, parent, field, locale) ==
    SetRelationships(d,
        [kp \in {[parent |-> parent, field |-> field, locale |-> locale]} |-> NoRelationship])

\* relationships(for: child), as key paths: the index is asked for the raw
\* value of the child, and keeps nothing under strings that are no child id.
Lookup(d, child) ==
    IF RawValue(child) \in ChildIds
    THEN {kp \in d.byChild[RawValue(child)] : d.rels[kp] # NoRelationship}
    ELSE {}

(***************************************************************************)
(* What the index owes the relationships.                                  *)
(***************************************************************************)

IndexMatches(d) ==
    \A c \in ChildIds : d.byChild[c] = {kp \in KeyPath : c \in ChildIdsOf(d.rels[kp])}
=============================================================================
