---------------------------- MODULE Identifiers ----------------------------
(***************************************************************************)
(* How the library writes "this resource in this locale" as one string.    *)
(*                                                                         *)
(* A string is a non-empty sequence of segments, the pieces between its    *)
(* underscores: "a_b_en-US" is <<"a", "b", "en-US">>.  Ids of Contentful   *)
(* resources may contain underscores, locale codes may not, so an id is    *)
(* any non-empty sequence and a locale code is a single segment.           *)
(***************************************************************************)
EXTENDS Sequences, Integers

CONSTANTS
    Segments,       \* what an underscore-free piece of a string can be
    NoLocale        \* localeCode == nil

ASSUME NoLocaleAssumption == NoLocale \notin Segments

\* A string: an id, or an id and a locale code joined by an underscore.
Text == Seq(Segments) \ {<<>>}

\* Relationship.LocaleCode, a String?.
LocaleCode == Segments \cup {NoLocale}

\* RelationshipChildId: the id of a child and the locale it is linked in.
ChildId == [id : Text, locale : LocaleCode]

\* RelationshipChildId.init(id:localeCode:), the raw value it stores.
RawValue(child) ==
    IF child.locale = NoLocale THEN child.id ELSE Append(child.id, child.locale)

\* RelationshipChildId.init(rawValue:): whatever follows the last underscore
\* is taken for a locale code.
Parse(raw) ==
    IF Len(raw) = 1
    THEN [id |-> raw, locale |-> NoLocale]
    ELSE [id |-> SubSeq(raw, 1, Len(raw) - 1), locale |-> raw[Len(raw)]]

\* DataCache.cacheKey(for:localeCode:), and the key under which an entry's
\* unresolved links are kept.
CacheKey(id, locale) == Append(id, locale)

(***************************************************************************)
(* The keys the other modules use are records [id, locale]; CacheKey and   *)
(* RawValue being injective on localized ids is what makes that exact      *)
(* (theorems CacheKeyInjective and RoundTrip of RelationshipDataProofs).   *)
(***************************************************************************)
=============================================================================
