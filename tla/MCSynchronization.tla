------------------------- MODULE MCSynchronization -------------------------
(* Entries e and g and asset a, each with one link field and one list       *)
(* field; e is the entry whose versions link to the others.  The runs pick  *)
(* the ids that exist, the versions of each, and what may happen to them.   *)
EXTENDS SynchronizationManager, TLC

CONSTANTS e, g, a, x, en, de, one, many, c1, c2

MCSegments == {e, g, a, x, en, de}
MCIds == {<<e>>, <<g>>, <<a>>}
MCParents == {<<e>>, <<g>>}
MCAssets == {<<a>>}
MCLocales == {en}

Links(o, m) == (one :> o) @@ (many :> m)
NoLinks == Links(NoValue, {})
Unlinked == {NoLinks}

BothFields == {one, many}
OneField == {one}
NothingRequired == {}
SourceNeedsLink == {<< <<e>>, one >>}

\* e links to the asset or to the other entry, to both in a list, or to none.
PageDrafts == (<<e>> :> {Links({<<a>>}, {<<a>>, <<g>>}), Links({<<g>>}, NotLink), NoLinks})
           @@ (<<g>> :> Unlinked) @@ (<<a>> :> Unlinked)

Sources == {<<e>>}

\* e may also link to x, which is never published to the app.
OpenIds == MCIds \cup {<<x>>}
OpenDrafts == (<<e>> :> PageDrafts[<<e>>] \cup {Links({<<x>>}, {<<a>>, <<x>>})}) @@ (<<x>> :> {}) @@ PageDrafts
OpenInitially == [id \in OpenIds |-> OpenDrafts[id] \cup {Unpublished}]
PageInitially == [OpenInitially EXCEPT ![<<e>>] = {Links({<<a>>}, {<<a>>, <<g>>}), Unpublished}]

\* Only e and the asset it links to, which may not be there at first.
PairIds == {<<e>>, <<a>>}
PairParents == {<<e>>}
PairDrafts == (<<e>> :> {Links({<<a>>}, {})}) @@ (<<a>> :> Unlinked)
PairInitially == [id \in PairIds |-> PairDrafts[id] \cup {Unpublished}]
PairPublished == PairDrafts

\* Only the entries; e links to g, or to nothing.
EntryIds == {<<e>>, <<g>>}
NoAssets == {}
LinkedDrafts == (<<e>> :> {Links({<<g>>}, {})}) @@ (<<g>> :> Unlinked)
LinkedPublished == LinkedDrafts
Target == {<<g>>}

\* Both entries link to the asset; only e is there from the start.
SharedDrafts == (<<e>> :> {Links({<<a>>}, {})}) @@ (<<g>> :> {Links({<<a>>}, {})}) @@ (<<a>> :> Unlinked)
SharedInitially == (<<e>> :> {Links({<<a>>}, {})}) @@ (<<g>> :> {Unpublished}) @@ (<<a>> :> {Unpublished})

TwoLocales == {en, de}
=============================================================================
