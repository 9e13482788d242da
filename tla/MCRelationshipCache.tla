------------------------ MODULE MCRelationshipCache ------------------------
(* Two parents, one link field, a child whose id contains an underscore    *)
(* that reads like another child in a locale, and one locale.              *)
EXTENDS RelationshipCache

CONSTANTS p, q, x, en, links

MCSegments == {p, q, x, en}
MCParents == {<<p>>, <<q>>}
MCFields == {links}
MCChildIds == {<<x>>, <<x, en>>}
MCLocales == {en}
=============================================================================
