---------------------------- MODULE MCTwoPhaseSync ----------------------------
(* Two resources in two locales; the app is configured for all of them and  *)
(* has its first phase store one.                                           *)
EXTENDS TwoPhaseSync, TLC

CONSTANTS a, b, en, de, c1, version

MCIds == {a, b}
MCDrafts == [id \in MCIds |-> {version}]
MCInitially == [id \in MCIds |-> {version, Unpublished}]
MCInitialSchemes == {{en}}
=============================================================================
