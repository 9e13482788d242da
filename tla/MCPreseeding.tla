----------------------------- MODULE MCPreseeding -----------------------------
(* The last release passes a later version to sync() than its seed has, the *)
(* others the default.                                                      *)
EXTENDS Preseeding

MCSyncVersion == [r \in Releases |-> IF \E s \in Releases : s > r THEN 1 ELSE r + 1]
=============================================================================
