------------------------- MODULE MCCachePersistence -------------------------
(* Instances of CachePersistence for TLC; symmetry in the safety run only.   *)
EXTENDS CachePersistence, TLC

Symmetry == Permutations(Texts)
=============================================================================
