--------------------------- MODULE MCVerdictCache ---------------------------
(* VerdictCache for TLC; the run checks liveness, so no symmetry is used.    *)
EXTENDS VerdictCache
=============================================================================
