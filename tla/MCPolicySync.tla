---------------------------- MODULE MCPolicySync ----------------------------
(* Instances of PolicySync for TLC. Workers and configurations are model     *)
(* values; the runs check liveness, so no symmetry is used.                  *)
EXTENDS PolicySync
=============================================================================
