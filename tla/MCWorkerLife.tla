---------------------------- MODULE MCWorkerLife ----------------------------
(* WorkerLife with two machines: one whose cpu lines fit, one whose does not. *)
EXTENDS WorkerLife

TwoMachines == {<<TRUE, TRUE>>, <<TRUE, FALSE>>}
=============================================================================
