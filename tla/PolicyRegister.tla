--------------------------- MODULE PolicyRegister ---------------------------
(***************************************************************************)
(* What policy distribution promises: the controller is one register that   *)
(* holds a configuration and its version, a poll reads the two together in  *)
(* one step, and a worker's copy only changes to a value some poll read.    *)
(* A read value may be applied late, after a newer one, or never.           *)
(***************************************************************************)
EXTENDS Naturals

CONSTANTS Workers, Threads, Configs, EmptyConfig, NoPolicy

VARIABLES reg,   \* [cfg, ver]: the configuration in force
          held,  \* held[<<w, t>>]: what a poll has read and not yet applied, or Nothing
          copy   \* copy[w]: what the worker enforces

vars == <<reg, held, copy>>

Calls   == Workers \X Threads
Nothing == [cfg |-> NoPolicy, ver |-> 0]
Fresh   == [cfg |-> EmptyConfig, ver |-> 0]

Init ==
  /\ reg = Fresh
  /\ held = [c \in Calls |-> Nothing]
  /\ copy = [w \in Workers |-> Nothing]

Write(c) ==
  /\ reg' = [cfg |-> c, ver |-> reg.ver + 1]
  /\ UNCHANGED <<held, copy>>

Read(c) ==
  /\ held[c] = Nothing
  /\ held' = [held EXCEPT ![c] = reg]
  /\ UNCHANGED <<reg, copy>>

Apply(c) ==
  /\ held[c] # Nothing
  /\ copy' = [copy EXCEPT ![c[1]] = held[c]]
  /\ held' = [held EXCEPT ![c] = Nothing]
  /\ UNCHANGED reg

Drop(c) ==
  /\ held' = [held EXCEPT ![c] = Nothing]
  /\ UNCHANGED <<reg, copy>>

\* The controller restarts empty; the reads it was answering are lost.
Reset ==
  /\ reg' = Fresh
  /\ \E lost \in SUBSET Calls : held' = [c \in Calls |-> IF c \in lost THEN Nothing ELSE held[c]]
  /\ UNCHANGED copy

\* A worker restarts with nothing, and with it every read it was waiting for.
Forget(w) ==
  /\ copy' = [copy EXCEPT ![w] = Nothing]
  /\ held' = [c \in Calls |-> IF c[1] = w THEN Nothing ELSE held[c]]
  /\ UNCHANGED reg

Next ==
  \/ \E c \in Configs : Write(c)
  \/ \E c \in Calls : Read(c) \/ Apply(c) \/ Drop(c)
  \/ Reset
  \/ \E w \in Workers : Forget(w)

Spec == Init /\ [][Next]_vars
=============================================================================
