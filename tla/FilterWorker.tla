---------------------------- MODULE FilterWorker ----------------------------
(***************************************************************************)
(* The worker process: its main loop (worker.cpp MainLoop, proc_packets.c   *)
(* pakage_processing) against the detached policy threads                    *)
(* (requestPolicyFromController) that replace the policy and clear the two   *)
(* verdict caches while packets are being decided.                           *)
(*                                                                           *)
(* policy_mutex protects current_policy only. The main loop copies the       *)
(* policy once per iteration and then decides up to Burst packets with the   *)
(* copy; each miss spans three steps (lookup, Classify call, insert) between *)
(* which a policy thread may clear the caches.                               *)
(*                                                                           *)
(* A policy is abstracted to the set of keys its block lists name and to a   *)
(* ghost generation; what else the filter may answer is a free choice        *)
(* (PolicyFilter has the rules). Time is abstracted to the choice whether a  *)
(* cached entry is found expired. Counters, packet buffers and MAC rewriting *)
(* change nothing these steps depend on.                                     *)
(***************************************************************************)
EXTENDS Naturals, FiniteSets

CONSTANTS Ips, Domains,  \* the keys of the two caches
          Pollers,       \* slots for detached policy threads
          Nil,           \* no holder, no key
          Burst,         \* packets taken in one iteration: pkts[32]
          MaxGen         \* bound: policies installed in one run

Keys == Ips \cup Domains

ASSUME WorkerAssumption ==
  /\ IsFiniteSet(Ips) /\ IsFiniteSet(Domains) /\ Ips \cap Domains = {}
  /\ Nil \notin Pollers /\ Nil \notin Keys
  /\ Burst \in Nat \ {0}
  /\ MaxGen \in Nat

VARIABLES
  current,  \* Worker::current_policy
  mutex,    \* policy_mutex: its holder among Pollers, or Nil
  enable,   \* Worker::enable
  poller,   \* where each policy thread is
  cache,    \* ip_hash and dns_hash
  up,       \* the tables that exist
  pc,       \* where the main thread is
  local,    \* MainLoop's local_policy
  left,     \* packets of this burst not yet finished
  key,      \* what the packet in hand is looked up by
  verdict,  \* the decision on the packet in hand
  stop,     \* stop_flag
  done,     \* ghost: packets of this iteration finished so far
  swept     \* ghost: a policy update has cleared the caches in this run

mainVars == <<pc, local, left, key, verdict, done>>
vars == <<current, mutex, enable, poller, cache, up, mainVars, stop, swept>>

None == [send |-> FALSE, gen |-> 0, open |-> FALSE, set |-> FALSE]

\* gen: the generation of the policy that decided, 0 for a verdict read back
\* from SQLite; open: let through because the classification failed.
Entry(send, gen, open) == [send |-> send, gen |-> gen, open |-> open, set |-> TRUE]
Entries == [send : BOOLEAN, gen : Nat, open : BOOLEAN, set : BOOLEAN]
Policies == [blocked : SUBSET Keys, gen : Nat]

Table(k) == IF k \in Ips THEN "ip" ELSE "dns"

TypeOK ==
  /\ current \in Policies /\ local \in Policies
  /\ mutex \in Pollers \cup {Nil}
  /\ enable \in BOOLEAN /\ stop \in BOOLEAN
  /\ poller \in [Pollers -> {"idle", "asking", "locking", "clearIp", "clearDns"}]
  /\ cache \in [Keys -> Entries]
  /\ up \subseteq {"ip", "dns"}
  /\ pc \in {"ctor", "init", "top", "lock", "rx", "packet", "classify", "add", "after", "exit", "done"}
  /\ left \in Nat /\ done \in Nat /\ swept \in BOOLEAN
  /\ key \in Keys \cup {Nil}
  /\ verdict \in Entries

\* struct BASE_POLICY current_policy has no initialiser: its lists start as
\* whatever the memory holds.
Init ==
  /\ current \in [blocked : SUBSET Keys, gen : {1}]
  /\ mutex = Nil
  /\ enable = TRUE
  /\ poller = [p \in Pollers |-> "idle"]
  /\ cache = [k \in Keys |-> None]
  /\ up = {}
  /\ pc = "ctor"
  /\ local = current
  /\ left = 0
  /\ key = Nil
  /\ verdict = None
  /\ stop = FALSE
  /\ done = 0
  /\ swept = FALSE

-----------------------------------------------------------------------------
(* Start: the constructor asks for a policy, then initDPDK creates the       *)
(* tables and reads back what an earlier run saved.                          *)

\* clear_ip_cache and clear_dns_cache return at once: there are no tables yet.
ConstructorPoll ==
  /\ pc = "ctor"
  /\ pc' = "init"
  /\ \/ UNCHANGED <<current, enable>>                       \* no answer
     \/ enable' \in BOOLEAN /\ UNCHANGED current            \* POLICY_UNCHANGED
     \/ /\ enable' \in BOOLEAN                              \* POLICY_PROVIDED
        /\ current.gen < MaxGen
        /\ \E b \in SUBSET Keys : current' = [blocked |-> b, gen |-> current.gen + 1]
  /\ UNCHANGED <<mutex, poller, cache, up, local, left, key, verdict, stop, done, swept>>

Restored == {None} \cup {Entry(s, 0, FALSE) : s \in BOOLEAN}

InitCaches ==
  /\ pc = "init"
  /\ pc' = "top"
  /\ up' \in SUBSET {"ip", "dns"}
  /\ cache' \in [Keys -> Restored]
  /\ \A k \in Keys : Table(k) \notin up' => cache'[k] = None
  /\ UNCHANGED <<current, mutex, enable, poller, local, left, key, verdict, stop, done, swept>>

\* initDPDK throws before it gets to the caches: main leaves through ~Worker.
InitFails ==
  /\ pc = "init"
  /\ pc' = "exit"
  /\ UNCHANGED <<current, mutex, enable, poller, cache, up, local, left, key, verdict, stop, done, swept>>

-----------------------------------------------------------------------------
(* A policy thread.                                                          *)

\* enable is stored before the mutex is taken.
ReceiveAnswer(p) ==
  /\ poller[p] = "asking"
  /\ \/ poller' = [poller EXCEPT ![p] = "idle"] /\ UNCHANGED enable
     \/ /\ enable' \in BOOLEAN
        /\ \E s \in {"idle", "locking"} : poller' = [poller EXCEPT ![p] = s]
  /\ UNCHANGED <<current, mutex, cache, up, mainVars, stop, swept>>

InstallPolicy(p) ==
  /\ poller[p] = "locking"
  /\ mutex = Nil
  /\ current.gen < MaxGen
  /\ mutex' = p
  /\ \E b \in SUBSET Keys : current' = [blocked |-> b, gen |-> current.gen + 1]
  /\ poller' = [poller EXCEPT ![p] = "clearIp"]
  /\ UNCHANGED <<enable, cache, up, mainVars, stop, swept>>

Cleared(K, t) == [k \in Keys |-> IF k \in K /\ t \in up THEN None ELSE cache[k]]

\* Mutant: the IP cache is not cleared.
ClearIpCacheSkipped(p) ==
  /\ poller[p] = "clearIp"
  /\ poller' = [poller EXCEPT ![p] = "clearDns"]
  /\ UNCHANGED <<current, mutex, enable, cache, up, mainVars, stop, swept>>

ClearIpCache(p) ==
  /\ poller[p] = "clearIp"
  /\ cache' = Cleared(Ips, "ip")
  /\ poller' = [poller EXCEPT ![p] = "clearDns"]
  /\ UNCHANGED <<current, mutex, enable, up, mainVars, stop, swept>>

\* Mutant: the mutex is not released.
ClearDnsCacheKeepsMutex(p) ==
  /\ poller[p] = "clearDns"
  /\ cache' = Cleared(Domains, "dns")
  /\ poller' = [poller EXCEPT ![p] = "idle"]
  /\ swept' = TRUE
  /\ UNCHANGED <<current, mutex, enable, up, mainVars, stop>>

\* The end of the lock_guard's scope: the mutex is released.
ClearDnsCache(p) ==
  /\ poller[p] = "clearDns"
  /\ cache' = Cleared(Domains, "dns")
  /\ mutex' = Nil
  /\ poller' = [poller EXCEPT ![p] = "idle"]
  /\ swept' = TRUE
  /\ UNCHANGED <<current, enable, up, mainVars, stop>>

-----------------------------------------------------------------------------
(* The main thread.                                                          *)

Signal ==
  /\ ~stop
  /\ stop' = TRUE
  /\ UNCHANGED <<current, mutex, enable, poller, cache, up, mainVars, swept>>

EnterIteration ==
  /\ pc = "top"
  /\ pc' = IF stop THEN "exit" ELSE "lock"
  /\ UNCHANGED <<current, mutex, enable, poller, cache, up, local, left, key, verdict, stop, done, swept>>

\* Mutant: the block lists are left out of the copy.
CopyPolicyPartly ==
  /\ pc = "lock"
  /\ mutex = Nil
  /\ local' = [local EXCEPT !.gen = current.gen]
  /\ done' = 0
  /\ pc' = "rx"
  /\ UNCHANGED <<current, mutex, enable, poller, cache, up, left, key, verdict, stop, swept>>

\* Mutant: the loop goes on with the copy it has.
CopyPolicyNever ==
  /\ pc = "lock"
  /\ mutex = Nil
  /\ done' = 0
  /\ pc' = "rx"
  /\ UNCHANGED <<current, mutex, enable, poller, cache, up, local, left, key, verdict, stop, swept>>

CopyPolicy ==
  /\ pc = "lock"
  /\ mutex = Nil
  /\ local' = current
  /\ done' = 0
  /\ pc' = "rx"
  /\ UNCHANGED <<current, mutex, enable, poller, cache, up, left, key, verdict, stop, swept>>

\* With filtering off every packet of the burst is forwarded undecided.
ReceiveBurst ==
  /\ pc = "rx"
  /\ \E n \in 0..Burst :
       IF enable /\ n > 0 THEN left' = n /\ pc' = "packet"
                          ELSE left' = 0 /\ pc' = "after"
  /\ UNCHANGED <<current, mutex, enable, poller, cache, up, local, key, verdict, stop, done, swept>>

Finish ==
  /\ left' = left - 1
  /\ done' = done + 1
  /\ key' = Nil
  /\ verdict' = None
  /\ pc' = IF left = 1 THEN "after" ELSE "packet"

\* The packet is for an exception port, or its lookup fails with an error other
\* than -ENOENT (there is no table), or finds a verdict that has not expired: the
\* packet is forwarded or dropped and neither policy nor caches are touched.
DecideAtOnce ==
  /\ pc = "packet"
  /\ Finish
  /\ UNCHANGED <<current, mutex, enable, poller, cache, up, local, stop, swept>>

\* -ENOENT: nothing cached, or an expired entry, which the lookup removes.
LookupMiss(k) ==
  /\ pc = "packet"
  /\ Table(k) \in up
  /\ \/ ~cache[k].set /\ UNCHANGED cache
     \/ cache[k].set /\ cache' = [cache EXCEPT ![k] = None]
  /\ key' = k
  /\ pc' = "classify"
  /\ UNCHANGED <<current, mutex, enable, poller, up, local, left, verdict, stop, done, swept>>

\* worker_classify and the filter, then package_sending_decision. When the call
\* fails the packet is sent without a look at the policy.
Classify ==
  /\ pc = "classify"
  /\ \/ verdict' = Entry(TRUE, local.gen, TRUE)
     \/ \E s \in BOOLEAN : /\ key \in local.blocked => ~s
                           /\ verdict' = Entry(s, local.gen, FALSE)
  /\ pc' = "add"
  /\ UNCHANGED <<current, mutex, enable, poller, cache, up, local, left, key, stop, done, swept>>

\* add_to_ip_cache, add_to_dns_cache; an allocation or the table may refuse.
AddToCache ==
  /\ pc = "add"
  /\ \/ cache' = [cache EXCEPT ![key] = verdict]
     \/ UNCHANGED cache
  /\ Finish
  /\ UNCHANGED <<current, mutex, enable, poller, up, local, stop, swept>>

\* Traffic back to port_in, timers, and, when the interval has passed, a new
\* policy thread.
EndIteration ==
  /\ pc = "after"
  /\ pc' = "top"
  /\ \/ UNCHANGED poller
     \/ \E p \in Pollers : poller[p] = "idle" /\ poller' = [poller EXCEPT ![p] = "asking"]
  /\ UNCHANGED <<current, mutex, enable, cache, up, local, left, key, verdict, stop, done, swept>>

\* ~Worker: save both caches, then free_dns_cache and free_ip_cache.
Destructor ==
  /\ pc = "exit"
  /\ pc' = "done"
  /\ up' = {}
  /\ cache' = [k \in Keys |-> None]
  /\ UNCHANGED <<current, mutex, enable, poller, local, left, key, verdict, stop, done, swept>>

-----------------------------------------------------------------------------
Main == \/ ConstructorPoll \/ InitCaches \/ InitFails
        \/ EnterIteration \/ CopyPolicy \/ ReceiveBurst \/ DecideAtOnce \/ (\E k \in Keys : LookupMiss(k))
        \/ Classify \/ AddToCache \/ EndIteration \/ Destructor

PolicyThread(p) == ReceiveAnswer(p) \/ InstallPolicy(p) \/ ClearIpCache(p) \/ ClearDnsCache(p)

Next == Main \/ (\E p \in Pollers : PolicyThread(p)) \/ Signal

Spec == Init /\ [][Next]_vars

\* Both kinds of thread are scheduled; nothing obliges a signal to arrive.
FairSpec == Spec /\ WF_vars(Main) /\ \A p \in Pollers : WF_vars(PolicyThread(p))

-----------------------------------------------------------------------------
(* Properties.                                                               *)

Stale(K) == {k \in K : cache[k].set /\ cache[k].gen # current.gen}

\* A policy update leaves at most one burst of old verdicts behind. Clearing
\* the caches (worker.cpp:278-279) cannot reach the packets the main loop is
\* deciding with its old copy of the policy, so verdicts of the replaced policy
\* do enter the cleared caches; but never more than Burst of them, over both
\* caches together, because the copy is renewed before the next burst and the
\* caches are cleared before the mutex is released. Verdicts read back from
\* SQLite at start are outside the bound until the first update.
BoundedStaleness ==
  mutex = Nil /\ swept => Cardinality(Stale(Keys)) <= Burst

\* A verdict cached under the policy in force agrees with its block lists: a
\* key they name is never cached as "send", except by the fail-open path of a
\* failed classification (proc_packets.c:184, 250).
FreshVerdictsObeyPolicy ==
  \A k \in Keys :
    cache[k].set /\ cache[k].gen = current.gen /\ cache[k].send /\ ~cache[k].open
      => k \notin current.blocked

\* A policy that was installed reaches the packets: the main loop goes on to
\* decide with it or with a newer one, unless the worker is stopping.
PolicyTakesEffect ==
  \A n \in 1..MaxGen : current.gen = n ~> local.gen >= n \/ pc = "done"

\* A signal ends the worker, whatever the policy threads are doing.
StopsOnSignal == stop ~> pc = "done"
=============================================================================
