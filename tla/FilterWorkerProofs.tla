------------------------- MODULE FilterWorkerProofs -------------------------
(***************************************************************************)
(* Proofs for FilterWorker: a policy update leaves at most one burst of old  *)
(* verdicts in the caches, and a verdict cached under the policy in force    *)
(* agrees with its block lists, for any key sets, burst size and number of   *)
(* policy threads.                                                           *)
(***************************************************************************)
EXTENDS FilterWorker, FiniteSetTheorems, TLAPS

\* A policy thread has the mutex exactly while it replaces the policy and
\* clears the caches; meanwhile the main loop's copy is out of date.
MutexHeld ==
  /\ \A p \in Pollers : poller[p] \in {"clearIp", "clearDns"} <=> mutex = p
  /\ mutex # Nil => local.gen # current.gen

Generations ==
  /\ current.gen > 0
  /\ local.gen <= current.gen
  /\ local.gen = current.gen => local = current
  /\ \A k \in Keys : cache[k].set => cache[k].gen <= current.gen

\* The packets of one iteration.
BurstCount ==
  /\ done <= Burst
  /\ pc = "rx" => done = 0
  /\ pc \in {"packet", "classify", "add"} => left > 0 /\ done + left <= Burst

\* What the main thread has in hand, and where entries may be.
InHand ==
  /\ pc \in {"classify", "add"} => key \in Keys /\ Table(key) \in up
  /\ pc = "add" => /\ verdict.gen = local.gen
                   /\ verdict.send /\ ~verdict.open => key \notin local.blocked
  /\ \A k \in Keys : cache[k].set => Table(k) \in up

\* How many old verdicts there can be. With the copy out of date, those are the
\* ones this iteration inserted after the sweep.
OldVerdicts ==
  /\ \A p \in Pollers : poller[p] = "clearDns" => Cardinality(Stale(Ips)) <= done
  /\ mutex = Nil /\ swept =>
       Cardinality(Stale(Keys)) <= IF local.gen = current.gen THEN Burst ELSE done

\* Policy threads are started by the main loop only.
Starting ==
  pc \in {"ctor", "init"} =>
    /\ ~swept /\ mutex = Nil
    /\ \A p \in Pollers : poller[p] = "idle"
    /\ \A k \in Keys : ~cache[k].set

IInv == /\ TypeOK /\ Starting /\ MutexHeld /\ Generations /\ BurstCount /\ InHand
        /\ FreshVerdictsObeyPolicy /\ OldVerdicts

-----------------------------------------------------------------------------
(* Counting stale entries.                                                   *)

LEMMA StaleFinite ==
  ASSUME NEW K \in SUBSET Keys
  PROVE  IsFiniteSet(Stale(K)) /\ Cardinality(Stale(K)) \in Nat
<1>1. IsFiniteSet(Keys)
  BY ZenonT(60), WorkerAssumption, FS_Union DEF Keys
<1>2. IsFiniteSet(Stale(K))
  BY <1>1, FS_Subset DEF Stale
<1> QED
  BY <1>2, FS_CardinalityType

LEMMA NoMore ==
  ASSUME NEW A, NEW B, IsFiniteSet(B), A \subseteq B
  PROVE  Cardinality(A) <= Cardinality(B)
  BY FS_Subset

LEMMA OneMore ==
  ASSUME NEW A, NEW B, NEW x, IsFiniteSet(B), A \subseteq B \cup {x}
  PROVE  Cardinality(A) <= Cardinality(B) + 1
<1>0. Cardinality(B) \in Nat
  BY FS_CardinalityType
<1>1. IsFiniteSet(B \cup {x}) /\ Cardinality(B \cup {x}) <= Cardinality(B) + 1
  <2>1. CASE x \in B
    <3>1. IsFiniteSet(B \cup {x}) /\ Cardinality(B \cup {x}) = Cardinality(B)
      BY <2>1, FS_AddElement
    <3> QED
      BY <1>0, <3>1
  <2>2. CASE x \notin B
    <3>1. IsFiniteSet(B \cup {x}) /\ Cardinality(B \cup {x}) = Cardinality(B) + 1
      BY <2>2, FS_AddElement
    <3> QED
      BY <1>0, <3>1
  <2> QED
    BY <2>1, <2>2
<1>2. Cardinality(A) <= Cardinality(B \cup {x}) /\ Cardinality(A) \in Nat
      /\ Cardinality(B \cup {x}) \in Nat /\ Cardinality(B) \in Nat
  BY <1>1, FS_Subset, FS_CardinalityType
<1> QED
  BY <1>1, <1>2

LEMMA KeysSplit ==
  /\ Ips \subseteq Keys /\ Domains \subseteq Keys
  /\ \A k \in Ips : Table(k) = "ip"
  /\ \A k \in Domains : Table(k) = "dns"
  BY WorkerAssumption DEF Keys, Table

LEMMA NoneType == None \in Entries /\ ~None.set
  BY DEF None, Entries

LEMMA EntryType ==
  ASSUME NEW s \in BOOLEAN, NEW g \in Nat, NEW o \in BOOLEAN
  PROVE  /\ Entry(s, g, o) \in Entries
         /\ Entry(s, g, o).gen = g /\ Entry(s, g, o).send = s /\ Entry(s, g, o).open = o
  BY DEF Entry, Entries

\* Nothing old is added when the caches lose entries and the policy stays.
LEMMA StaleShrinks ==
  ASSUME NEW K \in SUBSET Keys, UNCHANGED current,
         \A k \in K : cache'[k].set => cache'[k] = cache[k]
  PROVE  Cardinality(Stale(K)') <= Cardinality(Stale(K)) /\ Cardinality(Stale(K)') \in Nat
<1>1. Stale(K)' \subseteq Stale(K)
  BY DEF Stale
<1>2. IsFiniteSet(Stale(K))
  BY StaleFinite
<1>3. IsFiniteSet(Stale(K)')
  BY <1>1, <1>2, FS_Subset
<1> QED
  BY <1>1, <1>2, <1>3, NoMore, FS_CardinalityType

-----------------------------------------------------------------------------
LEMMA InitIInv == Init => IInv
<1> SUFFICES ASSUME Init PROVE IInv
  OBVIOUS
<1>1. current.gen = 1 /\ current \in Policies /\ local = current
  BY DEF Init, Policies
<1>2. TypeOK
  BY ZenonT(60), <1>1, NoneType DEF Init, TypeOK
<1>3. MutexHeld /\ Generations /\ BurstCount
  BY <1>1, NoneType, WorkerAssumption DEF Init, MutexHeld, Generations, BurstCount
<1>4. Starting /\ InHand /\ FreshVerdictsObeyPolicy /\ OldVerdicts
  BY NoneType DEF Init, Starting, InHand, FreshVerdictsObeyPolicy, OldVerdicts
<1> QED
  BY <1>2, <1>3, <1>4 DEF IInv

\* A step that leaves the policy alone and keeps or drops cache entries.
LEMMA CacheKept ==
  ASSUME IInv, UNCHANGED <<current, mutex, local, swept>>,
         \A k \in Keys : cache'[k].set => cache'[k] = cache[k],
         done' \in Nat, done' >= done,
         \A p \in Pollers : poller'[p] = "clearDns" => poller[p] = "clearDns"
  PROVE  FreshVerdictsObeyPolicy' /\ OldVerdicts'
<1> USE DEF IInv
<1>1. FreshVerdictsObeyPolicy'
  BY DEF FreshVerdictsObeyPolicy
<1>2. /\ Cardinality(Stale(Keys)') <= Cardinality(Stale(Keys)) /\ Cardinality(Stale(Keys)') \in Nat
      /\ Cardinality(Stale(Keys)) \in Nat
  BY StaleShrinks, StaleFinite
<1>3. /\ Cardinality(Stale(Ips)') <= Cardinality(Stale(Ips)) /\ Cardinality(Stale(Ips)') \in Nat
      /\ Cardinality(Stale(Ips)) \in Nat
  BY StaleShrinks, StaleFinite, KeysSplit
<1>4. done \in Nat /\ Burst \in Nat /\ done' >= done
  BY WorkerAssumption DEF TypeOK
<1> QED
  BY <1>1, <1>2, <1>3, <1>4 DEF OldVerdicts

-----------------------------------------------------------------------------
(* The main thread.                                                          *)

LEMMA ConstructorPollKeepsIInv ==
  ASSUME IInv, ConstructorPoll
  PROVE  IInv'
<1> USE DEF IInv
<1>1. /\ current' \in Policies /\ enable' \in BOOLEAN
      /\ current'.gen >= current.gen
      /\ current' # current => current'.gen > current.gen
  BY DEF ConstructorPoll, TypeOK, Policies
<1>2. current.gen \in Nat /\ current'.gen \in Nat /\ local.gen \in Nat
  BY <1>1 DEF TypeOK, Policies
<1>3. TypeOK' /\ Starting' /\ BurstCount' /\ InHand'
  BY <1>1 DEF ConstructorPoll, TypeOK, Starting, BurstCount, InHand
<1>4. MutexHeld' /\ Generations'
  BY <1>1, <1>2 DEF ConstructorPoll, Starting, MutexHeld, Generations
<1>5. FreshVerdictsObeyPolicy' /\ OldVerdicts'
  BY DEF ConstructorPoll, Starting, FreshVerdictsObeyPolicy, OldVerdicts
<1> QED
  BY <1>3, <1>4, <1>5

LEMMA InitCachesKeepsIInv ==
  ASSUME IInv, InitCaches
  PROVE  IInv'
<1> USE DEF IInv
<1>1. \A e \in Restored : e \in Entries /\ (e.set => e.gen = 0)
  <2> SUFFICES ASSUME NEW e \in Restored
               PROVE  e \in Entries /\ (e.set => e.gen = 0)
    OBVIOUS
  <2>1. CASE e = None
    BY <2>1, NoneType
  <2>2. CASE e # None
    <3>1. PICK s \in BOOLEAN : e = Entry(s, 0, FALSE)
      BY ZenonT(60), <2>2 DEF Restored
    <3> QED
      BY ZenonT(60), <3>1, EntryType
  <2> QED
    BY <2>1, <2>2
<1>2. cache' \in [Keys -> Entries] /\ \A k \in Keys : cache'[k].set => cache'[k].gen = 0
  BY <1>1 DEF InitCaches
<1>3. \A k \in Keys : cache'[k].set => Table(k) \in up'
  BY NoneType DEF InitCaches
<1>4. current.gen \in Nat
  BY DEF TypeOK, Policies
<1>5. TypeOK' /\ Starting' /\ BurstCount' /\ InHand'
  BY <1>2, <1>3 DEF InitCaches, TypeOK, Starting, BurstCount, InHand
<1>6. MutexHeld' /\ Generations'
  BY <1>2, <1>4 DEF InitCaches, MutexHeld, Generations
<1>7. FreshVerdictsObeyPolicy' /\ OldVerdicts'
  BY <1>2, <1>4 DEF InitCaches, Starting, Generations, FreshVerdictsObeyPolicy, OldVerdicts
<1> QED
  BY <1>5, <1>6, <1>7

\* Steps that touch neither policy nor caches nor the count of packets done.
LEMMA PlainStepKeepsIInv ==
  ASSUME IInv, Signal \/ InitFails \/ EnterIteration \/ ReceiveBurst \/ EndIteration
  PROVE  IInv'
<1> USE DEF IInv
<1>1. UNCHANGED <<current, mutex, local, swept, cache, done, up, key, verdict>>
  BY DEF Signal, InitFails, EnterIteration, ReceiveBurst, EndIteration, mainVars
<1>2. poller' \in [Pollers -> {"idle", "asking", "locking", "clearIp", "clearDns"}]
      /\ \A p \in Pollers : poller'[p] = poller[p] \/ (poller[p] = "idle" /\ poller'[p] = "asking")
  BY DEF Signal, InitFails, EnterIteration, ReceiveBurst, EndIteration, mainVars, TypeOK
<1>a. ASSUME ReceiveBurst PROVE TypeOK' /\ BurstCount'
  <2>1. PICK n \in 0..Burst : IF enable /\ n > 0 THEN left' = n /\ pc' = "packet"
                                              ELSE left' = 0 /\ pc' = "after"
    BY <1>a DEF ReceiveBurst
  <2>2. BurstCount' /\ left' \in Nat /\ pc' \in {"packet", "after"}
    BY SMTT(60), <1>1, <1>a, <2>1, WorkerAssumption DEF ReceiveBurst, BurstCount
  <2> QED
    BY <1>1, <1>2, <1>a, <2>2 DEF ReceiveBurst, TypeOK
<1>b. ASSUME Signal \/ InitFails \/ EnterIteration \/ EndIteration PROVE TypeOK' /\ BurstCount'
  BY ZenonT(60), <1>1, <1>2, <1>b DEF Signal, InitFails, EnterIteration, EndIteration, mainVars, TypeOK, BurstCount
<1>3. TypeOK' /\ BurstCount'
  BY <1>a, <1>b
<1>4. pc' = pc \/ pc' \in {"exit", "lock", "packet", "after", "top"}
  BY DEF Signal, InitFails, EnterIteration, ReceiveBurst, EndIteration, mainVars
<1>5. pc \in {"ctor", "init"} => UNCHANGED poller
  BY DEF Signal, InitFails, EnterIteration, ReceiveBurst, EndIteration, mainVars
<1>6. Starting' /\ MutexHeld' /\ Generations' /\ InHand'
  BY <1>1, <1>2, <1>4, <1>5 DEF Starting, MutexHeld, Generations, InHand
<1>7. FreshVerdictsObeyPolicy' /\ OldVerdicts'
  BY SMTT(60), <1>1, <1>2, CacheKept DEF TypeOK
<1> QED
  BY <1>3, <1>6, <1>7

\* The copy is brought up to date: what is old by now was inserted by the
\* iteration that ends, at most Burst entries.
LEMMA CopyPolicyKeepsIInv ==
  ASSUME IInv, CopyPolicy
  PROVE  IInv'
<1> USE DEF IInv
<1>1. TypeOK' /\ Starting' /\ MutexHeld' /\ Generations' /\ InHand'
  BY DEF CopyPolicy, TypeOK, Starting, MutexHeld, Generations, InHand, Policies
<1>2. BurstCount'
  BY WorkerAssumption DEF CopyPolicy, BurstCount
<1>3. FreshVerdictsObeyPolicy'
  BY DEF CopyPolicy, FreshVerdictsObeyPolicy
<1>4. Stale(Keys)' = Stale(Keys)
  BY DEF CopyPolicy, Stale
<1>5. swept => Cardinality(Stale(Keys)) <= Burst
  BY StaleFinite, WorkerAssumption DEF CopyPolicy, OldVerdicts, BurstCount, TypeOK
<1>6. \A p \in Pollers : poller[p] # "clearDns"
  BY WorkerAssumption DEF CopyPolicy, MutexHeld
<1> QED
  BY <1>1, <1>2, <1>3, <1>4, <1>5, <1>6 DEF CopyPolicy, OldVerdicts

\* The count of packets moves on.
LEMMA FinishCounts ==
  ASSUME IInv, Finish, pc \in {"packet", "add"}
  PROVE  /\ left' \in Nat /\ done' \in Nat /\ done' = done + 1
         /\ key' \in Keys \cup {Nil} /\ verdict' \in Entries
         /\ pc' \in {"after", "packet"}
         /\ BurstCount'
  BY NoneType, WorkerAssumption DEF IInv, Finish, TypeOK, BurstCount

LEMMA DecideKeepsIInv ==
  ASSUME IInv, DecideAtOnce
  PROVE  IInv'
<1> USE DEF IInv
<1>1. /\ left' \in Nat /\ done' \in Nat /\ done' = done + 1
      /\ key' \in Keys \cup {Nil} /\ verdict' \in Entries
      /\ pc' \in {"after", "packet"}
      /\ BurstCount'
  BY FinishCounts DEF DecideAtOnce
<1>2. TypeOK'
  BY <1>1 DEF DecideAtOnce, TypeOK
<1>3. Starting' /\ MutexHeld' /\ Generations' /\ InHand'
  BY <1>1 DEF DecideAtOnce, Starting, MutexHeld, Generations, InHand
<1>4. done' >= done
  BY <1>1 DEF TypeOK
<1>5. FreshVerdictsObeyPolicy' /\ OldVerdicts'
  BY <1>1, <1>4, CacheKept DEF DecideAtOnce
<1> QED
  BY <1>1, <1>2, <1>3, <1>5

LEMMA LookupMissKeepsIInv ==
  ASSUME IInv, NEW k \in Keys, LookupMiss(k)
  PROVE  IInv'
<1> USE DEF IInv
<1>1. cache' \in [Keys -> Entries] /\ \A j \in Keys : cache'[j].set => cache'[j] = cache[j]
  BY NoneType DEF LookupMiss, TypeOK
<1>2. TypeOK' /\ BurstCount'
  BY <1>1 DEF LookupMiss, TypeOK, BurstCount
<1>3. Starting' /\ MutexHeld' /\ Generations' /\ InHand'
  BY <1>1 DEF LookupMiss, Starting, MutexHeld, Generations, InHand
<1>4. FreshVerdictsObeyPolicy' /\ OldVerdicts'
  BY <1>1, CacheKept DEF LookupMiss, TypeOK
<1> QED
  BY <1>2, <1>3, <1>4

LEMMA ClassifyKeepsIInv ==
  ASSUME IInv, Classify
  PROVE  IInv'
<1> USE DEF IInv
<1>0. local.gen \in Nat
  BY DEF TypeOK, Policies
<1>1. /\ verdict' \in Entries /\ verdict'.gen = local.gen
      /\ verdict'.send /\ ~verdict'.open => key \notin local.blocked
  <2>1. CASE verdict' = Entry(TRUE, local.gen, TRUE)
    BY ZenonT(60), <1>0, <2>1, EntryType
  <2>2. ASSUME NEW s \in BOOLEAN, key \in local.blocked => ~s, verdict' = Entry(s, local.gen, FALSE)
        PROVE  /\ verdict' \in Entries /\ verdict'.gen = local.gen
               /\ verdict'.send /\ ~verdict'.open => key \notin local.blocked
    BY ZenonT(60), <1>0, <2>2, EntryType
  <2> QED
    BY ZenonT(60), <2>1, <2>2 DEF Classify
<1>2. TypeOK' /\ BurstCount'
  BY <1>1 DEF Classify, TypeOK, BurstCount
<1>3. Starting' /\ MutexHeld' /\ Generations' /\ InHand'
  BY <1>1 DEF Classify, Starting, MutexHeld, Generations, InHand
<1>4. FreshVerdictsObeyPolicy' /\ OldVerdicts'
  BY CacheKept DEF Classify, TypeOK
<1> QED
  BY <1>2, <1>3, <1>4

\* An insertion: with an up-to-date copy the entry is not old; with an outdated
\* one the count of old entries and the count of packets go up together.
LEMMA AddKeepsIInv ==
  ASSUME IInv, AddToCache
  PROVE  IInv'
<1> USE DEF IInv
<1>1. /\ left' \in Nat /\ done' \in Nat /\ done' = done + 1
      /\ key' \in Keys \cup {Nil} /\ verdict' \in Entries
      /\ pc' \in {"after", "packet"}
      /\ BurstCount'
  BY FinishCounts DEF AddToCache
<1>2. done' >= done /\ done \in Nat /\ Burst \in Nat
  BY <1>1, WorkerAssumption DEF TypeOK
<1>3. CASE UNCHANGED cache
  <2>1. TypeOK'
    BY SMTT(60), <1>1, <1>3 DEF AddToCache, TypeOK
  <2>2. Starting' /\ MutexHeld' /\ Generations' /\ InHand'
    BY <1>1, <1>3 DEF AddToCache, Starting, MutexHeld, Generations, InHand
  <2>3. FreshVerdictsObeyPolicy' /\ OldVerdicts'
    BY SMTT(60), <1>1, <1>2, <1>3, CacheKept DEF AddToCache
  <2> QED
    BY <1>1, <2>1, <2>2, <2>3
<1>4. CASE cache' = [cache EXCEPT ![key] = verdict]
  <2>0. /\ key \in Keys /\ Table(key) \in up /\ verdict.gen = local.gen
        /\ verdict.send /\ ~verdict.open => key \notin local.blocked
    BY SMTT(60) DEF AddToCache, InHand
  <2>1. TypeOK'
    BY SMTT(60), <1>1, <1>4, <2>0 DEF AddToCache, TypeOK
  <2>2. \A k \in Keys : cache'[k] = IF k = key THEN verdict ELSE cache[k]
    BY SMTT(60), <1>4, <2>0 DEF TypeOK
  <2>3. Starting' /\ MutexHeld' /\ Generations' /\ InHand'
    BY SMTT(60), <1>1, <2>0, <2>2 DEF AddToCache, Starting, MutexHeld, Generations, InHand
  <2>4. FreshVerdictsObeyPolicy'
    BY SMTT(60), <2>0, <2>2 DEF AddToCache, Generations, FreshVerdictsObeyPolicy
  <2>5. ASSUME NEW K \in SUBSET Keys
        PROVE  /\ Cardinality(Stale(K)') <= Cardinality(Stale(K)) + 1
               /\ local.gen = current.gen => Cardinality(Stale(K)') <= Cardinality(Stale(K))
               /\ Cardinality(Stale(K)') \in Nat /\ Cardinality(Stale(K)) \in Nat
    <3>1. Stale(K)' \subseteq Stale(K) \cup {key}
      BY <2>2 DEF AddToCache, Stale
    <3>2. local.gen = current.gen => Stale(K)' \subseteq Stale(K)
      BY <2>0, <2>2 DEF AddToCache, Stale
    <3>3. IsFiniteSet(Stale(K)) /\ Cardinality(Stale(K)) \in Nat
      BY StaleFinite
    <3>4. IsFiniteSet(Stale(K)')
      <4>1. IsFiniteSet(Stale(K) \cup {key})
        BY <3>3, FS_AddElement
      <4> QED
        BY <3>1, <4>1, FS_Subset
    <3> QED
      BY ZenonT(60), <3>1, <3>2, <3>3, <3>4, OneMore, NoMore, FS_CardinalityType
  <2>6. UNCHANGED <<current, local, mutex, swept, poller>>
    BY DEF AddToCache
  <2>7. \A p \in Pollers : poller'[p] = "clearDns" => Cardinality(Stale(Ips)') <= done'
    BY <1>1, <1>2, <2>5, <2>6, KeysSplit DEF OldVerdicts
  <2>8. mutex' = Nil /\ swept' =>
          Cardinality(Stale(Keys)') <= IF local'.gen = current'.gen THEN Burst ELSE done'
    BY SMTT(60), <1>1, <1>2, <2>5, <2>6 DEF OldVerdicts
  <2> QED
    BY SMTT(60), <1>1, <2>1, <2>3, <2>4, <2>7, <2>8 DEF OldVerdicts
<1> QED
  BY <1>3, <1>4 DEF AddToCache

LEMMA DestructorKeepsIInv ==
  ASSUME IInv, Destructor
  PROVE  IInv'
<1> USE DEF IInv
<1>1. TypeOK' /\ Starting' /\ BurstCount' /\ InHand'
  BY SMTT(60), NoneType DEF Destructor, TypeOK, Starting, BurstCount, InHand
<1>2. MutexHeld' /\ Generations'
  BY NoneType DEF Destructor, MutexHeld, Generations
<1>3. \A k \in Keys : cache'[k].set => cache'[k] = cache[k]
  BY SMTT(60), NoneType DEF Destructor
<1>4. FreshVerdictsObeyPolicy' /\ OldVerdicts'
  BY <1>3, CacheKept DEF Destructor, TypeOK
<1> QED
  BY <1>1, <1>2, <1>4

-----------------------------------------------------------------------------
(* The policy threads.                                                       *)

LEMMA AnswerKeepsIInv ==
  ASSUME IInv, NEW p \in Pollers, ReceiveAnswer(p)
  PROVE  IInv'
<1> USE DEF IInv
<1>1. /\ poller' \in [Pollers -> {"idle", "asking", "locking", "clearIp", "clearDns"}]
      /\ \A q \in Pollers : q # p => poller'[q] = poller[q]
      /\ poller[p] = "asking" /\ poller'[p] \in {"idle", "locking"}
  BY DEF ReceiveAnswer, TypeOK
<1>2. UNCHANGED <<current, mutex, local, swept, cache, done, up, key, verdict, pc, left, stop>>
  BY DEF ReceiveAnswer, mainVars
<1>3. enable' \in BOOLEAN
  BY SMTT(60) DEF ReceiveAnswer, TypeOK
<1>4. TypeOK' /\ Starting' /\ MutexHeld'
  BY SMTT(60), <1>1, <1>2, <1>3 DEF TypeOK, Starting, MutexHeld
<1>5. Generations' /\ BurstCount' /\ InHand'
  BY SMTT(60), <1>2 DEF Generations, BurstCount, InHand
<1>6. FreshVerdictsObeyPolicy' /\ OldVerdicts'
  BY <1>1, <1>2, CacheKept DEF TypeOK
<1> QED
  BY <1>4, <1>5, <1>6

\* From here on every entry of the caches and the main loop's copy are old.
LEMMA InstallKeepsIInv ==
  ASSUME IInv, NEW p \in Pollers, InstallPolicy(p)
  PROVE  IInv'
<1> USE DEF IInv
<1>1. /\ poller' \in [Pollers -> {"idle", "asking", "locking", "clearIp", "clearDns"}]
      /\ \A q \in Pollers : poller'[q] = IF q = p THEN "clearIp" ELSE poller[q]
      /\ mutex = Nil /\ mutex' = p /\ poller[p] = "locking"
  BY DEF InstallPolicy, TypeOK
<1>2. UNCHANGED <<enable, local, swept, cache, done, up, key, verdict, pc, left, stop>>
  BY DEF InstallPolicy, mainVars
<1>3. current' \in Policies /\ current'.gen = current.gen + 1
  BY DEF InstallPolicy, TypeOK, Policies
<1>4. current.gen \in Nat /\ local.gen \in Nat /\ \A k \in Keys : cache[k].gen \in Nat
  BY SMTT(60) DEF TypeOK, Policies, Entries
<1>5. TypeOK' /\ Starting'
  BY <1>1, <1>2, <1>3 DEF TypeOK, Starting
<1>6. p # Nil /\ \A q \in Pollers : q # Nil
  BY WorkerAssumption
<1>7. \A q \in Pollers : poller[q] \notin {"clearIp", "clearDns"}
  BY SMTT(60), <1>1, <1>6 DEF MutexHeld
<1>8. MutexHeld' /\ Generations'
  BY SMTT(60), <1>1, <1>2, <1>3, <1>4, <1>7 DEF MutexHeld, Generations
<1>9. BurstCount' /\ InHand'
  BY <1>2 DEF BurstCount, InHand
<1>10. FreshVerdictsObeyPolicy'
  BY SMTT(60), <1>2, <1>3, <1>4 DEF Generations, FreshVerdictsObeyPolicy
<1>11. OldVerdicts'
  BY <1>1, <1>6, <1>7 DEF OldVerdicts
<1> QED
  BY <1>5, <1>8, <1>9, <1>10, <1>11

\* What a clear leaves of a table: nothing, whether or not the table exists.
LEMMA ClearedTable ==
  ASSUME IInv, NEW K, NEW t, (K = Ips /\ t = "ip") \/ (K = Domains /\ t = "dns"),
         cache' = Cleared(K, t)
  PROVE  /\ cache' \in [Keys -> Entries]
         /\ \A k \in Keys : cache'[k].set => cache'[k] = cache[k]
         /\ \A k \in K : ~cache'[k].set
<1> USE DEF IInv
<1>1. K \subseteq Keys /\ \A k \in K : Table(k) = t
  BY WorkerAssumption DEF Keys, Table
<1>2. \A k \in Keys : cache'[k] = IF k \in K /\ t \in up THEN None ELSE cache[k]
  BY DEF Cleared
<1>3. cache' \in [Keys -> Entries]
  BY NoneType DEF Cleared, TypeOK
<1>4. \A k \in K : ~cache'[k].set
  BY <1>1, <1>2, NoneType DEF InHand
<1> QED
  BY <1>2, <1>3, <1>4, NoneType

LEMMA ClearIpKeepsIInv ==
  ASSUME IInv, NEW p \in Pollers, ClearIpCache(p)
  PROVE  IInv'
<1> USE DEF IInv
<1>1. /\ cache' \in [Keys -> Entries]
      /\ \A k \in Keys : cache'[k].set => cache'[k] = cache[k]
      /\ \A k \in Ips : ~cache'[k].set
  BY ClearedTable DEF ClearIpCache
<1>2. UNCHANGED <<current, mutex, enable, local, swept, done, up, key, verdict, pc, left, stop>>
  BY DEF ClearIpCache, mainVars
<1>3. /\ poller' \in [Pollers -> {"idle", "asking", "locking", "clearIp", "clearDns"}]
      /\ \A q \in Pollers : poller'[q] = IF q = p THEN "clearDns" ELSE poller[q]
      /\ poller[p] = "clearIp" /\ mutex = p /\ p # Nil
  BY SMTT(60), WorkerAssumption DEF ClearIpCache, TypeOK, MutexHeld
<1>4. TypeOK' /\ Starting' /\ MutexHeld'
  BY SMTT(60), <1>1, <1>2, <1>3 DEF TypeOK, Starting, MutexHeld
<1>5. Generations' /\ BurstCount' /\ InHand'
  BY SMTT(60), <1>1, <1>2 DEF Generations, BurstCount, InHand
<1>6. FreshVerdictsObeyPolicy'
  BY ZenonT(60), <1>1, <1>2 DEF FreshVerdictsObeyPolicy
<1>7. Stale(Ips)' = {}
  BY <1>1 DEF Stale
<1>8. Cardinality(Stale(Ips)') = 0 /\ done \in Nat
  BY SMTT(60), <1>7, FS_EmptySet DEF TypeOK
<1>9. OldVerdicts'
  BY SMTT(60), <1>2, <1>3, <1>8 DEF OldVerdicts
<1> QED
  BY SMTT(60), <1>4, <1>5, <1>6, <1>9

LEMMA ClearDnsKeepsIInv ==
  ASSUME IInv, NEW p \in Pollers, ClearDnsCache(p)
  PROVE  IInv'
<1> USE DEF IInv
<1>1. /\ cache' \in [Keys -> Entries]
      /\ \A k \in Keys : cache'[k].set => cache'[k] = cache[k]
      /\ \A k \in Domains : ~cache'[k].set
  BY ClearedTable DEF ClearDnsCache
<1>2. UNCHANGED <<current, enable, local, done, up, key, verdict, pc, left, stop>>
      /\ mutex' = Nil /\ swept' = TRUE
  BY DEF ClearDnsCache, mainVars
<1>3. /\ poller' \in [Pollers -> {"idle", "asking", "locking", "clearIp", "clearDns"}]
      /\ \A q \in Pollers : poller'[q] = IF q = p THEN "idle" ELSE poller[q]
      /\ poller[p] = "clearDns" /\ mutex = p /\ p # Nil
  BY SMTT(60), WorkerAssumption DEF ClearDnsCache, TypeOK, MutexHeld
<1>4. \A q \in Pollers : poller'[q] \notin {"clearIp", "clearDns"} /\ q # Nil
  BY SMTT(60), <1>3, WorkerAssumption DEF MutexHeld
<1>5. TypeOK' /\ Starting' /\ MutexHeld'
  BY SMTT(60), <1>1, <1>2, <1>3, <1>4 DEF TypeOK, Starting, MutexHeld
<1>6. Generations' /\ BurstCount' /\ InHand'
  BY SMTT(60), <1>1, <1>2 DEF Generations, BurstCount, InHand
<1>7. FreshVerdictsObeyPolicy'
  BY SMTT(60), <1>1, <1>2 DEF FreshVerdictsObeyPolicy
<1>8. local.gen # current.gen
  BY <1>3 DEF MutexHeld
<1>9. Cardinality(Stale(Keys)') <= done
  <2>1. Stale(Keys)' \subseteq Stale(Ips)
    BY <1>1, <1>2 DEF Stale, Keys
  <2>2. IsFiniteSet(Stale(Ips)) /\ Cardinality(Stale(Ips)) \in Nat
    BY StaleFinite, KeysSplit
  <2>3. Cardinality(Stale(Keys)') <= Cardinality(Stale(Ips)) /\ Cardinality(Stale(Keys)') \in Nat
    BY SMTT(60), <2>1, <2>2, FS_Subset, FS_CardinalityType
  <2>4. Cardinality(Stale(Ips)) <= done /\ done \in Nat
    BY SMTT(60), <1>3 DEF OldVerdicts, TypeOK
  <2> QED
    BY SMTT(60), <2>2, <2>3, <2>4
<1>10. OldVerdicts'
  BY <1>2, <1>4, <1>8, <1>9 DEF OldVerdicts
<1> QED
  BY <1>5, <1>6, <1>7, <1>10

LEMMA NextKeepsIInv == IInv /\ [Next]_vars => IInv'
<1> SUFFICES ASSUME IInv, [Next]_vars PROVE IInv'
  OBVIOUS
<1>1. CASE UNCHANGED vars
  <2>1. TypeOK' /\ Starting' /\ MutexHeld' /\ Generations' /\ BurstCount' /\ InHand'
    BY SMTT(60), <1>1 DEF vars, mainVars, IInv, TypeOK, Starting, MutexHeld, Generations, BurstCount, InHand
  <2>2. FreshVerdictsObeyPolicy' /\ OldVerdicts'
    BY ZenonT(60), <1>1 DEF vars, mainVars, IInv, FreshVerdictsObeyPolicy, OldVerdicts, Stale
  <2> QED
    BY SMTT(60), <2>1, <2>2 DEF IInv
<1>2. CASE Main
  BY SMTT(60), <1>2, ConstructorPollKeepsIInv, InitCachesKeepsIInv, PlainStepKeepsIInv, CopyPolicyKeepsIInv,
     DecideKeepsIInv, LookupMissKeepsIInv, ClassifyKeepsIInv, AddKeepsIInv, DestructorKeepsIInv
     DEF Main
<1>3. ASSUME NEW p \in Pollers, PolicyThread(p) PROVE IInv'
  BY <1>3, AnswerKeepsIInv, InstallKeepsIInv, ClearIpKeepsIInv, ClearDnsKeepsIInv DEF PolicyThread
<1>4. CASE Signal
  BY <1>4, PlainStepKeepsIInv
<1> QED
  BY <1>1, <1>2, <1>3, <1>4 DEF Next

\* The variables of FilterWorker keep their types.
THEOREM TypeCorrect == Spec => []TypeOK
<1>1. IInv => TypeOK
  BY DEF IInv
<1> QED
  BY <1>1, InitIInv, NextKeepsIInv, PTL DEF Spec

\* A policy update leaves at most one burst of verdicts of the replaced policy
\* in the caches (worker.cpp requestPolicyFromController and MainLoop,
\* proc_packets.c pakage_processing), whatever the sizes.
THEOREM AtMostOneBurstIsStale == Spec => []BoundedStaleness
<1>1. IInv => BoundedStaleness
  <2> SUFFICES ASSUME IInv, mutex = Nil, swept PROVE Cardinality(Stale(Keys)) <= Burst
    BY DEF BoundedStaleness
  <2>1. Cardinality(Stale(Keys)) \in Nat /\ done \in Nat /\ Burst \in Nat /\ done <= Burst
    BY StaleFinite, WorkerAssumption DEF IInv, TypeOK, BurstCount
  <2> QED
    BY <2>1 DEF IInv, OldVerdicts
<1> QED
  BY <1>1, InitIInv, NextKeepsIInv, PTL DEF Spec

\* A cached verdict of the policy in force agrees with its block lists unless it
\* was let through because the classification failed.
THEOREM CachedVerdictsObeyPolicy == Spec => []FreshVerdictsObeyPolicy
<1>1. IInv => FreshVerdictsObeyPolicy
  BY DEF IInv
<1> QED
  BY <1>1, InitIInv, NextKeepsIInv, PTL DEF Spec
=============================================================================
