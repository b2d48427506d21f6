------------------------- MODULE VerdictCacheProofs -------------------------
(***************************************************************************)
(* Proofs for VerdictCache: no thread reads a node that was given back, and  *)
(* none reaches a table that is gone while the spinlock keeps it out, for    *)
(* any number of keys, nodes and policy threads.                             *)
(***************************************************************************)
EXTENDS VerdictCache, FiniteSetTheorems, TLAPS

\* Who holds the spinlock, and when the main thread is inside its save.
Locking ==
  /\ save.pc \in {"copy", "memcpy"} => lock = Main
  /\ pc \in {"freeTable", "nullPtr"} => lock = Main
  /\ save.pc # "idle" => pc = "saving"
  /\ \A c \in Clearers : clear[c] \in {"reset", "unlock"} => lock = c

\* ip_hash dangles only between rte_hash_free and its reset.
Dangling == ptr = "table" => valid \/ pc = "nullPtr"

\* A node the main thread is about to insert is not in the table yet; a node the
\* save is copying still is.
Holding ==
  /\ pc \in {"alloc", "add"} => mkey \in Keys
  /\ pc = "use" => held \in Nodes
  /\ pc = "add" => held \in Nodes /\ heap[held] = "alive" /\ \A k \in Keys : hash[k] # held
  /\ save.pc = "memcpy" => save.cur \in Nodes /\ \E k \in Keys : hash[k] = save.cur

IInv == TypeOK /\ Locking /\ Dangling /\ Holding /\ TableOwnsItsNodes /\ NoReadAfterFree

LEMMA CountType == ASSUME TypeOK PROVE Cardinality(Used) \in Nat
<1>1. IsFiniteSet(Used)
  BY CacheAssumption, FS_Subset DEF Used
<1> QED
  BY <1>1, FS_CardinalityType

LEMMA SaveIdleType == SaveIdle \in SaveState /\ SaveIdle.pc = "idle"
  BY DEF SaveIdle, SaveState

LEMMA InitIInv == Init => IInv
  BY ZenonT(60), SaveIdleType, CacheAssumption
     DEF Init, IInv, TypeOK, Locking, Dangling, Holding, TableOwnsItsNodes, NoReadAfterFree

-----------------------------------------------------------------------------
(* The main thread.                                                          *)

LEMMA StartKeepsIInv ==
  ASSUME IInv, InitIpCache \/ LoadDone
  PROVE  IInv'
<1> USE DEF IInv
<1>1. TypeOK'
  BY ZenonT(60) DEF InitIpCache, LoadDone, TypeOK
<1>2. Locking' /\ Dangling'
  BY CacheAssumption DEF InitIpCache, LoadDone, Locking, Dangling
<1>3. Holding' /\ TableOwnsItsNodes' /\ NoReadAfterFree'
  BY DEF InitIpCache, LoadDone, Holding, TableOwnsItsNodes, NoReadAfterFree
<1> QED
  BY <1>1, <1>2, <1>3

LEMMA LoadRowKeepsIInv ==
  ASSUME IInv, NEW k \in Keys, NEW x \in Nodes, LoadRow(k, x)
  PROVE  IInv'
<1> USE DEF IInv
<1>1. TypeOK'
  BY DEF LoadRow, TypeOK, mainVars
<1>2. Locking' /\ Dangling'
  BY DEF LoadRow, Locking, Dangling, mainVars
<1>3. TableOwnsItsNodes'
  BY CacheAssumption DEF LoadRow, TypeOK, TableOwnsItsNodes, mainVars
<1>4. save.pc # "memcpy"
  BY CacheAssumption DEF LoadRow, Locking
<1>5. Holding' /\ NoReadAfterFree'
  BY <1>4 DEF LoadRow, Holding, NoReadAfterFree, mainVars
<1> QED
  BY <1>1, <1>2, <1>3, <1>5

LEMMA LookupKeepsIInv ==
  ASSUME IInv, NEW k \in Keys, LookupHit(k) \/ LookupMiss(k) \/ LookupExpired(k)
  PROVE  IInv'
<1> USE DEF IInv
<1>1. save.pc # "memcpy"
  BY CacheAssumption DEF LookupHit, LookupMiss, LookupExpired, Locking
<1>2. CASE LookupHit(k)
  <2>1. hash[k] \in Nodes /\ heap[hash[k]] = "alive"
    BY <1>2 DEF LookupHit, TypeOK, TableOwnsItsNodes
  <2>2. TypeOK' /\ Locking' /\ Dangling'
    BY <1>2, <2>1 DEF LookupHit, TypeOK, Locking, Dangling
  <2>3. Holding' /\ TableOwnsItsNodes' /\ NoReadAfterFree'
    BY <1>1, <1>2, <2>1 DEF LookupHit, Holding, TableOwnsItsNodes, NoReadAfterFree
  <2> QED
    BY <2>2, <2>3
<1>3. CASE LookupMiss(k)
  <2>1. TypeOK' /\ Locking' /\ Dangling'
    BY <1>3 DEF LookupMiss, TypeOK, Locking, Dangling
  <2>2. Holding' /\ TableOwnsItsNodes' /\ NoReadAfterFree'
    BY <1>1, <1>3 DEF LookupMiss, Holding, TableOwnsItsNodes, NoReadAfterFree
  <2> QED
    BY <2>1, <2>2
<1>4. CASE LookupExpired(k)
  <2>1. hash[k] \in Nodes
    BY <1>4 DEF LookupExpired, TypeOK
  <2>2. TypeOK' /\ Locking' /\ Dangling'
    BY <1>4, <2>1 DEF LookupExpired, TypeOK, Locking, Dangling
  <2>3. TableOwnsItsNodes'
    BY <1>4, <2>1 DEF LookupExpired, TypeOK, TableOwnsItsNodes
  <2>4. Holding' /\ NoReadAfterFree'
    BY <1>1, <1>4 DEF LookupExpired, Holding, NoReadAfterFree
  <2> QED
    BY <2>2, <2>3, <2>4
<1> QED
  BY <1>2, <1>3, <1>4

LEMMA UseKeepsIInv ==
  ASSUME IInv, UseNode
  PROVE  IInv'
<1> USE DEF IInv
<1>1. TypeOK' /\ Locking' /\ Dangling'
  BY DEF UseNode, TypeOK, Locking, Dangling
<1>2. Holding' /\ TableOwnsItsNodes' /\ NoReadAfterFree'
  BY DEF UseNode, Holding, TableOwnsItsNodes, NoReadAfterFree
<1> QED
  BY <1>1, <1>2

LEMMA AllocKeepsIInv ==
  ASSUME IInv, AllocNode
  PROVE  IInv'
<1> USE DEF IInv
<1>1. CASE UNCHANGED heap /\ pc' = "idle"
  BY <1>1 DEF AllocNode, TypeOK, Locking, Dangling, Holding, TableOwnsItsNodes, NoReadAfterFree
<1>2. CASE \E x \in Nodes : /\ heap[x] = "free"
                           /\ heap' = [heap EXCEPT ![x] = "alive"]
                           /\ held' = x /\ pc' = "add" /\ UNCHANGED mkey
  <2> PICK x \in Nodes : /\ heap[x] = "free"
                         /\ heap' = [heap EXCEPT ![x] = "alive"]
                         /\ held' = x /\ pc' = "add" /\ UNCHANGED mkey
    BY ZenonT(60), <1>2
  <2>1. TypeOK' /\ Locking' /\ Dangling'
    BY DEF AllocNode, TypeOK, Locking, Dangling
  <2>2. TableOwnsItsNodes' /\ NoReadAfterFree'
    BY DEF AllocNode, TypeOK, Holding, TableOwnsItsNodes, NoReadAfterFree
  <2>3. \A k \in Keys : hash[k] # x
    BY CacheAssumption DEF AllocNode, TypeOK, TableOwnsItsNodes
  <2>4. Holding'
    BY <2>3 DEF AllocNode, TypeOK, Holding
  <2> QED
    BY <2>1, <2>2, <2>4
<1> QED
  BY <1>1, <1>2 DEF AllocNode

LEMMA AddKeepsIInv ==
  ASSUME IInv, AddToIpCache
  PROVE  IInv'
<1> USE DEF IInv
<1>0. /\ mkey \in Keys /\ held \in Nodes /\ heap[held] = "alive"
      /\ \A k \in Keys : hash[k] # held
  BY DEF AddToIpCache, Holding
<1>1. CASE lock = Nil /\ hash' = [hash EXCEPT ![mkey] = held] /\ UNCHANGED heap
  <2>1. save.pc # "memcpy"
    BY <1>1, CacheAssumption DEF Locking
  <2>2. TypeOK' /\ Locking' /\ Dangling'
    BY <1>0, <1>1 DEF AddToIpCache, TypeOK, Locking, Dangling
  <2>3. TableOwnsItsNodes'
    BY <1>0, <1>1 DEF AddToIpCache, TypeOK, TableOwnsItsNodes
  <2>4. Holding' /\ NoReadAfterFree'
    BY <1>1, <2>1 DEF AddToIpCache, Holding, NoReadAfterFree
  <2> QED
    BY <2>2, <2>3, <2>4
<1>2. CASE heap' = [heap EXCEPT ![held] = "free"] /\ UNCHANGED hash
  <2>1. TypeOK' /\ Locking' /\ Dangling'
    BY <1>0, <1>2 DEF AddToIpCache, TypeOK, Locking, Dangling
  <2>2. TableOwnsItsNodes'
    BY <1>0, <1>2 DEF AddToIpCache, TypeOK, TableOwnsItsNodes
  <2>3. save.pc = "memcpy" => save.cur # held
    BY <1>0 DEF Holding
  <2>4. NoReadAfterFree'
    BY <1>0, <1>2, <2>3 DEF AddToIpCache, TypeOK, Holding, NoReadAfterFree
  <2>5. Holding'
    BY <1>2 DEF AddToIpCache, Holding
  <2> QED
    BY SMTT(60), <2>1, <2>2, <2>4, <2>5
<1> QED
  BY <1>1, <1>2 DEF AddToIpCache

\* The save moves on without reading a node.
LEMMA SaveMoves ==
  ASSUME IInv, save' \in SaveState, save'.pc # "memcpy",
         UNCHANGED <<ptr, valid, hash, heap, held, mkey>>,
         pc' = pc \/ (pc = "idle" /\ pc' = "saving")
  PROVE  Dangling' /\ Holding' /\ TableOwnsItsNodes' /\ NoReadAfterFree'
<1> USE DEF IInv
<1>1. Dangling' /\ TableOwnsItsNodes'
  BY DEF Dangling, TableOwnsItsNodes
<1>2. Holding' /\ NoReadAfterFree'
  BY DEF Holding, NoReadAfterFree
<1> QED
  BY <1>1, <1>2

LEMMA StepSave ==
  ASSUME TypeOK,
         NEW to \in {"idle", "check", "count", "lock", "copy", "memcpy", "begin", "write"}
  PROVE  /\ [save EXCEPT !.pc = to] \in SaveState
         /\ [save EXCEPT !.pc = to].pc = to
  BY DEF TypeOK, SaveState

LEMMA ShutdownKeepsIInv ==
  ASSUME IInv, Shutdown
  PROVE  IInv'
<1> USE DEF IInv
<1>1. save' \in SaveState /\ save'.pc = "check"
  BY StepSave DEF Shutdown
<1>2. Dangling' /\ Holding' /\ TableOwnsItsNodes' /\ NoReadAfterFree'
  BY <1>1, SaveMoves DEF Shutdown
<1>3. TypeOK'
  BY <1>1 DEF Shutdown, TypeOK
<1>4. Locking'
  BY <1>1 DEF Shutdown, Locking
<1> QED
  BY <1>2, <1>3, <1>4

LEMMA StartThreadKeepsIInv ==
  ASSUME IInv, NEW c \in Clearers, StartPolicyThread(c)
  PROVE  IInv'
<1> USE DEF IInv
<1>1. TypeOK'
  BY DEF StartPolicyThread, mainVars, TypeOK
<1>2. Locking'
  BY DEF StartPolicyThread, mainVars, TypeOK, Locking
<1>3. Dangling' /\ Holding' /\ TableOwnsItsNodes' /\ NoReadAfterFree'
  BY DEF StartPolicyThread, mainVars, Dangling, Holding, TableOwnsItsNodes, NoReadAfterFree
<1> QED
  BY <1>1, <1>2, <1>3

LEMMA FreeKeepsIInv ==
  ASSUME IInv, FreeNodes \/ FreeTable \/ NullPointer
  PROVE  IInv'
<1> USE DEF IInv
<1>0. lock = Nil \/ pc \in {"freeTable", "nullPtr"} =>
        /\ save.pc \notin {"copy", "memcpy"}
        /\ \A c \in Clearers : clear[c] \notin {"reset", "unlock"}
  BY CacheAssumption DEF Locking
<1>1. CASE FreeNodes
  <2>1. CASE ptr = "null"
    BY <1>1, <2>1 DEF FreeNodes, TypeOK, Locking, Dangling, Holding, TableOwnsItsNodes, NoReadAfterFree
  <2>2. CASE ptr = "table"
    <3>1. TypeOK'
      BY SMTT(60), <1>1, <2>2, CacheAssumption DEF FreeNodes, TypeOK
    <3>2. Locking' /\ Dangling'
      BY <1>0, <1>1, <2>2 DEF FreeNodes, Locking, Dangling
    <3>3. Holding' /\ TableOwnsItsNodes' /\ NoReadAfterFree'
      BY <1>0, <1>1, <2>2 DEF FreeNodes, Holding, TableOwnsItsNodes, NoReadAfterFree
    <3> QED
      BY <3>1, <3>2, <3>3
  <2> QED
    BY SMTT(60), <2>1, <2>2 DEF TypeOK
<1>2. CASE FreeTable
  <2>1. TypeOK' /\ Locking' /\ Dangling'
    BY ZenonT(60), <1>2, CacheAssumption DEF FreeTable, TypeOK, Locking, Dangling
  <2>2. Holding' /\ TableOwnsItsNodes' /\ NoReadAfterFree'
    BY <1>0, <1>2 DEF FreeTable, Holding, TableOwnsItsNodes, NoReadAfterFree
  <2> QED
    BY <2>1, <2>2
<1>3. CASE NullPointer
  <2>1. TypeOK' /\ Dangling'
    BY <1>3 DEF NullPointer, TypeOK, Dangling
  <2>2. Locking'
    BY <1>0, <1>3 DEF NullPointer, Locking
  <2>3. Holding' /\ TableOwnsItsNodes' /\ NoReadAfterFree'
    BY <1>3 DEF NullPointer, Holding, TableOwnsItsNodes, NoReadAfterFree
  <2> QED
    BY <2>1, <2>2, <2>3
<1> QED
  BY <1>1, <1>2, <1>3

-----------------------------------------------------------------------------
(* The save and the policy threads.                                          *)

LEMMA SaveKeepsIInv ==
  ASSUME IInv, SaveStep
  PROVE  IInv'
<1> USE DEF IInv
<1>0. save.pc # "idle" => pc = "saving"
  BY DEF Locking
<1>1. CASE SaveCheck
  <2>1. save' \in SaveState /\ save'.pc \in {"count", "idle"}
    BY <1>1, StepSave DEF SaveCheck
  <2>2. Dangling' /\ Holding' /\ TableOwnsItsNodes' /\ NoReadAfterFree'
    BY <1>1, <2>1, SaveMoves DEF SaveCheck, mainVars
  <2>3. TypeOK' /\ Locking'
    BY <1>0, <1>1, <2>1 DEF SaveCheck, TypeOK, Locking, mainVars
  <2> QED
    BY <2>2, <2>3
<1>2. CASE SaveCount
  <2>1. PICK n \in Nat : save' = [save EXCEPT !.pc = "lock", !.n = n]
    <3>1. Cardinality(Used) \in Nat /\ 0..Cardinality(Keys) \subseteq Nat
      BY CountType
    <3> QED
      BY <1>2, <3>1 DEF SaveCount
  <2>2. save' \in SaveState /\ save'.pc = "lock"
    BY <2>1 DEF TypeOK, SaveState
  <2>3. Dangling' /\ Holding' /\ TableOwnsItsNodes' /\ NoReadAfterFree'
    BY <1>2, <2>2, SaveMoves DEF SaveCount, mainVars
  <2>4. TypeOK' /\ Locking'
    BY <1>0, <1>2, <2>2 DEF SaveCount, TypeOK, Locking, mainVars
  <2> QED
    BY <2>3, <2>4
<1>3. CASE SaveLock
  <2>1. save' \in SaveState /\ save'.pc = "copy"
    BY <1>3, StepSave DEF SaveLock
  <2>2. Dangling' /\ Holding' /\ TableOwnsItsNodes' /\ NoReadAfterFree'
    BY <1>3, <2>1, SaveMoves DEF SaveLock, mainVars
  <2>3. \A c \in Clearers : clear[c] \notin {"reset", "unlock"}
    BY <1>3, CacheAssumption DEF SaveLock, Locking
  <2>4. TypeOK' /\ Locking'
    BY <1>0, <1>3, <2>1, <2>3 DEF SaveLock, TypeOK, Locking, mainVars
  <2> QED
    BY <2>2, <2>4
<1>4. ASSUME NEW k \in Keys, SaveIterate(k) PROVE IInv'
  <2>1. hash[k] \in Nodes
    BY <1>4 DEF SaveIterate, Used, TypeOK
  <2>2. save' \in SaveState /\ save'.pc = "memcpy" /\ save'.cur = hash[k]
    BY <1>4, <2>1 DEF SaveIterate, TypeOK, SaveState
  <2>3. pc = "saving" /\ lock = Main
    BY <1>0, <1>4 DEF SaveIterate, Locking
  <2>4. heap[hash[k]] = "alive"
    BY <2>1, <2>3, CacheAssumption DEF TableOwnsItsNodes
  <2>5. UNCHANGED <<ptr, valid, hash, heap, lock, db, pc, held, mkey, clear>>
    BY <1>4 DEF SaveIterate, mainVars
  <2>6. TypeOK' /\ Locking' /\ Dangling' /\ TableOwnsItsNodes'
    BY <2>2, <2>3, <2>5 DEF TypeOK, Locking, Dangling, TableOwnsItsNodes
  <2>7. Holding' /\ NoReadAfterFree'
    BY <2>1, <2>2, <2>4, <2>5 DEF Holding, NoReadAfterFree
  <2> QED
    BY <2>6, <2>7
<1>5. CASE SaveMemcpy
  <2>1. save' \in SaveState /\ save'.pc = "copy"
    BY <1>5 DEF SaveMemcpy, TypeOK, SaveState
  <2>2. Dangling' /\ Holding' /\ TableOwnsItsNodes' /\ NoReadAfterFree'
    BY <1>5, <2>1, SaveMoves DEF SaveMemcpy, mainVars
  <2>3. TypeOK' /\ Locking'
    BY <1>0, <1>5, <2>1 DEF SaveMemcpy, TypeOK, Locking, mainVars
  <2> QED
    BY <2>2, <2>3
<1>6. CASE SaveUnlock
  <2>1. save' \in SaveState /\ save'.pc = "begin"
    BY <1>6, StepSave DEF SaveUnlock
  <2>2. Dangling' /\ Holding' /\ TableOwnsItsNodes' /\ NoReadAfterFree'
    BY <1>6, <2>1, SaveMoves DEF SaveUnlock, mainVars
  <2>3. pc = "saving" /\ \A c \in Clearers : clear[c] \notin {"reset", "unlock"}
    BY <1>0, <1>6, CacheAssumption DEF SaveUnlock, Locking
  <2>4. TypeOK' /\ Locking'
    BY <1>6, <2>1, <2>3 DEF SaveUnlock, TypeOK, Locking, mainVars
  <2> QED
    BY <2>2, <2>4
<1>7. CASE SaveBegin \/ SaveCommit
  <2>1. save' \in SaveState /\ save'.pc \in {"idle", "write"}
    BY <1>7, StepSave, SaveIdleType DEF SaveBegin, SaveCommit
  <2>2. Dangling' /\ Holding' /\ TableOwnsItsNodes' /\ NoReadAfterFree'
    BY <1>7, <2>1, SaveMoves DEF SaveBegin, SaveCommit, mainVars
  <2>3. TypeOK' /\ Locking'
    BY <1>0, <1>7, <2>1 DEF SaveBegin, SaveCommit, TypeOK, Locking, mainVars
  <2> QED
    BY <2>2, <2>3
<1> QED
  BY <1>1, <1>2, <1>3, <1>4, <1>5, <1>6, <1>7 DEF SaveStep

LEMMA ClearKeepsIInv ==
  ASSUME IInv, NEW c \in Clearers, ClearStep(c)
  PROVE  IInv'
<1> USE DEF IInv
<1>1. CASE ClearCheck(c)
  <2>1. TypeOK' /\ Locking'
    BY <1>1 DEF ClearCheck, mainVars, TypeOK, Locking
  <2>2. Dangling' /\ Holding' /\ TableOwnsItsNodes' /\ NoReadAfterFree'
    BY <1>1 DEF ClearCheck, mainVars, Dangling, Holding, TableOwnsItsNodes, NoReadAfterFree
  <2> QED
    BY <2>1, <2>2
<1>2. CASE ClearLock(c)
  <2>1. /\ \A d \in Clearers : clear[d] \notin {"reset", "unlock"}
        /\ save.pc \notin {"copy", "memcpy"} /\ pc \notin {"freeTable", "nullPtr"}
    BY <1>2, CacheAssumption DEF ClearLock, Locking
  <2>2. TypeOK' /\ Locking'
    BY <1>2, <2>1 DEF ClearLock, mainVars, TypeOK, Locking
  <2>3. Dangling' /\ Holding' /\ TableOwnsItsNodes' /\ NoReadAfterFree'
    BY <1>2 DEF ClearLock, mainVars, Dangling, Holding, TableOwnsItsNodes, NoReadAfterFree
  <2> QED
    BY <2>2, <2>3
<1>3. CASE ClearReset(c)
  <2>1. save.pc # "memcpy"
    BY <1>3, CacheAssumption DEF ClearReset, Locking
  <2>2. TypeOK' /\ Locking' /\ Dangling'
    BY <1>3 DEF ClearReset, mainVars, TypeOK, Locking, Dangling
  <2>3. \A k \in Keys : hash'[k] \in {Nil, hash[k]}
    BY <1>3 DEF ClearReset
  <2>4. TableOwnsItsNodes'
    BY SMTT(60), <1>3, <2>3 DEF ClearReset, mainVars, TableOwnsItsNodes
  <2>5. Holding' /\ NoReadAfterFree'
    BY <1>3, <2>1, <2>3, CacheAssumption DEF ClearReset, mainVars, Holding, NoReadAfterFree
  <2> QED
    BY <2>2, <2>4, <2>5
<1>4. CASE ClearUnlock(c)
  <2>1. lock = c /\ c # Main
    BY <1>4, CacheAssumption DEF ClearUnlock, Locking
  <2>2. TypeOK' /\ Locking'
    BY <1>4, <2>1 DEF ClearUnlock, mainVars, TypeOK, Locking
  <2>3. Dangling' /\ Holding' /\ TableOwnsItsNodes' /\ NoReadAfterFree'
    BY <1>4 DEF ClearUnlock, mainVars, Dangling, Holding, TableOwnsItsNodes, NoReadAfterFree
  <2> QED
    BY <2>2, <2>3
<1> QED
  BY <1>1, <1>2, <1>3, <1>4 DEF ClearStep

LEMMA NextKeepsIInv == IInv /\ [Next]_vars => IInv'
<1> SUFFICES ASSUME IInv, [Next]_vars PROVE IInv'
  OBVIOUS
<1>1. CASE UNCHANGED vars
  BY SMTT(60), <1>1 DEF vars, mainVars, IInv, TypeOK, Locking, Dangling, Holding, TableOwnsItsNodes,
              NoReadAfterFree, Used
<1>2. CASE MainStep
  BY <1>2, StartKeepsIInv, LoadRowKeepsIInv, LookupKeepsIInv, UseKeepsIInv, AllocKeepsIInv,
     AddKeepsIInv, ShutdownKeepsIInv, StartThreadKeepsIInv, FreeKeepsIInv
     DEF MainStep
<1> QED
  BY <1>1, <1>2, SaveKeepsIInv, ClearKeepsIInv DEF Next

\* The variables of VerdictCache keep their types.
THEOREM TypeCorrect == Spec => []TypeOK
<1>1. IInv => TypeOK
  BY DEF IInv
<1> QED
  BY <1>1, InitIInv, NextKeepsIInv, PTL DEF Spec

\* The pointer a lookup returns stays good after the spinlock is released, and
\* every node the save copies is still allocated (ip_cache.c lookup_ip_cache,
\* copy_data_from_hash_to_snapshot_ip, clear_ip_cache, free_ip_cache).
THEOREM NodesAreReadAlive == Spec => []NoReadAfterFree
<1>1. IInv => NoReadAfterFree
  BY DEF IInv
<1> QED
  BY <1>1, InitIInv, NextKeepsIInv, PTL DEF Spec

\* Every node in the table is allocated and in it once, so none is freed twice
\* (ip_cache.c lookup_ip_cache, free_ip_cache).
THEOREM TableOwnership == Spec => []TableOwnsItsNodes
<1>1. IInv => TableOwnsItsNodes
  BY DEF IInv
<1> QED
  BY <1>1, InitIInv, NextKeepsIInv, PTL DEF Spec

\* Under the spinlock a table pointer that is not null is a good one
\* (ip_cache.c free_ip_cache).
THEOREM TableValidUnderLock == Spec => []LockedTableIsValid
<1>1. IInv => LockedTableIsValid
  BY DEF IInv, Locking, Dangling, LockedTableIsValid
<1> QED
  BY <1>1, InitIInv, NextKeepsIInv, PTL DEF Spec

-----------------------------------------------------------------------------
(* The snapshot taken at shutdown.                                           *)

\* Once the main thread saves nothing is inserted any more: the table it counted
\* can only have been emptied since, a reset that was under way when it counted
\* ends before it gets the lock, and what it copies is in the table.
SnapInv ==
  /\ save.pc \in {"idle", "check", "count", "lock"} => save.seen = {}
  /\ save.pc \in {"count", "lock", "copy", "memcpy"} => ptr = "table"
  /\ save.pc = "lock" => Cardinality(Used) <= save.n \/ \E c \in Clearers : clear[c] = "reset"
  /\ save.pc \in {"copy", "memcpy"} => Cardinality(Used) <= save.n /\ save.seen \subseteq Used

LEMMA InitSnapInv == Init => SnapInv
  BY DEF Init, SnapInv, SaveIdle

LEMMA MainKeepsSnapInv ==
  ASSUME IInv, SnapInv, MainStep
  PROVE  SnapInv'
<1>0. save \in SaveState /\ (save.pc # "idle" => pc = "saving")
  BY DEF IInv, TypeOK, Locking
<1>1. save.pc = "idle" /\ save.seen = {}
  BY <1>0 DEF MainStep, InitIpCache, LoadDone, UseNode, AllocNode, AddToIpCache, LookupHit,
     LookupMiss, LookupExpired, LoadRow, StartPolicyThread, Shutdown, FreeNodes, FreeTable,
     NullPointer, SnapInv
<1>2. CASE save' = save
  BY <1>1, <1>2 DEF SnapInv
<1>3. CASE Shutdown
  <2>1. save'.pc = "check" /\ save'.seen = {}
    BY <1>0, <1>1, <1>3 DEF Shutdown, SaveState
  <2> QED
    BY <2>1 DEF SnapInv
<1> QED
  BY <1>2, <1>3 DEF MainStep, InitIpCache, LoadDone, UseNode, AllocNode, AddToIpCache,
     LookupHit, LookupMiss, LookupExpired, LoadRow, StartPolicyThread, FreeNodes, FreeTable,
     NullPointer

LEMMA SaveKeepsSnapInv ==
  ASSUME IInv, SnapInv, SaveStep
  PROVE  SnapInv'
<1>0. TypeOK /\ save \in SaveState /\ UNCHANGED <<hash, ptr, clear>> /\ Used' = Used
  BY DEF IInv, TypeOK, SaveStep, SaveCheck, SaveCount, SaveLock, SaveIterate, SaveMemcpy, SaveUnlock,
     SaveBegin, SaveCommit, Used
<1>1. CASE SaveCheck
  <2>1. save.seen = {}
    BY <1>1 DEF SaveCheck, SnapInv
  <2>2. save'.seen = {} /\ save'.pc \in {"count", "idle"} /\ (save'.pc = "count" => ptr = "table")
    BY <1>0, <1>1, <2>1 DEF SaveCheck, SaveState
  <2> QED
    BY <1>0, <2>2 DEF SnapInv
<1>2. CASE SaveCount
  <2>1. save.seen = {} /\ ptr = "table"
    BY <1>2 DEF SaveCount, SnapInv
  <2>2. save'.pc = "lock" /\ save'.seen = {}
    BY <1>0, <1>2, <2>1 DEF SaveCount, SaveState
  <2>3. CASE \E c \in Clearers : clear[c] = "reset"
    BY <1>0, <2>1, <2>2, <2>3 DEF SnapInv
  <2>4. CASE ~ \E c \in Clearers : clear[c] = "reset"
    <3>1. save'.n = Cardinality(Used)
      BY <1>0, <1>2, <2>4 DEF SaveCount, SaveState
    <3>2. Cardinality(Used) <= save'.n
      BY <1>0, <3>1, CountType
    <3> QED
      BY <1>0, <2>1, <2>2, <3>2 DEF SnapInv
  <2> QED
    BY <2>3, <2>4
<1>3. CASE SaveLock
  <2>1. save'.pc = "copy" /\ save'.n = save.n /\ save'.seen = save.seen
    BY <1>0, <1>3 DEF SaveLock, SaveState
  <2>2. ~ \E c \in Clearers : clear[c] = "reset"
    BY <1>3, CacheAssumption DEF SaveLock, IInv, Locking
  <2>3. save.seen = {} /\ Cardinality(Used) <= save.n /\ ptr = "table"
    BY <1>3, <2>2 DEF SaveLock, SnapInv
  <2> QED
    BY <1>0, <2>1, <2>3 DEF SnapInv
<1>4. ASSUME NEW k \in Keys, SaveIterate(k) PROVE SnapInv'
  <2>1. save'.pc = "memcpy" /\ save'.n = save.n /\ save'.seen = save.seen \cup {k}
    BY <1>0, <1>4 DEF SaveIterate, SaveState
  <2>2. k \in Used /\ save.seen \subseteq Used /\ Cardinality(Used) <= save.n /\ ptr = "table"
    BY <1>4 DEF SaveIterate, SnapInv
  <2> QED
    BY <1>0, <2>1, <2>2 DEF SnapInv
<1>5. CASE SaveMemcpy
  <2>1. save'.pc = "copy" /\ save'.n = save.n /\ save'.seen = save.seen
    BY <1>0, <1>5 DEF SaveMemcpy, SaveState
  <2>2. save.seen \subseteq Used /\ Cardinality(Used) <= save.n /\ ptr = "table"
    BY <1>5 DEF SaveMemcpy, SnapInv
  <2> QED
    BY <1>0, <2>1, <2>2 DEF SnapInv
<1>6. CASE SaveUnlock \/ SaveBegin \/ SaveCommit
  <2>1. save'.pc \in {"begin", "write"} \/ (save'.pc = "idle" /\ save'.seen = {})
    BY <1>0, <1>6 DEF SaveUnlock, SaveBegin, SaveCommit, SaveState, SaveIdle
  <2> QED
    BY <2>1 DEF SnapInv
<1> QED
  BY <1>1, <1>2, <1>3, <1>4, <1>5, <1>6 DEF SaveStep

\* A policy thread empties the table between the count and the lock: fewer
\* entries are left than the snapshot has room for.
LEMMA ClearKeepsSnapInv ==
  ASSUME IInv, SnapInv, NEW c \in Clearers, ClearStep(c)
  PROVE  SnapInv'
<1>1. save' = save /\ ptr' = ptr
  BY DEF ClearStep, ClearCheck, ClearLock, ClearReset, ClearUnlock
<1>2. CASE ClearCheck(c) \/ ClearLock(c) \/ ClearUnlock(c)
  <2>1. Used' = Used
    BY <1>2 DEF ClearCheck, ClearLock, ClearUnlock, Used
  <2>2. \A d \in Clearers : clear[d] = "reset" => clear'[d] = "reset"
    BY <1>2 DEF ClearCheck, ClearLock, ClearUnlock, IInv, TypeOK
  <2> QED
    BY <1>1, <2>1, <2>2 DEF SnapInv
<1>3. CASE ClearReset(c)
  <2>1. save.pc \notin {"copy", "memcpy"}
    BY <1>3, CacheAssumption DEF ClearReset, IInv, Locking
  <2>2. CASE save.pc # "lock"
    BY <1>1, <2>1, <2>2 DEF SnapInv
  <2>3. CASE save.pc = "lock"
    <3>1. ptr = "table"
      BY <2>3 DEF SnapInv
    <3>2. Used' = {}
      BY <1>3, <3>1 DEF ClearReset, Used
    <3>3. Cardinality(Used') = 0
      BY <3>2, FS_EmptySet
    <3>4. save.n \in Nat
      BY DEF IInv, TypeOK, SaveState
    <3> QED
      BY <1>1, <2>3, <3>3, <3>4 DEF SnapInv
  <2> QED
    BY <2>2, <2>3
<1> QED
  BY <1>2, <1>3 DEF ClearStep

LEMMA NextKeepsSnapInv == IInv /\ SnapInv /\ [Next]_vars => SnapInv'
<1> SUFFICES ASSUME IInv, SnapInv, [Next]_vars PROVE SnapInv'
  OBVIOUS
<1>1. CASE UNCHANGED vars
  BY <1>1 DEF vars, SnapInv, Used
<1> QED
  BY <1>1, MainKeepsSnapInv, SaveKeepsSnapInv, ClearKeepsSnapInv DEF Next

\* The rows copied at shutdown fit in the memory sized by the count taken before
\* the spinlock, whatever the policy threads clear in between (ip_cache.c
\* save_all_cache_ip_to_sqlite, copy_data_from_hash_to_snapshot_ip).
THEOREM ShutdownSnapshotIsLargeEnough == Spec => []ShutdownSnapshotFits
<1>1. ASSUME TypeOK, SnapInv PROVE ShutdownSnapshotFits
  <2>1. SUFFICES ASSUME save.pc \in {"copy", "memcpy"}
                 PROVE  Cardinality(save.seen) <= save.n
    BY DEF ShutdownSnapshotFits
  <2>2. save.seen \subseteq Used /\ Cardinality(Used) <= save.n
    BY <1>1, <2>1 DEF SnapInv
  <2>3. IsFiniteSet(Used)
    BY CacheAssumption, FS_Subset DEF Used
  <2>4. /\ Cardinality(save.seen) <= Cardinality(Used)
        /\ Cardinality(save.seen) \in Nat /\ Cardinality(Used) \in Nat
    BY <2>2, <2>3, FS_Subset, FS_CardinalityType
  <2>5. save.n \in Nat
    BY <1>1 DEF TypeOK, SaveState
  <2> QED
    BY <2>2, <2>4, <2>5
<1>2. IInv => TypeOK
  BY DEF IInv
<1> QED
  BY <1>1, <1>2, InitIInv, InitSnapInv, NextKeepsIInv, NextKeepsSnapInv, PTL DEF Spec
=============================================================================
