---------------------------- MODULE VerdictCache ----------------------------
(***************************************************************************)
(* The memory of one verdict cache (ip_cache.c; domain_cache.c has the same *)
(* shape): a hash table of heap nodes under a spinlock, shared by           *)
(*   - the main thread: load at start, lookup, insert, and at the end save   *)
(*     and free;                                                             *)
(*   - detached policy threads, which clear it.                              *)
(* The save threads of cache_save_timer_cb never start: the timer library is *)
(* not initialised (see CachePersistence). A lookup hands out a node that is *)
(* read after the spinlock is released; the save walks the table node by     *)
(* node; the table, its nodes and the database go away while policy threads  *)
(* may still run. Verdicts, categories and times are abstracted: any entry   *)
(* may be found expired at any lookup. A node and its copied key are         *)
(* allocated and freed together and count as one object.                     *)
(***************************************************************************)
EXTENDS Naturals, FiniteSets

CONSTANTS Keys,     \* struct ip_key bit patterns
          Nodes,    \* addresses rte_malloc can return for a node
          Clearers, \* slots for policy threads
          Main,     \* the main thread
          Nil

ASSUME CacheAssumption ==
  /\ IsFiniteSet(Keys)
  /\ Nil \notin Nodes /\ Nil \notin Clearers /\ Main \notin Clearers
  /\ Nil \notin Keys /\ Main # Nil

VARIABLES
  ptr,    \* ip_hash: "null" or "table"
  valid,  \* the table's memory has not been given back
  hash,   \* the table: key |-> node or Nil
  heap,   \* node |-> "free" or "alive"
  lock,   \* cache_spinlock_ip: its holder among the threads, or Nil
  db,     \* ip_cache_table: "null" or "open"
  pc,     \* the main thread
  held,   \* the node the main thread has a pointer to
  mkey,   \* the key of the packet in hand
  save,   \* save_all_cache_ip_to_sqlite, on the main thread
  clear   \* each policy thread, up to the end of its clear_ip_cache

mainVars == <<pc, held, mkey>>
vars == <<ptr, valid, hash, heap, lock, db, mainVars, save, clear>>

Used == {k \in Keys : hash[k] # Nil}

\* n: the rows the snapshot has room for; seen: keys copied; cur: node being copied
SaveState == [pc : {"idle", "check", "count", "lock", "copy", "memcpy", "begin", "write"},
              n : Nat, seen : SUBSET Keys, cur : Nodes \cup {Nil}]
SaveIdle == [pc |-> "idle", n |-> 0, seen |-> {}, cur |-> Nil]

TypeOK ==
  /\ ptr \in {"null", "table"} /\ valid \in BOOLEAN
  /\ hash \in [Keys -> Nodes \cup {Nil}]
  /\ heap \in [Nodes -> {"free", "alive"}]
  /\ lock \in Clearers \cup {Main, Nil}
  /\ db \in {"null", "open"}
  /\ pc \in {"boot", "load", "idle", "use", "alloc", "add", "saving", "freeTable", "nullPtr", "done"}
  /\ held \in Nodes \cup {Nil} /\ mkey \in Keys \cup {Nil}
  /\ save \in SaveState
  /\ clear \in [Clearers -> {"idle", "check", "locking", "reset", "unlock"}]

Init ==
  /\ ptr = "null" /\ valid = FALSE
  /\ hash = [k \in Keys |-> Nil]
  /\ heap = [x \in Nodes |-> "free"]
  /\ lock = Nil
  /\ db = "null"
  /\ pc = "boot" /\ held = Nil /\ mkey = Nil
  /\ save = SaveIdle
  /\ clear = [c \in Clearers |-> "idle"]

-----------------------------------------------------------------------------
(* Start.                                                                    *)

\* rte_hash_create, then the database; either may fail. Without a table every
\* lookup fails with an error that is not a miss.
InitIpCache ==
  /\ pc = "boot"
  /\ \/ pc' = "idle" /\ UNCHANGED <<ptr, valid, db>>
     \/ /\ ptr' = "table" /\ valid' = TRUE
        /\ \/ db' = "open" /\ pc' = "load"
           \/ db' = "null" /\ pc' = "idle"
  /\ UNCHANGED <<hash, heap, lock, held, mkey, save, clear>>

\* One row of ip_main_table. The key is built in an uninitialised struct, so the
\* bit pattern a row is stored under need not be the one a packet looks up.
LoadRow(k, x) ==
  /\ pc = "load"
  /\ lock = Nil
  /\ hash[k] = Nil /\ heap[x] = "free"
  /\ hash' = [hash EXCEPT ![k] = x]
  /\ heap' = [heap EXCEPT ![x] = "alive"]
  /\ UNCHANGED <<ptr, valid, lock, db, mainVars, save, clear>>

LoadDone ==
  /\ pc = "load"
  /\ pc' = "idle"
  /\ UNCHANGED <<ptr, valid, hash, heap, lock, db, held, mkey, save, clear>>

-----------------------------------------------------------------------------
(* The main thread. Each spinlock region of lookup and add is one step.      *)

LookupHit(k) ==
  /\ pc = "idle" /\ lock = Nil /\ ptr = "table"
  /\ hash[k] # Nil
  /\ held' = hash[k]
  /\ pc' = "use"
  /\ UNCHANGED <<ptr, valid, hash, heap, lock, db, mkey, save, clear>>

\* cached_node_ip->solution_is_send, outside the lock.
UseNode ==
  /\ pc = "use"
  /\ pc' = "idle" /\ held' = Nil
  /\ UNCHANGED <<ptr, valid, hash, heap, lock, db, mkey, save, clear>>

LookupMiss(k) ==
  /\ pc = "idle" /\ lock = Nil /\ ptr = "table"
  /\ hash[k] = Nil
  /\ pc' = "alloc" /\ mkey' = k
  /\ UNCHANGED <<ptr, valid, hash, heap, lock, db, held, save, clear>>

\* Mutant: the expired node is freed but its key stays in the table.
LookupExpiredKeepsKey(k) ==
  /\ pc = "idle" /\ lock = Nil /\ ptr = "table"
  /\ hash[k] # Nil
  /\ heap' = [heap EXCEPT ![hash[k]] = "free"]
  /\ pc' = "alloc" /\ mkey' = k
  /\ UNCHANGED <<ptr, valid, hash, lock, db, held, save, clear>>

LookupExpired(k) ==
  /\ pc = "idle" /\ lock = Nil /\ ptr = "table"
  /\ hash[k] # Nil
  /\ hash' = [hash EXCEPT ![k] = Nil]
  /\ heap' = [heap EXCEPT ![hash[k]] = "free"]
  /\ pc' = "alloc" /\ mkey' = k
  /\ UNCHANGED <<ptr, valid, lock, db, held, save, clear>>

AllocNode ==
  /\ pc = "alloc"
  /\ \/ \E x \in Nodes : /\ heap[x] = "free"
                         /\ heap' = [heap EXCEPT ![x] = "alive"]
                         /\ held' = x /\ pc' = "add" /\ UNCHANGED mkey
     \/ pc' = "idle" /\ mkey' = Nil /\ UNCHANGED <<heap, held>>
  /\ UNCHANGED <<ptr, valid, hash, lock, db, save, clear>>

\* A refused key copy or a full table gives the node back.
AddToIpCache ==
  /\ pc = "add"
  /\ \/ /\ lock = Nil
        /\ hash' = [hash EXCEPT ![mkey] = held]
        /\ UNCHANGED heap
     \/ heap' = [heap EXCEPT ![held] = "free"] /\ UNCHANGED hash
  /\ pc' = "idle" /\ held' = Nil /\ mkey' = Nil
  /\ UNCHANGED <<ptr, valid, lock, db, save, clear>>

\* The main loop detaches requestPolicyFromController.
StartPolicyThread(c) ==
  /\ pc = "idle"
  /\ clear[c] = "idle"
  /\ clear' = [clear EXCEPT ![c] = "check"]
  /\ UNCHANGED <<ptr, valid, hash, heap, lock, db, mainVars, save>>

\* ~Worker: save_all_cache_ip_to_sqlite(NULL) on the main thread itself.
Shutdown ==
  /\ pc = "idle"
  /\ pc' = "saving"
  /\ save' = [save EXCEPT !.pc = "check"]
  /\ UNCHANGED <<ptr, valid, hash, heap, lock, db, held, mkey, clear>>

\* free_ip_cache: the lock is held from here to NullPointer.
FreeNodes ==
  /\ pc = "saving" /\ save.pc = "idle"
  /\ \/ /\ ptr = "table" /\ lock = Nil
        /\ lock' = Main
        /\ heap' = [x \in Nodes |-> IF \E k \in Keys : hash[k] = x THEN "free" ELSE heap[x]]
        /\ pc' = "freeTable"
     \/ ptr = "null" /\ pc' = "done" /\ UNCHANGED <<lock, heap>>
  /\ UNCHANGED <<ptr, valid, hash, db, held, mkey, save, clear>>

\* Mutant: the lock is released as soon as the table is gone.
FreeTableUnlocks ==
  /\ pc = "freeTable"
  /\ valid' = FALSE
  /\ hash' = [k \in Keys |-> Nil]
  /\ db' = "null"
  /\ lock' = Nil
  /\ pc' = "nullPtr"
  /\ UNCHANGED <<ptr, heap, held, mkey, save, clear>>

FreeTable ==
  /\ pc = "freeTable"
  /\ valid' = FALSE
  /\ hash' = [k \in Keys |-> Nil]
  /\ db' = "null"
  /\ pc' = "nullPtr"
  /\ UNCHANGED <<ptr, heap, lock, held, mkey, save, clear>>

NullPointer ==
  /\ pc = "nullPtr"
  /\ ptr' = "null"
  /\ lock' = Nil
  /\ pc' = "done"
  /\ UNCHANGED <<valid, hash, heap, db, held, mkey, save, clear>>

-----------------------------------------------------------------------------
(* save_all_cache_ip_to_sqlite.                                              *)

SaveCheck ==
  /\ save.pc = "check"
  /\ save' = [save EXCEPT !.pc = IF ptr = "table" /\ db = "open" THEN "count" ELSE "idle"]
  /\ UNCHANGED <<ptr, valid, hash, heap, lock, db, mainVars, clear>>

\* Mutant: the last entry is not counted.
SaveCountShort ==
  /\ save.pc = "count"
  /\ \E n \in 0..Cardinality(Used) :
       /\ Used # {} => n = Cardinality(Used) - 1
       /\ save' = [save EXCEPT !.pc = "lock", !.n = n]
  /\ UNCHANGED <<ptr, valid, hash, heap, lock, db, mainVars, clear>>

\* rte_hash_count without the lock; malloc(count). While a policy thread is
\* resetting the table the count is anything.
SaveCount ==
  /\ save.pc = "count"
  /\ \E n \in (IF \E c \in Clearers : clear[c] = "reset" THEN 0..Cardinality(Keys)
              ELSE {Cardinality(Used)}) :
       save' = [save EXCEPT !.pc = "lock", !.n = n]
  /\ UNCHANGED <<ptr, valid, hash, heap, lock, db, mainVars, clear>>

SaveLock ==
  /\ save.pc = "lock"
  /\ lock = Nil
  /\ lock' = Main
  /\ save' = [save EXCEPT !.pc = "copy"]
  /\ UNCHANGED <<ptr, valid, hash, heap, db, mainVars, clear>>

\* rte_hash_iterate yields the next key and node; a null table yields none.
SaveIterate(k) ==
  /\ save.pc = "copy"
  /\ ptr = "table"
  /\ k \in Used \ save.seen
  /\ save' = [save EXCEPT !.pc = "memcpy", !.seen = @ \cup {k}, !.cur = hash[k]]
  /\ UNCHANGED <<ptr, valid, hash, heap, lock, db, mainVars, clear>>

SaveMemcpy ==
  /\ save.pc = "memcpy"
  /\ save' = [save EXCEPT !.pc = "copy", !.cur = Nil]
  /\ UNCHANGED <<ptr, valid, hash, heap, lock, db, mainVars, clear>>

\* Mutant: an empty table is left without releasing the lock.
SaveUnlockForgets ==
  /\ save.pc = "copy"
  /\ ptr = "null" \/ Used \subseteq save.seen
  /\ lock' = IF Used = {} THEN lock ELSE Nil
  /\ save' = [save EXCEPT !.pc = "begin"]
  /\ UNCHANGED <<ptr, valid, hash, heap, db, mainVars, clear>>

SaveUnlock ==
  /\ save.pc = "copy"
  /\ ptr = "null" \/ Used \subseteq save.seen
  /\ lock' = Nil
  /\ save' = [save EXCEPT !.pc = "begin"]
  /\ UNCHANGED <<ptr, valid, hash, heap, db, mainVars, clear>>

\* BEGIN; when it fails the snapshot is abandoned.
SaveBegin ==
  /\ save.pc = "begin"
  /\ save' \in {[save EXCEPT !.pc = "write"], SaveIdle}
  /\ UNCHANGED <<ptr, valid, hash, heap, lock, db, mainVars, clear>>

\* The rows, then COMMIT, whatever becomes of them.
SaveCommit ==
  /\ save.pc = "write"
  /\ save' = SaveIdle
  /\ UNCHANGED <<ptr, valid, hash, heap, lock, db, mainVars, clear>>

-----------------------------------------------------------------------------
(* clear_ip_cache, on a policy thread.                                       *)

\* The pointer is looked at without the lock.
ClearCheck(c) ==
  /\ clear[c] = "check"
  /\ clear' = [clear EXCEPT ![c] = IF ptr = "table" THEN "locking" ELSE "idle"]
  /\ UNCHANGED <<ptr, valid, hash, heap, lock, db, mainVars, save>>

ClearLock(c) ==
  /\ clear[c] = "locking"
  /\ lock = Nil
  /\ lock' = c
  /\ clear' = [clear EXCEPT ![c] = "reset"]
  /\ UNCHANGED <<ptr, valid, hash, heap, db, mainVars, save>>

\* Mutant: the nodes are given back as well.
ClearResetFrees(c) ==
  /\ clear[c] = "reset"
  /\ hash' = IF ptr = "table" THEN [k \in Keys |-> Nil] ELSE hash
  /\ heap' = [x \in Nodes |-> IF \E k \in Keys : hash[k] = x THEN "free" ELSE heap[x]]
  /\ clear' = [clear EXCEPT ![c] = "unlock"]
  /\ UNCHANGED <<ptr, valid, lock, db, mainVars, save>>

\* rte_hash_reset forgets the nodes without freeing them; it ignores a null
\* table.
ClearReset(c) ==
  /\ clear[c] = "reset"
  /\ hash' = IF ptr = "table" THEN [k \in Keys |-> Nil] ELSE hash
  /\ clear' = [clear EXCEPT ![c] = "unlock"]
  /\ UNCHANGED <<ptr, valid, heap, lock, db, mainVars, save>>

ClearUnlock(c) ==
  /\ clear[c] = "unlock"
  /\ lock' = Nil
  /\ clear' = [clear EXCEPT ![c] = "idle"]
  /\ UNCHANGED <<ptr, valid, hash, heap, db, mainVars, save>>

-----------------------------------------------------------------------------
MainStep ==
  \/ InitIpCache \/ LoadDone \/ UseNode \/ AllocNode \/ AddToIpCache
  \/ (\E k \in Keys : LookupHit(k) \/ LookupMiss(k) \/ LookupExpired(k))
  \/ (\E k \in Keys, x \in Nodes : LoadRow(k, x))
  \/ (\E c \in Clearers : StartPolicyThread(c))
  \/ Shutdown \/ FreeNodes \/ FreeTable \/ NullPointer

SaveStep ==
  \/ SaveCheck \/ SaveCount \/ SaveLock \/ (\E k \in Keys : SaveIterate(k))
  \/ SaveMemcpy \/ SaveUnlock \/ SaveBegin \/ SaveCommit

ClearStep(c) == ClearCheck(c) \/ ClearLock(c) \/ ClearReset(c) \/ ClearUnlock(c)

Next == MainStep \/ SaveStep \/ (\E c \in Clearers : ClearStep(c))

Spec == Init /\ [][Next]_vars

\* The shutting-down main thread and the policy threads are scheduled.
FairSpec == Spec /\ WF_vars(SaveStep \/ FreeNodes \/ FreeTable \/ NullPointer)
                 /\ \A c \in Clearers : WF_vars(ClearStep(c))

-----------------------------------------------------------------------------
(* Properties.                                                               *)

\* What the table reaches is alive and reached once, except while free_ip_cache
\* is taking it down under the lock. So an expired entry and free_ip_cache never
\* give a node back twice, and no walk under the lock meets a freed one.
TableOwnsItsNodes ==
  pc # "freeTable" =>
    \A k \in Keys : hash[k] # Nil =>
      /\ heap[hash[k]] = "alive"
      /\ \A j \in Keys : hash[j] = hash[k] => j = k

\* No node is read after it was given back: neither the one a lookup returned,
\* which the main thread reads after releasing the spinlock while policy threads
\* clear the table (proc_packets.c:159), nor one the save copies (ip_cache.c:333).
NoReadAfterFree ==
  /\ pc = "use" => heap[held] = "alive"
  /\ save.pc = "memcpy" => heap[save.cur] = "alive"

\* A policy thread that holds the spinlock, or can take it now, and finds ip_hash
\* set, finds the table's memory still there: free_ip_cache clears the pointer
\* before it lets the lock go (ip_cache.c:525-528), so a clear that passed its
\* unlocked null check earlier (ip_cache.c:536) does no harm.
LockedTableIsValid ==
  lock # Main /\ ptr = "table" => valid

\* The snapshot taken at shutdown fits its buffer: only the main thread inserts,
\* so between its unlocked count (ip_cache.c:353) and its copy the table can only
\* be emptied, and a count taken in the middle of a reset is followed by the copy
\* of an empty table.
ShutdownSnapshotFits ==
  save.pc \in {"copy", "memcpy"} => Cardinality(save.seen) <= save.n

\* The destructor gets through although policy threads are still waiting for the
\* spinlock or hold it when it starts.
ShutdownCompletes == pc = "saving" ~> pc = "done"
=============================================================================
