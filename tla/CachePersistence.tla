-------------------------- MODULE CachePersistence --------------------------
(***************************************************************************)
(* The verdicts of one cache across runs of the worker: the hash table, the *)
(* save at shutdown that copies it to SQLite, the rows that outlive the      *)
(* process, and the load at the next start (domain_cache.c; ip_cache.c is    *)
(* the same code for addresses). VerdictCache has the memory of the table;   *)
(* here it is the contents that count.                                       *)
(*                                                                           *)
(* There is no other save: init_dns_cache asks for one every hour, but       *)
(* nothing in the program calls rte_timer_subsystem_init, and without it     *)
(* rte_timer_reset and rte_timer_manage return -EINVAL and do nothing.       *)
(*                                                                           *)
(* A row is found by its text, a table entry by the bytes of its key. For    *)
(* IPv4 addresses these differ: the key built from a row keeps whatever the  *)
(* stack held in the bytes an IPv4 address does not fill (Fill), a packet's  *)
(* key has them zero. For domains and IPv6 addresses Fill is {Zero}.         *)
(*                                                                           *)
(* A verdict is when it was decided (stamp, in seconds of the timer cycle    *)
(* counter, which starts again with the machine) and for how long (ttl),     *)
(* with its history as ghosts: what it was decided for (src, Nil for bytes   *)
(* that never were a verdict), in which boot of the machine (boot) at which  *)
(* second of it (made), and under which policy (gen). The decision itself,   *)
(* the trust level and the categories table follow the row and decide        *)
(* nothing after the load.                                                   *)
(***************************************************************************)
EXTENDS Integers, FiniteSets

CONSTANTS Texts,      \* domain, or ip_str of ip_main_table
          Fill, Zero, \* what may stand in the unset bytes of a key
          Nil,
          Ttls,       \* values of ttl_domain, ttl_ip
          ClockSize,  \* 2^64 cycles, in seconds
          MaxClock,   \* bound: seconds a machine stays up
          MaxBoot,    \* bound: reboots
          MaxGen      \* bound: policy updates

ASSUME PersistenceAssumption ==
  /\ Zero \in Fill /\ Nil \notin Texts
  /\ Ttls \subseteq Nat
  /\ ClockSize \in Nat /\ MaxClock \in Nat /\ MaxBoot \in Nat /\ MaxGen \in Nat
  /\ \A t \in Ttls : MaxClock + t <= ClockSize
  /\ IsFiniteSet(Texts) /\ IsFiniteSet(Fill)

VARIABLES
  up,        \* the process: "down", "run" (MainLoop) or "stop" (~Worker)
  clock,     \* rte_get_timer_cycles() / rte_get_timer_hz()
  boot,      \* ghost: reboots so far
  gen,       \* ghost: policies received so far; current_policy is number gen
  local,     \* ghost: the number of MainLoop's local_policy
  table,     \* dns_hash: key |-> verdict or None
  restored,  \* ghost: the keys whose entry was read back at start
  late,      \* ghost: those decided by an iteration begun before the last update
  db,        \* cache_table is open
  txn,       \* a transaction is open on the connection
  work,      \* main_table as the connection sees it
  disk,      \* main_table as committed
  save,      \* save_all_cache_to_sqlite
  last,      \* ghost: the last save: what was on disk, what it had to write, errors
  torn       \* ghost: a snapshot with more rows than entries was taken

time    == <<clock, boot>>
policy  == <<gen, local>>
sqlite  == <<db, txn, work, disk>>
saving  == <<save, last, torn>>
entries == <<table, restored, late>>
vars    == <<up, time, policy, entries, sqlite, saving>>

Keys == Texts \X Fill
Verdicts == [src : Texts \cup {Nil}, stamp : 0..MaxClock, ttl : Ttls,
             boot : 0..MaxBoot, made : 0..MaxClock, gen : 0..MaxGen]
None == [none |-> TRUE]
Rows == Texts \X Verdicts
Used == {k \in Keys : table[k] # None}

\* n: rows the snapshot has room for; rows: those not yet written
SaveState == [pc : {"idle", "copy", "begin", "rows", "saved"}, n : Nat, rows : SUBSET Rows]
SaveIdle == [pc |-> "idle", n |-> 0, rows |-> {}]

TypeOK ==
  /\ up \in {"down", "run", "stop"} /\ clock \in 0..MaxClock /\ boot \in 0..MaxBoot
  /\ gen \in 0..MaxGen /\ local \in 0..MaxGen
  /\ table \in [Keys -> Verdicts \cup {None}] /\ restored \subseteq Keys
  /\ late \subseteq Keys
  /\ db \in BOOLEAN /\ txn \in BOOLEAN
  /\ work \in [Texts -> Verdicts \cup {None}] /\ disk \in [Texts -> Verdicts \cup {None}]
  /\ save \in SaveState /\ torn \in BOOLEAN
  /\ last \in [old : [Texts -> Verdicts \cup {None}], rows : SUBSET Rows, errors : BOOLEAN]

NoSave == [old |-> disk, rows |-> {}, errors |-> FALSE]

Init ==
  /\ up = "down" /\ clock = 0 /\ boot = 0 /\ gen = 0 /\ local = 0
  /\ table = [k \in Keys |-> None] /\ restored = {} /\ late = {}
  /\ db = FALSE /\ txn = FALSE
  /\ work = [t \in Texts |-> None] /\ disk = work
  /\ save = SaveIdle /\ last = NoSave /\ torn = FALSE

-----------------------------------------------------------------------------
(* Time and the two caches' common test of age.                              *)

\* The uint64 difference: a timestamp of an earlier boot that lies ahead of the
\* counter gives a huge age.
Age(v) == IF v.stamp <= clock THEN clock - v.stamp ELSE ClockSize + clock - v.stamp

Expired(v) == Age(v) >= v.ttl

Tick ==
  /\ clock < MaxClock
  /\ clock' = clock + 1
  /\ UNCHANGED <<up, boot, policy, entries, sqlite, saving>>

\* The machine goes down and comes back: the cycle counter starts at zero.
Reboot ==
  /\ up = "down" /\ boot < MaxBoot
  /\ clock' = 0 /\ boot' = boot + 1
  /\ UNCHANGED <<up, policy, entries, sqlite, saving>>

-----------------------------------------------------------------------------
(* Start: init_tables_sqlite_dns_cache and load_cache_from_sqlite.           *)

\* create_domain_node_from_db_row: LOAD_EXPIRED rows stay in the database.
Loadable(t) == disk[t] # None /\ ~Expired(disk[t])

\* ip_str_to_key fills a struct ip_key nothing else was written to.
KeyOf(t, fill) == <<t, fill[t]>>

\* Mutant: the node made from a row is stamped like a new one.
LoadedRestamped(t) == [disk[t] EXCEPT !.stamp = clock]

Loaded(t) == disk[t]

\* ok: the rows whose allocations, queries and insertion all succeed. No policy
\* thread runs before MainLoop has made its first copy of the policy.
Start ==
  /\ up = "down"
  /\ up' = "run" /\ local' = gen
  /\ db' \in BOOLEAN
  /\ \E ok \in SUBSET Texts, fill \in [Texts -> Fill] :
       LET loaded == {KeyOf(t, fill) : t \in {x \in ok : db' /\ Loadable(x)}}
       IN /\ table' = [k \in Keys |-> IF k \in loaded THEN Loaded(k[1]) ELSE None]
          /\ restored' = loaded
  /\ late' = {} /\ last' = NoSave
  /\ UNCHANGED <<time, gen, txn, work, disk, save, torn>>

-----------------------------------------------------------------------------
(* The table while packets are decided and policies replaced.                *)

\* The next iteration of MainLoop: local_policy = current_policy.
CopyPolicy ==
  /\ up = "run"
  /\ local' = gen
  /\ UNCHANGED <<up, time, gen, entries, sqlite, saving>>

\* lookup_dns_cache removes an entry it finds expired.
LookupExpired(t) ==
  LET k == <<t, Zero>> IN
  /\ up = "run"
  /\ table[k] # None /\ Expired(table[k])
  /\ table' = [table EXCEPT ![k] = None]
  /\ restored' = restored \ {k} /\ late' = late \ {k}
  /\ UNCHANGED <<up, time, policy, sqlite, saving>>

\* After a miss: the verdict by local_policy under the packet's key. The policy
\* may have been replaced and the table cleared since the iteration began.
AddToDnsCache(t, ttl) ==
  LET k == <<t, Zero>> IN
  /\ up = "run"
  /\ table[k] = None
  /\ table' = [table EXCEPT ![k] = [src |-> t, stamp |-> clock, ttl |-> ttl,
                                    boot |-> boot, made |-> clock, gen |-> local]]
  /\ late' = IF local < gen THEN late \cup {k} ELSE late
  /\ UNCHANGED <<up, time, policy, restored, sqlite, saving>>

\* Mutant: the entries read back at start are kept.
PolicyUpdateKeepsRestored ==
  /\ gen < MaxGen
  /\ gen' = gen + 1
  /\ table' = [k \in Keys |-> IF k \in restored THEN table[k] ELSE None]
  /\ restored' = {} /\ late' = {}
  /\ UNCHANGED <<up, time, local, sqlite, saving>>

\* requestPolicyFromController, under policy_mutex: the policy is replaced and
\* the table, if there is one, emptied. The database is not touched. The thread
\* is detached, so this may happen in the middle of the save at shutdown.
PolicyUpdate ==
  /\ gen < MaxGen
  /\ gen' = gen + 1
  /\ table' = [k \in Keys |-> None]
  /\ restored' = {} /\ late' = {}
  /\ UNCHANGED <<up, time, local, sqlite, saving>>

-----------------------------------------------------------------------------
(* save_all_cache_to_sqlite, called by ~Worker on the main thread before the *)
(* table is freed.                                                           *)

\* Mutant: room for one row less than there are entries.
CountedShort == [SaveIdle EXCEPT !.pc = "copy",
                                 !.n = IF Used = {} THEN 0 ELSE Cardinality(Used) - 1]

\* rte_hash_count and malloc, before the lock is taken.
Counted == [SaveIdle EXCEPT !.pc = "copy", !.n = Cardinality(Used)]

\* Without a connection the save returns at once.
Shutdown ==
  /\ up = "run"
  /\ up' = "stop"
  /\ save' = IF db THEN Counted ELSE SaveIdle
  /\ UNCHANGED <<time, policy, entries, sqlite, last, torn>>

Row(k) == <<k[1], table[k]>>

\* What malloc's memory may be taken for in a row that was not copied.
Leftover == {r \in Rows : r[2].src = Nil /\ r[2].boot = 0 /\ r[2].made = 0 /\ r[2].gen = 0}

\* Mutant: the loop over the rows runs to i <= count.
SaveCopyOneMore ==
  /\ save.pc = "copy"
  /\ \E r \in Leftover :
       save' = [save EXCEPT !.pc = "begin", !.rows = {r} \cup {Row(k) : k \in Used}]
  /\ UNCHANGED <<up, time, policy, entries, sqlite, last, torn>>

\* copy_data_from_hash_to_snapshot copies every entry, under the lock; the loop
\* that writes goes to n. Entries a policy thread cleared after the count leave
\* rows the copy never filled (a text nobody asks for is no row of the model);
\* entries beyond n would be copied behind the buffer and not written.
SaveCopy ==
  /\ save.pc = "copy"
  /\ \/ /\ Cardinality(Used) >= save.n
        /\ \E K \in SUBSET Used :
             /\ Cardinality(K) = save.n
             /\ save' = [save EXCEPT !.pc = "begin", !.rows = {Row(k) : k \in K}]
        /\ UNCHANGED torn
     \/ /\ Cardinality(Used) < save.n
        /\ \E L \in SUBSET Leftover :
             /\ Cardinality(L) <= save.n - Cardinality(Used)
             /\ save' = [save EXCEPT !.pc = "begin", !.rows = L \cup {Row(k) : k \in Used}]
        /\ torn' = TRUE
  /\ UNCHANGED <<up, time, policy, entries, sqlite, last>>

\* Mutant: no BEGIN, every row is committed on its own.
SaveBeginNot ==
  /\ save.pc = "begin"
  /\ work' = disk
  /\ save' = [save EXCEPT !.pc = "rows"]
  /\ last' = [old |-> disk, rows |-> save.rows, errors |-> FALSE]
  /\ UNCHANGED <<up, time, policy, entries, db, txn, disk, torn>>

\* BEGIN TRANSACTION; when it fails the snapshot is dropped.
SaveBegin ==
  /\ save.pc = "begin"
  /\ \/ /\ txn' = TRUE /\ work' = disk
        /\ save' = [save EXCEPT !.pc = "rows"]
        /\ last' = [old |-> disk, rows |-> save.rows, errors |-> FALSE]
     \/ save' = SaveIdle /\ UNCHANGED <<txn, work, last>>
  /\ UNCHANGED <<up, time, policy, entries, db, disk, torn>>

\* What an executed statement does: it joins the transaction, or is committed at
\* once when there is none.
Execute(r) ==
  /\ work' = [work EXCEPT ![r[1]] = r[2]]
  /\ disk' = IF txn THEN disk ELSE work'
  /\ UNCHANGED txn

\* save_single_node_to_sqlite, in the order of the hash table: INSERT OR REPLACE
\* of the row, then its categories. The loop goes on after an error, which leaves
\* the row replaced or not. On a full disk, an I/O error or lack of memory SQLite
\* may roll the whole transaction back by itself.
SaveRow ==
  /\ save.pc = "rows"
  /\ \E r \in save.rows, error \in BOOLEAN :
       /\ save' = [save EXCEPT !.rows = @ \ {r}]
       /\ last' = [last EXCEPT !.errors = @ \/ error]
       /\ \/ Execute(r)
          \/ error /\ UNCHANGED <<txn, work, disk>>
          \/ error /\ txn /\ txn' = FALSE /\ work' = disk /\ UNCHANGED disk
  /\ UNCHANGED <<up, time, policy, entries, db, torn>>

\* COMMIT; it fails when the transaction is gone. When it fails nothing rolls back
\* and the connection stays inside the transaction until it is closed.
SaveCommit ==
  /\ save.pc = "rows" /\ save.rows = {}
  /\ \/ /\ txn
        /\ disk' = work /\ txn' = FALSE
        /\ save' = [save EXCEPT !.pc = "saved"]
     \/ save' = SaveIdle /\ UNCHANGED <<disk, txn>>
  /\ UNCHANGED <<up, time, policy, entries, db, work, last, torn>>

-----------------------------------------------------------------------------
(* The end of the process: memory and open transaction are lost.             *)

Gone ==
  /\ up' = "down"
  /\ table' = [k \in Keys |-> None] /\ restored' = {} /\ late' = {}
  /\ db' = FALSE /\ txn' = FALSE /\ work' = disk
  /\ save' = SaveIdle
  /\ UNCHANGED <<time, policy, disk, last, torn>>

\* free_dns_cache, close_sqlite_cache and the return from main.
Exit ==
  /\ up = "stop" /\ save.pc \in {"idle", "saved"}
  /\ Gone

Crash ==
  /\ up # "down"
  /\ Gone

-----------------------------------------------------------------------------
SaveStep == SaveCopy \/ SaveBegin \/ SaveRow \/ SaveCommit

Next ==
  \/ Tick \/ Reboot \/ Start \/ CopyPolicy \/ PolicyUpdate \/ Shutdown \/ SaveStep
  \/ Exit \/ Crash
  \/ (\E t \in Texts : LookupExpired(t) \/ \E ttl \in Ttls : AddToDnsCache(t, ttl))

Spec == Init /\ [][Next]_vars

\* Time passes, the main loop goes round and a save that was begun goes on;
\* packets, updates, signals and restarts are left open.
FairSpec == Spec /\ WF_vars(Tick) /\ WF_vars(CopyPolicy) /\ WF_vars(SaveStep)

-----------------------------------------------------------------------------
(* Properties.                                                               *)

\* What a packet for t meets in the table.
Hit(t) == table[<<t, Zero>>] # None /\ ~Expired(table[<<t, Zero>>])

\* A packet never meets a verdict that was not decided for its own destination,
\* through any sequence of saves, crashes and restarts, as long as no policy
\* update emptied the table between the count and the copy of a save
\* (domain_cache.c:309-312), which then writes uninitialised rows.
HitsAreGenuine ==
  ~torn => \A t \in Texts : Hit(t) => table[<<t, Zero>>].src = t

\* Saving, crashing and starting again does not prolong a verdict: met in the
\* boot it was decided in, it was decided less than its TTL ago, whatever number
\* of times it went to the database and back (domain_cache.c:77-98). Across a
\* reboot the code promises nothing of the kind.
RestartsDoNotProlong ==
  \A t \in Texts : LET v == table[<<t, Zero>>] IN
    Hit(t) /\ v.src # Nil /\ v.boot = boot => clock < v.made + v.ttl

\* A verdict by an earlier policy met in the table has one of two origins: it was
\* read back from the database at the last start, no update having come since,
\* or an iteration of MainLoop begun before the last update decided it after that
\* update had cleared the table (worker.cpp:278-279, 435-445).
OldVerdictsHaveAnOrigin ==
  \A t \in Texts : LET k == <<t, Zero>> IN
    Hit(t) /\ table[k].gen < gen => k \in restored \cup late

\* d is what the rows of the last save make of what was on disk before it.
Written(d) ==
  \A t \in Texts : IF \E r \in last.rows : r[1] = t
                   THEN <<t, d[t]>> \in last.rows ELSE d[t] = last.old[t]

\* A save in which no statement failed is on disk as a whole or not at all, while
\* it runs and after the process has ended at any moment of it
\* (domain_cache.c:316-337). After a failed row nothing is promised: rows are
\* skipped, or, after a rollback by SQLite, committed one by one.
SavesAreAllOrNothing ==
  ~last.errors => disk = last.old \/ Written(disk)

\* Once the save at shutdown has committed without a failed row, the row of every
\* destination in the table is a verdict the table has for it
\* (domain_cache.c:302-341), whichever policy threads are still running.
ShutdownSaves ==
  save.pc = "saved" /\ ~last.errors =>
    \A k \in Used : \E j \in Used : j[1] = k[1] /\ disk[k[1]] = table[j]

\* A verdict that stays in the table gets a row while the worker runs: "Periodic
\* saving of the cache occurs every hour using DPDK timers"
\* (worker/README(DPDK FILTRING).md:55, domain_cache.c:398-402).
VerdictsReachDisk ==
  \A t \in Texts :
    up = "run" /\ db /\ table[<<t, Zero>>] # None
      ~> disk[t] # None \/ up # "run" \/ table[<<t, Zero>>] = None
=============================================================================
