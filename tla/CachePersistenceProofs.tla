----------------------- MODULE CachePersistenceProofs -----------------------
(***************************************************************************)
(* Proofs for CachePersistence: what a packet meets in a table that was      *)
(* filled, saved, lost and read back, and what is in the database during and *)
(* after the save at shutdown, for any number of destinations, restarts,     *)
(* policies and lifetimes.                                                   *)
(***************************************************************************)
EXTENDS CachePersistence, FiniteSetTheorems, TLAPS

\* A verdict filed under t is about t, unless a snapshot was torn, and carries
\* the time at which it was decided.
Honest(t, v) ==
  /\ ~torn => v.src = t
  /\ v.src # Nil => v.stamp = v.made

\* So it is wherever a verdict is kept.
Sound ==
  /\ \A k \in Keys : table[k] # None => Honest(k[1], table[k])
  /\ \A t \in Texts : disk[t] # None => Honest(t, disk[t])
  /\ \A t \in Texts : work[t] # None => Honest(t, work[t])
  /\ \A r \in save.rows : Honest(r[1], r[2])

\* Entries of an earlier policy were read back or decided late.
Origin == \A k \in Keys : table[k] # None /\ table[k].gen < gen => k \in restored \cup late

\* What is in the table is in hand at each stage of the save: nothing is inserted
\* any more, the table can only be emptied.
InHand ==
  /\ save.pc # "idle" => up = "stop"
  /\ save.pc = "copy" => Used = {} \/ Cardinality(Used) = save.n
  /\ save.pc = "begin" => Used = {} \/ save.rows = {Row(k) : k \in Used}
  /\ save.pc \in {"rows", "saved"} => Used = {} \/ last.rows = {Row(k) : k \in Used}

\* The connection sees the rows written so far over what was on disk before.
Partly ==
  \A t \in Texts : IF \E r \in last.rows \ save.rows : r[1] = t
                   THEN <<t, work[t]>> \in last.rows ELSE work[t] = last.old[t]

\* A save without a failed statement is inside its transaction until it commits.
Transaction ==
  /\ save.pc = "rows" /\ ~last.errors =>
       txn /\ disk = last.old /\ save.rows \subseteq last.rows /\ Partly
  /\ save.pc = "saved" /\ ~last.errors => Written(disk)
  /\ SavesAreAllOrNothing

IInv == TypeOK /\ Sound /\ Origin /\ InHand /\ Transaction

-----------------------------------------------------------------------------
LEMMA SaveIdleType == SaveIdle \in SaveState /\ SaveIdle.pc = "idle" /\ SaveIdle.rows = {}
  BY DEF SaveIdle, SaveState

LEMMA KeyParts == \A k \in Keys : k[1] \in Texts /\ k = <<k[1], k[2]>> /\ k[2] \in Fill
  BY DEF Keys

LEMMA ZeroKey == \A t \in Texts : <<t, Zero>> \in Keys /\ <<t, Zero>>[1] = t
  BY PersistenceAssumption DEF Keys

LEMMA RowParts == \A r \in Rows : r[1] \in Texts /\ r[2] \in Verdicts /\ r = <<r[1], r[2]>>
  BY DEF Rows

LEMMA UsedFinite == IsFiniteSet(Used) /\ Cardinality(Used) \in Nat
<1>1. IsFiniteSet(Keys)
  BY PersistenceAssumption, FS_Product DEF Keys
<1>2. Used \in SUBSET Keys
  BY DEF Used
<1>3. IsFiniteSet(Used)
  BY <1>1, <1>2, FS_Subset
<1> QED
  BY <1>3, FS_CardinalityType

LEMMA RowsOfTable == ASSUME TypeOK PROVE {Row(k) : k \in Used} \subseteq Rows
  BY KeyParts DEF TypeOK, Used, Row, Rows

\* What rte_hash_count gives the save to start with.
LEMMA CountedType ==
  /\ Counted \in SaveState
  /\ Counted.pc = "copy" /\ Counted.rows = {} /\ Counted.n = Cardinality(Used)
  BY UsedFinite DEF Counted, SaveIdle, SaveState

LEMMA InitIInv == ASSUME Init PROVE IInv
<1>1. save.pc = "idle" /\ save.rows = {} /\ save \in SaveState
  BY SaveIdleType DEF Init
<1>2. last = [old |-> disk, rows |-> {}, errors |-> FALSE]
  BY DEF Init, NoSave
<1>3. TypeOK
  <2>1. clock \in 0..MaxClock /\ boot \in 0..MaxBoot /\ gen \in 0..MaxGen /\ local \in 0..MaxGen
    BY PersistenceAssumption DEF Init
  <2>2. work \in [Texts -> Verdicts \cup {None}] /\ disk \in [Texts -> Verdicts \cup {None}]
    BY DEF Init
  <2>3. last \in [old : [Texts -> Verdicts \cup {None}], rows : SUBSET Rows, errors : BOOLEAN]
    BY <1>2, <2>2
  <2> QED
    BY <1>1, <2>1, <2>2, <2>3 DEF Init, TypeOK
<1>4. Sound /\ Origin
  BY <1>1 DEF Init, Sound, Origin
<1>5. InHand
  BY <1>1 DEF InHand
<1>6. Transaction
  BY <1>1, <1>2 DEF Transaction, SavesAreAllOrNothing
<1> QED
  BY <1>3, <1>4, <1>5, <1>6 DEF IInv

-----------------------------------------------------------------------------
(* Time, the table and the end of the process.                               *)

\* A step that touches neither the database nor the save.
LEMMA TransactionUntouched ==
  ASSUME Transaction, UNCHANGED <<txn, work, disk, save, last>>
  PROVE  Transaction'
  BY DEF Transaction, SavesAreAllOrNothing, Written, Partly

LEMMA TimeKeepsIInv ==
  ASSUME IInv, Tick \/ Reboot
  PROVE  IInv'
<1> USE DEF IInv
<1>0. UNCHANGED <<up, gen, local, table, restored, late, db, txn, work, disk, save, last, torn>>
  BY DEF Tick, Reboot, policy, entries, sqlite, saving
<1>1. TypeOK'
  BY <1>0, PersistenceAssumption DEF Tick, Reboot, TypeOK
<1>2. Sound' /\ Origin'
  BY <1>0 DEF Sound, Honest, Origin
<1>3. InHand'
  BY <1>0 DEF InHand, Used, Row
<1>4. Transaction'
  BY <1>0, TransactionUntouched
<1> QED
  BY <1>1, <1>2, <1>3, <1>4

LEMMA StartKeepsIInv ==
  ASSUME IInv, Start
  PROVE  IInv'
<1> USE DEF IInv
<1> PICK ok \in SUBSET Texts, fill \in [Texts -> Fill] :
      LET loaded == {KeyOf(t, fill) : t \in {x \in ok : db' /\ Loadable(x)}}
      IN /\ table' = [k \in Keys |-> IF k \in loaded THEN Loaded(k[1]) ELSE None]
         /\ restored' = loaded
  BY DEF Start
<1> DEFINE loaded == {KeyOf(t, fill) : t \in {x \in ok : db' /\ Loadable(x)}}
<1>0. UNCHANGED <<clock, boot, gen, txn, work, disk, save, torn>> /\ up' = "run" /\ up = "down"
      /\ local' = gen /\ late' = {} /\ db' \in BOOLEAN
  BY DEF Start, time
<1>1. loaded \subseteq Keys
  BY DEF KeyOf, Keys
<1>2. last' = [old |-> disk, rows |-> {}, errors |-> FALSE]
  BY DEF Start, NoSave
<1>3. last' \in [old : [Texts -> Verdicts \cup {None}], rows : SUBSET Rows, errors : BOOLEAN]
  BY <1>2 DEF TypeOK
<1>4. table' \in [Keys -> Verdicts \cup {None}]
  BY KeyParts DEF TypeOK, Loaded
<1>5. TypeOK'
  BY <1>0, <1>1, <1>3, <1>4 DEF TypeOK
<1>6. \A k \in Keys : table'[k] # None => k \in loaded /\ table'[k] = disk[k[1]]
  BY DEF Loaded
<1>7. Sound' /\ Origin'
  BY <1>0, <1>6, KeyParts DEF Sound, Honest, Origin
<1>8. save.pc = "idle"
  BY <1>0 DEF InHand
<1>9. InHand'
  BY <1>0, <1>8 DEF InHand
<1>10. Transaction'
  BY <1>0, <1>2, <1>8 DEF Transaction, SavesAreAllOrNothing
<1> QED
  BY <1>5, <1>7, <1>9, <1>10

LEMMA CopyPolicyKeepsIInv ==
  ASSUME IInv, CopyPolicy
  PROVE  IInv'
<1> USE DEF IInv
<1>0. UNCHANGED <<up, clock, boot, gen, table, restored, late, db, txn, work, disk, save, last, torn>>
      /\ local' = gen
  BY DEF CopyPolicy, time, entries, sqlite, saving
<1>1. TypeOK'
  BY <1>0 DEF TypeOK
<1>2. Sound' /\ Origin'
  BY <1>0 DEF Sound, Honest, Origin
<1>3. InHand'
  BY <1>0 DEF InHand, Used, Row
<1>4. Transaction'
  BY <1>0, TransactionUntouched
<1> QED
  BY <1>1, <1>2, <1>3, <1>4

LEMMA LookupKeepsIInv ==
  ASSUME IInv, NEW t \in Texts, LookupExpired(t)
  PROVE  IInv'
<1> USE DEF IInv
<1>0. UNCHANGED <<up, clock, boot, gen, local, db, txn, work, disk, save, last, torn>> /\ up = "run"
  BY DEF LookupExpired, time, policy, sqlite, saving
<1>1. /\ table' = [table EXCEPT ![<<t, Zero>>] = None]
      /\ restored' = restored \ {<<t, Zero>>} /\ late' = late \ {<<t, Zero>>}
  BY DEF LookupExpired
<1>2. TypeOK'
  BY <1>0, <1>1 DEF TypeOK
<1>3. \A k \in Keys : table'[k] # None => table'[k] = table[k] /\ k # <<t, Zero>>
  BY <1>1, ZeroKey DEF TypeOK
<1>4. Sound'
  BY <1>0, <1>3 DEF Sound, Honest
<1>5. Origin'
  BY <1>0, <1>1, <1>3 DEF Origin
<1>6. InHand'
  BY <1>0 DEF InHand
<1>7. Transaction'
  BY <1>0, TransactionUntouched
<1> QED
  BY <1>2, <1>4, <1>5, <1>6, <1>7

LEMMA AddKeepsIInv ==
  ASSUME IInv, NEW t \in Texts, NEW ttl \in Ttls, AddToDnsCache(t, ttl)
  PROVE  IInv'
<1> USE DEF IInv
<1> DEFINE v == [src |-> t, stamp |-> clock, ttl |-> ttl, boot |-> boot, made |-> clock, gen |-> local]
<1>0. UNCHANGED <<up, clock, boot, gen, local, restored, db, txn, work, disk, save, last, torn>> /\ up = "run"
  BY DEF AddToDnsCache, time, policy, sqlite, saving
<1>1. /\ table' = [table EXCEPT ![<<t, Zero>>] = v]
      /\ late' = IF local < gen THEN late \cup {<<t, Zero>>} ELSE late
  BY DEF AddToDnsCache
<1>2. v \in Verdicts /\ v.src = t /\ v.stamp = v.made /\ v.gen = local
  BY DEF TypeOK, Verdicts
<1> HIDE DEF v
<1>3. late' \subseteq Keys /\ table' \in [Keys -> Verdicts \cup {None}]
  BY <1>1, <1>2, ZeroKey DEF TypeOK
<1>4. TypeOK'
  BY <1>0, <1>3 DEF TypeOK
<1>5. \A k \in Keys : table'[k] = IF k = <<t, Zero>> THEN v ELSE table[k]
  BY <1>1 DEF TypeOK
<1>6. Sound'
  BY <1>0, <1>2, <1>5, ZeroKey DEF Sound, Honest
<1>7. Origin'
  BY <1>0, <1>1, <1>2, <1>5 DEF Origin
<1>8. InHand'
  BY <1>0 DEF InHand
<1>9. Transaction'
  BY <1>0, TransactionUntouched
<1> QED
  BY <1>4, <1>6, <1>7, <1>8, <1>9

LEMMA UpdateKeepsIInv ==
  ASSUME IInv, PolicyUpdate
  PROVE  IInv'
<1> USE DEF IInv
<1>0. UNCHANGED <<up, clock, boot, local, db, txn, work, disk, save, last, torn>>
  BY DEF PolicyUpdate, time, sqlite, saving
<1>1. \A k \in Keys : table'[k] = None
  BY DEF PolicyUpdate
<1>2. TypeOK'
  BY <1>0, PersistenceAssumption DEF PolicyUpdate, TypeOK
<1>3. Sound' /\ Origin'
  BY <1>0, <1>1 DEF Sound, Honest, Origin
<1>4. Used' = {}
  BY <1>1 DEF Used
<1>5. InHand'
  BY <1>0, <1>4 DEF InHand
<1>6. Transaction'
  BY <1>0, TransactionUntouched
<1> QED
  BY <1>2, <1>3, <1>5, <1>6

LEMMA GoneKeepsIInv ==
  ASSUME IInv, Gone
  PROVE  IInv'
<1> USE DEF IInv
<1>0. UNCHANGED <<clock, boot, gen, local, disk, last, torn>> /\ up' = "down" /\ work' = disk
  BY DEF Gone, time, policy
<1>1. save' \in SaveState /\ save'.pc = "idle" /\ save'.rows = {}
  BY SaveIdleType DEF Gone
<1>2. TypeOK'
  BY <1>0, <1>1 DEF Gone, TypeOK
<1>3. \A k \in Keys : table'[k] = None
  BY DEF Gone
<1>4. Sound' /\ Origin'
  BY <1>0, <1>1, <1>3 DEF Sound, Honest, Origin
<1>5. InHand'
  BY <1>1 DEF InHand
<1>6. Transaction'
  BY <1>0, <1>1 DEF Transaction, SavesAreAllOrNothing, Written
<1> QED
  BY <1>2, <1>4, <1>5, <1>6

-----------------------------------------------------------------------------
(* The save.                                                                 *)

LEMMA ShutdownKeepsIInv ==
  ASSUME IInv, Shutdown
  PROVE  IInv'
<1> USE DEF IInv
<1>0. UNCHANGED <<clock, boot, gen, local, table, restored, late, db, txn, work, disk, last, torn>>
      /\ up' = "stop"
  BY DEF Shutdown, time, policy, entries, sqlite
<1>1. /\ save' \in SaveState /\ save'.rows = {} /\ save'.pc \in {"idle", "copy"}
      /\ save'.pc = "copy" => save'.n = Cardinality(Used)
  BY SaveIdleType, CountedType DEF Shutdown
<1>2. TypeOK'
  BY <1>0, <1>1 DEF TypeOK
<1>3. Sound' /\ Origin'
  BY <1>0, <1>1 DEF Sound, Honest, Origin
<1>4. Used' = Used
  BY <1>0 DEF Used
<1>5. InHand'
  BY <1>0, <1>1, <1>4 DEF InHand
<1>6. Transaction'
  BY <1>0, <1>1 DEF Transaction, SavesAreAllOrNothing, Written
<1> QED
  BY <1>2, <1>3, <1>5, <1>6

LEMMA CopyKeepsIInv ==
  ASSUME IInv, SaveCopy
  PROVE  IInv'
<1> USE DEF IInv
<1>0. UNCHANGED <<up, clock, boot, gen, local, table, restored, late, db, txn, work, disk, last>>
      /\ save.pc = "copy" /\ save \in SaveState
  BY DEF SaveCopy, time, policy, entries, sqlite, TypeOK
<1>1. Used' = Used /\ {Row(k) : k \in Used}' = {Row(k) : k \in Used}
  BY <1>0 DEF Used, Row
<1>2. \A k \in Used : Honest(k[1], table[k]) /\ Row(k)[1] = k[1] /\ Row(k)[2] = table[k]
  BY DEF Sound, Used, Row
<1> DEFINE Copied(R) ==
      /\ save' = [save EXCEPT !.pc = "begin", !.rows = R]
      /\ torn' = torn \/ torn' = TRUE
      /\ \A r \in R : Honest(r[1], r[2])'
      /\ Used = {} \/ R = {Row(k) : k \in Used}
<1>3. \E R \in SUBSET Rows : Copied(R)
  <2>1. ASSUME Cardinality(Used) >= save.n, NEW K \in SUBSET Used, Cardinality(K) = save.n,
               save' = [save EXCEPT !.pc = "begin", !.rows = {Row(k) : k \in K}], torn' = torn
        PROVE  \E R \in SUBSET Rows : Copied(R)
    <3> DEFINE S == {Row(k) : k \in K}
    <3>1. S \in SUBSET Rows
      BY RowsOfTable
    <3>2. \A r \in S : Honest(r[1], r[2])'
      BY <1>2, <2>1 DEF Honest
    <3>3. Used = {} \/ K = Used
      BY <1>0, <2>1, UsedFinite, FS_Subset DEF InHand
    <3> QED
      <4>1. Copied(S)
        BY <2>1, <3>2, <3>3
      <4> QED
        BY <3>1, <4>1
  <2>2. ASSUME Cardinality(Used) < save.n, NEW L \in SUBSET Leftover,
               save' = [save EXCEPT !.pc = "begin", !.rows = L \cup {Row(k) : k \in Used}], torn' = TRUE
        PROVE  \E R \in SUBSET Rows : Copied(R)
    <3> DEFINE S == L \cup {Row(k) : k \in Used}
    <3>1. S \in SUBSET Rows
      BY RowsOfTable DEF Leftover
    <3>2. \A r \in S : Honest(r[1], r[2])'
      BY <1>2, <2>2 DEF Honest, Leftover
    <3>3. Used = {}
      BY <1>0, <2>2, UsedFinite DEF InHand, SaveState
    <3> QED
      <4>1. Copied(S)
        BY <2>2, <3>2, <3>3
      <4> QED
        BY <3>1, <4>1
  <2> QED
    BY <2>1, <2>2 DEF SaveCopy
<1>4. PICK R \in SUBSET Rows : Copied(R)
  BY <1>3
<1>5. save' \in SaveState /\ save'.pc = "begin" /\ save'.rows = R
  BY <1>0, <1>4 DEF SaveState
<1>6. torn' \in BOOLEAN /\ (torn => torn')
  <2>1. CASE torn' = torn
    BY <2>1 DEF TypeOK
  <2>2. CASE torn' = TRUE
    BY <2>2
  <2> QED
    BY <1>4, <2>1, <2>2
<1>7. TypeOK'
  BY <1>0, <1>5, <1>6 DEF TypeOK
<1>8. Sound' /\ Origin'
  BY <1>0, <1>4, <1>5, <1>6 DEF Sound, Honest, Origin
<1>9. InHand'
  BY <1>0, <1>1, <1>4, <1>5 DEF InHand
<1>10. Transaction'
  BY <1>0, <1>5 DEF Transaction, SavesAreAllOrNothing, Written
<1> QED
  BY <1>7, <1>8, <1>9, <1>10

LEMMA BeginKeepsIInv ==
  ASSUME IInv, SaveBegin
  PROVE  IInv'
<1> USE DEF IInv
<1>0. UNCHANGED <<up, clock, boot, gen, local, table, restored, late, db, disk, torn>>
      /\ save.pc = "begin" /\ save \in SaveState /\ up = "stop"
  BY DEF SaveBegin, time, policy, entries, TypeOK, InHand
<1>1. Used' = Used /\ {Row(k) : k \in Used}' = {Row(k) : k \in Used}
  BY <1>0 DEF Used, Row
<1>2. CASE save' = SaveIdle /\ UNCHANGED <<txn, work, last>>
  <2>1. save' \in SaveState /\ save'.pc = "idle" /\ save'.rows = {}
    BY <1>2, SaveIdleType
  <2>2. TypeOK'
    BY <1>0, <1>2, <2>1 DEF TypeOK
  <2>3. Sound' /\ Origin' /\ InHand'
    BY <1>0, <1>2, <2>1 DEF Sound, Honest, Origin, InHand
  <2>4. Transaction'
    BY <1>0, <1>2, <2>1 DEF Transaction, SavesAreAllOrNothing, Written
  <2> QED
    BY <2>2, <2>3, <2>4
<1>3. CASE /\ txn' = TRUE /\ work' = disk
           /\ save' = [save EXCEPT !.pc = "rows"]
           /\ last' = [old |-> disk, rows |-> save.rows, errors |-> FALSE]
  <2>1. save' \in SaveState /\ save'.pc = "rows" /\ save'.rows = save.rows /\ save.rows \subseteq Rows
    BY <1>0, <1>3 DEF SaveState
  <2>2. last'.old = disk /\ last'.rows = save.rows /\ ~last'.errors
        /\ last' \in [old : [Texts -> Verdicts \cup {None}], rows : SUBSET Rows, errors : BOOLEAN]
    BY <1>3, <2>1 DEF TypeOK
  <2>3. TypeOK'
    BY <1>0, <1>3, <2>1, <2>2 DEF TypeOK
  <2>4. Sound' /\ Origin'
    BY <1>0, <1>3, <2>1 DEF Sound, Honest, Origin
  <2>5. InHand'
    BY <1>0, <1>1, <2>1, <2>2 DEF InHand
  <2>6. Partly'
    BY <1>3, <2>1, <2>2 DEF Partly
  <2>7. Transaction'
    BY <1>0, <1>3, <2>1, <2>2, <2>6 DEF Transaction, SavesAreAllOrNothing
  <2> QED
    BY <2>3, <2>4, <2>5, <2>7
<1> QED
  BY <1>2, <1>3 DEF SaveBegin

LEMMA RowKeepsIInv ==
  ASSUME IInv, SaveRow
  PROVE  IInv'
<1> USE DEF IInv
<1>0. UNCHANGED <<up, clock, boot, gen, local, table, restored, late, db, torn>>
      /\ save.pc = "rows" /\ save \in SaveState /\ up = "stop"
  BY DEF SaveRow, time, policy, entries, TypeOK, InHand
<1>1. Used' = Used /\ {Row(k) : k \in Used}' = {Row(k) : k \in Used}
  BY <1>0 DEF Used, Row
<1> PICK r \in save.rows, error \in BOOLEAN :
       /\ save' = [save EXCEPT !.rows = @ \ {r}]
       /\ last' = [last EXCEPT !.errors = @ \/ error]
       /\ \/ Execute(r)
          \/ error /\ UNCHANGED <<txn, work, disk>>
          \/ error /\ txn /\ txn' = FALSE /\ work' = disk /\ UNCHANGED disk
  BY DEF SaveRow
<1>2. r \in Rows /\ r[1] \in Texts /\ r[2] \in Verdicts /\ r = <<r[1], r[2]>> /\ Honest(r[1], r[2])
  BY <1>0, RowParts DEF SaveState, Sound
<1>3. save' \in SaveState /\ save'.pc = "rows" /\ save'.rows = save.rows \ {r}
  BY <1>0 DEF SaveState
<1>4. last'.old = last.old /\ last'.rows = last.rows /\ last'.errors = (last.errors \/ error)
      /\ last' \in [old : [Texts -> Verdicts \cup {None}], rows : SUBSET Rows, errors : BOOLEAN]
  BY DEF TypeOK
<1>5. \A t \in Texts : work'[t] \in {work[t], disk[t]} \/ (t = r[1] /\ work'[t] = r[2])
  BY DEF Execute, TypeOK
<1>6. /\ work' \in [Texts -> Verdicts \cup {None}]
      /\ (disk' = disk \/ disk' = work') /\ txn' \in BOOLEAN
  BY <1>2 DEF Execute, TypeOK
<1>7. TypeOK'
  <2>1. txn' \in BOOLEAN /\ disk' \in [Texts -> Verdicts \cup {None}]
    BY <1>6 DEF Execute, TypeOK
  <2> QED
    BY <1>0, <1>3, <1>4, <1>6, <2>1 DEF TypeOK
<1>8. Sound' /\ Origin'
  <2>1. \A t \in Texts : work'[t] # None => Honest(t, work'[t])
    BY <1>2, <1>5 DEF Sound
  <2>2. \A t \in Texts : disk'[t] # None => Honest(t, disk'[t])
    BY <1>6, <2>1 DEF Sound
  <2> QED
    BY <1>0, <1>3, <2>1, <2>2 DEF Sound, Honest, Origin
<1>9. InHand'
  BY <1>0, <1>1, <1>3, <1>4 DEF InHand
<1>10. Transaction'
  <2>1. CASE last'.errors
    BY <1>3, <2>1 DEF Transaction, SavesAreAllOrNothing
  <2>2. CASE ~last'.errors
    <3>1. ~error /\ ~last.errors
      BY <1>4, <2>2
    <3>2. txn /\ disk = last.old /\ save.rows \subseteq last.rows /\ Partly
      BY <1>0, <3>1 DEF Transaction
    <3>3. txn' = txn /\ disk' = disk /\ work' = [work EXCEPT ![r[1]] = r[2]]
      BY <3>1, <3>2 DEF Execute
    <3>4. Partly'
      <4> SUFFICES ASSUME NEW t \in Texts
                   PROVE  IF \E q \in last.rows \ save'.rows : q[1] = t
                          THEN <<t, work'[t]>> \in last.rows ELSE work'[t] = last.old[t]
        BY <1>4 DEF Partly
      <4>1. CASE t = r[1]
        <5>1. work'[t] = r[2]
          BY <3>3, <4>1 DEF TypeOK
        <5>2. <<t, work'[t]>> = r /\ r \in last.rows /\ r \notin save'.rows
          BY <1>2, <1>3, <3>2, <4>1, <5>1
        <5> QED
          BY <4>1, <5>2
      <4>2. CASE t # r[1]
        <5>1. work'[t] = work[t]
          BY <3>3, <4>2 DEF TypeOK
        <5>2. (\E q \in last.rows \ save'.rows : q[1] = t) <=> (\E q \in last.rows \ save.rows : q[1] = t)
          BY <1>3, <4>2
        <5> QED
          BY <3>2, <5>1, <5>2 DEF Partly
      <4> QED
        BY <4>1, <4>2
    <3> QED
      BY <1>3, <1>4, <3>2, <3>3, <3>4 DEF Transaction, SavesAreAllOrNothing
  <2> QED
    BY <2>1, <2>2
<1> QED
  BY <1>7, <1>8, <1>9, <1>10

LEMMA CommitKeepsIInv ==
  ASSUME IInv, SaveCommit
  PROVE  IInv'
<1> USE DEF IInv
<1>0. UNCHANGED <<up, clock, boot, gen, local, table, restored, late, db, work, last, torn>>
      /\ save.pc = "rows" /\ save.rows = {} /\ save \in SaveState /\ up = "stop"
  BY DEF SaveCommit, time, policy, entries, TypeOK, InHand
<1>1. Used' = Used /\ {Row(k) : k \in Used}' = {Row(k) : k \in Used}
  BY <1>0 DEF Used, Row
<1>2. CASE txn /\ disk' = work /\ txn' = FALSE /\ save' = [save EXCEPT !.pc = "saved"]
  <2>1. save' \in SaveState /\ save'.pc = "saved" /\ save'.rows = {}
    BY <1>0, <1>2 DEF SaveState
  <2>2. TypeOK'
    BY <1>0, <1>2, <2>1 DEF TypeOK
  <2>3. Sound' /\ Origin'
    BY <1>0, <1>2, <2>1 DEF Sound, Honest, Origin
  <2>4. InHand'
    BY <1>0, <1>1, <2>1 DEF InHand
  <2>5. ~last.errors => Written(work)
    BY <1>0 DEF Transaction, Partly, Written
  <2>6. Transaction'
    BY <1>0, <1>2, <2>1, <2>5 DEF Transaction, SavesAreAllOrNothing, Written
  <2> QED
    BY <2>2, <2>3, <2>4, <2>6
<1>3. CASE save' = SaveIdle /\ UNCHANGED <<disk, txn>>
  <2>1. save' \in SaveState /\ save'.pc = "idle" /\ save'.rows = {}
    BY <1>3, SaveIdleType
  <2>2. TypeOK'
    BY <1>0, <1>3, <2>1 DEF TypeOK
  <2>3. Sound' /\ Origin' /\ InHand'
    BY <1>0, <1>3, <2>1 DEF Sound, Honest, Origin, InHand
  <2>4. Transaction'
    BY <1>0, <1>3, <2>1 DEF Transaction, SavesAreAllOrNothing, Written
  <2> QED
    BY <2>2, <2>3, <2>4
<1> QED
  BY <1>2, <1>3 DEF SaveCommit

-----------------------------------------------------------------------------
LEMMA NextKeepsIInv == ASSUME IInv, [Next]_vars PROVE IInv'
<1>1. CASE UNCHANGED vars
  <2>1. UNCHANGED <<up, clock, boot, gen, local, table, restored, late, db, txn, work, disk, save, last, torn>>
    BY <1>1 DEF vars, time, policy, entries, sqlite, saving
  <2>2. Transaction'
    BY <2>1, TransactionUntouched DEF IInv
  <2>3. InHand'
    BY <2>1 DEF IInv, InHand, Used, Row
  <2>4. TypeOK' /\ Sound' /\ Origin'
    BY <2>1 DEF IInv, TypeOK, Sound, Honest, Origin
  <2> QED
    BY <2>2, <2>3, <2>4 DEF IInv
<1>2. CASE Tick \/ Reboot \/ Start \/ CopyPolicy \/ PolicyUpdate
  BY <1>2, TimeKeepsIInv, StartKeepsIInv, CopyPolicyKeepsIInv, UpdateKeepsIInv
<1>3. CASE Shutdown \/ SaveStep
  BY <1>3, ShutdownKeepsIInv, CopyKeepsIInv, BeginKeepsIInv, RowKeepsIInv, CommitKeepsIInv DEF SaveStep
<1>4. CASE Exit \/ Crash
  BY <1>4, GoneKeepsIInv DEF Exit, Crash
<1>5. CASE \E t \in Texts : LookupExpired(t) \/ \E ttl \in Ttls : AddToDnsCache(t, ttl)
  BY <1>5, LookupKeepsIInv, AddKeepsIInv
<1> QED
  BY <1>1, <1>2, <1>3, <1>4, <1>5 DEF Next

\* The inductive invariant of CachePersistence.
THEOREM Invariance == Spec => []IInv
<1>1. Init => IInv
  BY InitIInv
<1>2. IInv /\ [Next]_vars => IInv'
  BY NextKeepsIInv
<1> QED
  BY <1>1, <1>2, PTL DEF Spec

\* The variables of CachePersistence keep their types.
THEOREM TypeCorrect == Spec => []TypeOK
<1>1. IInv => TypeOK
  BY DEF IInv
<1> QED
  BY <1>1, Invariance, PTL

\* A packet meets only verdicts decided for its own destination, through any
\* sequence of saves, crashes and restarts in which no snapshot was torn
\* (domain_cache.c lookup_dns_cache, load_cache_from_sqlite,
\* save_all_cache_to_sqlite).
THEOREM HitsAreForTheirDestination == Spec => []HitsAreGenuine
<1>1. IInv => HitsAreGenuine
  BY ZeroKey DEF IInv, Sound, Honest, HitsAreGenuine, Hit
<1> QED
  BY <1>1, Invariance, PTL

\* No way through the database and back prolongs a verdict within the boot it was
\* decided in (domain_cache.c lookup_dns_cache, create_domain_node_from_db_row).
THEOREM RestartsKeepTheTime == Spec => []RestartsDoNotProlong
<1>1. ASSUME IInv, NEW t \in Texts, Hit(t), table[<<t, Zero>>].src # Nil
      PROVE  clock < table[<<t, Zero>>].made + table[<<t, Zero>>].ttl
  <2> DEFINE v == table[<<t, Zero>>]
  <2>1. v \in Verdicts /\ v.stamp = v.made /\ ~Expired(v)
    BY <1>1, ZeroKey DEF IInv, TypeOK, Sound, Honest, Hit
  <2>2. v.stamp \in 0..MaxClock /\ v.ttl \in Ttls /\ clock \in 0..MaxClock
    BY <1>1, <2>1 DEF IInv, TypeOK, Verdicts
  <2> HIDE DEF v
  <2>3. v.ttl \in Nat /\ MaxClock + v.ttl <= ClockSize /\ MaxClock \in Nat /\ ClockSize \in Nat
    BY <2>2, PersistenceAssumption
  <2>4. clock < v.made + v.ttl
    BY <2>1, <2>2, <2>3 DEF Expired, Age
  <2> QED
    BY <2>4 DEF v
<1>2. IInv => RestartsDoNotProlong
  BY <1>1 DEF RestartsDoNotProlong
<1> QED
  BY <1>2, Invariance, PTL

\* A verdict of a replaced policy was read back at the last start, or decided
\* after the clear by an iteration of MainLoop that still had the old policy
\* (worker.cpp requestPolicyFromController, MainLoop).
THEOREM OldVerdictsAreExplained == Spec => []OldVerdictsHaveAnOrigin
<1>1. IInv => OldVerdictsHaveAnOrigin
  BY ZeroKey DEF IInv, Origin, OldVerdictsHaveAnOrigin, Hit
<1> QED
  BY <1>1, Invariance, PTL

\* A save without a failed statement is on disk as a whole or not at all, at
\* every moment and after every crash (domain_cache.c save_all_cache_to_sqlite).
THEOREM SavesAreAtomic == Spec => []SavesAreAllOrNothing
<1>1. IInv => SavesAreAllOrNothing
  BY DEF IInv, Transaction
<1> QED
  BY <1>1, Invariance, PTL

\* After the save at shutdown has gone through, every destination still in the
\* table has its own verdict in the database (domain_cache.c
\* save_all_cache_to_sqlite).
THEOREM ShutdownSaveIsComplete == Spec => []ShutdownSaves
<1>1. ASSUME IInv PROVE ShutdownSaves
  <2> SUFFICES ASSUME save.pc = "saved", ~last.errors, NEW k \in Used
               PROVE  \E j \in Used : j[1] = k[1] /\ disk[k[1]] = table[j]
    BY DEF ShutdownSaves
  <2>1. Written(disk) /\ last.rows = {Row(j) : j \in Used}
    BY <1>1 DEF IInv, Transaction, InHand
  <2>2. Row(k) \in last.rows /\ Row(k)[1] = k[1] /\ k[1] \in Texts
    BY <2>1, KeyParts DEF Row, Used
  <2>3. <<k[1], disk[k[1]]>> \in last.rows
    BY <2>1, <2>2 DEF Written
  <2>4. PICK j \in Used : <<k[1], disk[k[1]]>> = Row(j)
    BY <2>1, <2>3
  <2> QED
    BY <2>4 DEF Row
<1> QED
  BY <1>1, Invariance, PTL
=============================================================================
