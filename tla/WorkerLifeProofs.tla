-------------------------- MODULE WorkerLifeProofs --------------------------
(***************************************************************************)
(* Proofs for WorkerLife. The counters: a packet is counted once on its way  *)
(* to the registry and the totals at the gateway never go back, for any      *)
(* number of packets and of failed pushes. The ports: the worker touches its *)
(* own devices only and runs on three of its own, for any number of ports    *)
(* the machine has besides, whatever call of the library fails.              *)
(***************************************************************************)
EXTENDS WorkerLife, TLAPS

Order == [received |-> 1, passed |-> 2, dropped |-> 3, end |-> 4]

\* The counters the push under way has collected.
Collected ==
  IF thread = "push" THEN Counters
  ELSE IF thread \in Counters THEN {c \in Counters : Order[c] < Order[thread]} ELSE {}

\* A flush leaves nothing behind at the counters it has passed, and nothing at
\* all when it is over; and what a push has collected is not behind what the
\* gateway has, since the registry only grows.
CountInv ==
  /\ CountedOnce
  /\ main \in {"flush", "last"} =>
       /\ at \in Counters \cup {"end"}
       /\ \A c \in Counters : Order[c] < Order[at] => transit[c] = 0
  /\ main \notin {"flush", "last"} => \A c \in Counters : transit[c] = 0
  /\ \A c \in Collected : gateway[c] <= snap[c]

CountTypes ==
  /\ \A c \in Counters : /\ local[c] \in Nat /\ transit[c] \in Nat /\ registry[c] \in Nat
                         /\ recorded[c] \in Nat /\ snap[c] \in Nat /\ gateway[c] \in Nat
  /\ local \in [Counters -> Nat] /\ transit \in [Counters -> Nat]
  /\ registry \in [Counters -> Nat] /\ recorded \in [Counters -> Nat]
  /\ snap \in [Counters -> Nat] /\ gateway \in [Counters -> Nat]

LEMMA TypesOfCounts == ASSUME TypeOK PROVE CountTypes
<1>1. /\ local \in [Counters -> Nat] /\ transit \in [Counters -> Nat]
      /\ registry \in [Counters -> Nat] /\ recorded \in [Counters -> Nat]
      /\ snap \in [Counters -> Nat] /\ gateway \in [Counters -> Nat]
  BY Zenon DEF TypeOK
<1> QED
  BY Zenon, <1>1 DEF CountTypes

-----------------------------------------------------------------------------
(* The counters.                                                             *)

LEMMA InitCountInv == ASSUME Init PROVE CountInv
  BY DEF Init, CountInv, CountedOnce, Collected, Zero, Counters

\* The steps that leave the counters and the metrics thread alone.
LEMMA OtherStepsKeepCountInv ==
  ASSUME CountInv, UNCHANGED countVars, UNCHANGED <<thread, snap, gateway>>,
         main \notin {"flush", "last"} \/ at = "end" \/ UNCHANGED <<main, at>>,
         main' \notin {"flush", "last"} \/ UNCHANGED <<main, at>>
  PROVE  CountInv'
  BY DEF CountInv, CountedOnce, Collected, countVars, Counters, Order

LEMMA MainKeepsCountInv ==
  ASSUME TypeOK, CountInv, MainStep
  PROVE  CountInv'
<1> USE TypesOfCounts
<1>1. CASE Record
  BY <1>1 DEF Record, CountInv, CountedOnce, CountTypes, Collected, pushVars, Counters
<1>2. CASE Flush \/ LastFlush
  BY <1>2 DEF Flush, LastFlush, FlushExchange, CountInv, CountedOnce, CountTypes, Collected,
              pushVars, Counters, Order, Zero
<1>3. CASE Increment
  <2>1. at \in Counters
    BY Zenon, <1>3 DEF Increment, CountInv
  <2>2. CountedOnce' /\ at' \in Counters \cup {"end"}
    BY <1>3, <2>1 DEF Increment, CountInv, CountedOnce, CountTypes, pushVars, Counters, Following
  <2>3. \A c \in Counters : Order[c] < Order[at'] => transit'[c] = 0
    BY <1>3, <2>1 DEF Increment, CountInv, CountTypes, Counters, Following, Order
  <2> QED
    BY Zenon, <1>3, <2>2, <2>3 DEF Increment, CountInv, Collected, pushVars
<1>4. CASE FlushEnds
  BY Zenon, <1>4, OtherStepsKeepCountInv DEF FlushEnds, Destroy, pushVars
<1>5. CASE ReadCpuLine
  BY Zenon, <1>5, OtherStepsKeepCountInv DEF ReadCpuLine, pushVars
<1>6. CASE StartThread
  BY Zenon, <1>6 DEF StartThread, CountInv, CountedOnce, Collected, countVars, Counters
<1>7. CASE LeaveEarly \/ InitStructs
  BY Zenon, <1>7, OtherStepsKeepCountInv DEF LeaveEarly, InitStructs, Destroy, pushVars
<1>8. CASE InitPort
  <2>1. main' \in {"crashed", "close", "stopping", "start", "init"}
    BY Zenon, <1>8 DEF InitPort, Destroy, UninitAndThrow
  <2> QED
    BY Zenon, <1>8, <2>1, OtherStepsKeepCountInv DEF InitPort, pushVars
<1>9. CASE StartPort
  <2>1. main' \in {"close", "stopping", "loop", "start"}
    BY Zenon, <1>9 DEF StartPort, Destroy
  <2> QED
    BY Zenon, <1>9, <2>1, OtherStepsKeepCountInv DEF StartPort, pushVars
<1>10. CASE ClosePort
  BY Zenon, <1>10, OtherStepsKeepCountInv DEF ClosePort, pushVars
<1>11. CASE ClearIsRunning \/ Join
  BY Zenon, <1>11, OtherStepsKeepCountInv DEF ClearIsRunning, Join, pushVars
<1> QED
  BY Zenon, <1>1, <1>2, <1>3, <1>4, <1>5, <1>6, <1>7, <1>8, <1>9, <1>10, <1>11 DEF MainStep

LEMMA ThreadKeepsCountInv ==
  ASSUME TypeOK, CountInv, ThreadStep
  PROVE  CountInv'
<1> USE TypesOfCounts
<1>1. CASE CheckRunning \/ Wake
  BY <1>1 DEF CheckRunning, Wake, CountInv, CountedOnce, Collected, countVars, Counters, Order
<1>2. CASE Collect
  <2>1. CountedOnce'
    BY <1>2 DEF Collect, CountInv, CountedOnce, CountTypes, countVars
  <2>2. \A c \in Collected' : gateway'[c] <= snap'[c]
    BY <1>2 DEF Collect, CountInv, CountedOnce, CountTypes, Collected, Counters, Order, Following
  <2> QED
    BY Zenon, <1>2, <2>1, <2>2 DEF Collect, CountInv, countVars
<1>3. CASE PushMetrics
  BY <1>3 DEF PushMetrics, CountInv, CountedOnce, CountTypes, Collected, countVars, Zero, Counters
<1>4. CASE PushHangs
  BY <1>4 DEF PushHangs, CountInv, CountedOnce, CountTypes, Collected, countVars, Zero, Counters
<1> QED
  BY Zenon, <1>1, <1>2, <1>3, <1>4 DEF ThreadStep

-----------------------------------------------------------------------------
(* The ports.                                                                *)

Turn == [in |-> 1, out |-> 2, exc |-> 3]

\* The port has a device of the library, under its own name.
HasDevice(p) == port_id[p] \in Ids /\ dev[port_id[p]].name = Name(p)

\* What the library's table looks like: a name is there once, only while the
\* virtual device exists, and a port's id leads to its own device or to none.
TableInv ==
  /\ \A i, j \in Ids : dev[i].name = dev[j].name /\ dev[i].name \in Ports => i = j
  /\ \A i \in Ids : dev[i].name \in Ports => dev[i].name \in vdevs
  /\ \A i \in Ids : dev[i].name = "none" => dev[i] = Free
  /\ \A p \in Ports : port_id[p] \in Ids /\ dev[port_id[p]] # Free => HasDevice(p)

\* Who has a device at each stage: the ports initDPDK is done with while it
\* runs, all three in the main loop, and while ~Worker closes them every device that
\* was not refused belongs to a port still to be closed.
StageInv ==
  /\ main \in {"ctor", "eal"} => vdevs = {} /\ refused = {}
  /\ main = "init" =>
       /\ at \in Ports /\ refused = {}
       /\ vdevs = {p \in Ports : Turn[p] < Turn[at]}
       /\ at = "exc" => ~same
       /\ \A p \in Ports : IF Turn[p] < Turn[at] THEN p \in structs /\ HasDevice(p)
                                                 ELSE port_id[p] = NoId
  /\ main \in {"start", "loop", "flush", "last"} =>
       /\ structs = Ports /\ ~same /\ \A p \in Ports : HasDevice(p)
  /\ main = "start" =>
       /\ at \in Ports
       /\ \A p \in Ports : Turn[p] < Turn[at] => dev[port_id[p]].started
  /\ main \in {"loop", "flush", "last"} => \A p \in Ports : dev[port_id[p]].started
  /\ main = "close" =>
       /\ at \in Ports
       /\ \A v \in vdevs \ refused :
            \E p \in structs : Turn[p] >= Turn[at] /\ Name(p) = v /\ HasDevice(p)
  /\ main \in {"stopping", "join", "exit"} => vdevs \subseteq refused

PortInv == TableInv /\ StageInv

LEMMA NameFacts ==
  /\ NoId \notin Ids /\ Ids \subseteq Nat
  /\ \A p \in Ports : Name(p) \in Ports /\ (~same => Name(p) = p)
  /\ Name("in") = "in" /\ Name("exc") = "exc"
  BY LifeAssumption DEF NoId, Ids, Name, Ports

\* A new device takes a free id and leaves the others alone.
LEMMA CreatedFacts ==
  ASSUME TypeOK, NEW name \in Ports, NEW d \in Created(name)
  PROVE  \E id \in Ids :
           /\ dev[id] = Free
           /\ d = [i \in Ids |-> IF i = id THEN [name |-> name, started |-> FALSE] ELSE dev[i]]
<1>1. PICK id \in Ids : dev[id] = Free /\ d = [dev EXCEPT ![id] = [name |-> name, started |-> FALSE]]
  BY Zenon DEF Created
<1> QED
  BY Zenon, <1>1 DEF TypeOK

LEMMA FreeType == Free \in Devices /\ Free.name = "none"
  BY Zenon DEF Free, Devices, Ports

LEMMA RemovedType ==
  ASSUME NEW d \in [Ids -> Devices], NEW name
  PROVE  Removed(d, name) \in [Ids -> Devices]
  BY Zenon, FreeType DEF Removed

LEMMA StoppedType ==
  ASSUME NEW d \in [Ids -> Devices], NEW id \in Ids, NEW b \in BOOLEAN
  PROVE  [d EXCEPT ![id].started = b] \in [Ids -> Devices]
<1>1. [d[id] EXCEPT !.started = b] \in Devices
  BY Zenon DEF Devices
<1> QED
  BY Zenon, <1>1

LEMMA InitPortInv == ASSUME Init PROVE PortInv
<1>1. \A i \in Ids : dev[i] = Free \/ dev[i].name = "other"
  BY Zenon DEF Init
<1>2. TableInv
  BY Zenon, <1>1, NameFacts, FreeType DEF Init, TableInv, Ports
<1>3. StageInv
  BY Zenon DEF Init, StageInv
<1> QED
  BY Zenon, <1>2, <1>3 DEF PortInv

\* Steps of the loop, the metrics thread and the signal, which touch no port.
LEMMA OtherStepsKeepPortInv ==
  ASSUME PortInv, UNCHANGED portVars,
         \/ UNCHANGED <<main, at>>
         \/ {main, main'} \subseteq {"loop", "flush", "last"}
         \/ {main, main'} \subseteq {"ctor", "eal"}
         \/ {main, main'} \subseteq {"stopping", "join", "exit"}
         \/ main = "eal" /\ main' = "stopping"
  PROVE  PortInv'
<1> USE DEF portVars
<1>1. \A p : Name(p)' = Name(p) /\ (HasDevice(p)' <=> HasDevice(p))
  BY Zenon DEF HasDevice, Name
<1>2. TableInv'
  BY Zenon, <1>1 DEF PortInv, TableInv
<1>3. StageInv'
  <2>1. CASE UNCHANGED <<main, at>>
    BY Zenon, <2>1, <1>1 DEF PortInv, StageInv
  <2>2. CASE {main, main'} \subseteq {"loop", "flush", "last"}
    BY Zenon, <2>2, <1>1 DEF PortInv, StageInv
  <2>3. CASE {main, main'} \subseteq {"ctor", "eal"}
    BY Zenon, <2>3, <1>1 DEF PortInv, StageInv
  <2>4. CASE {main, main'} \subseteq {"stopping", "join", "exit"} \/ (main = "eal" /\ main' = "stopping")
    BY Zenon, <2>4, <1>1 DEF PortInv, StageInv
  <2> QED
    BY Zenon, <2>1, <2>2, <2>3, <2>4
<1> QED
  BY Zenon, <1>2, <1>3 DEF PortInv

LEMMA InitStructsKeepsPortInv ==
  ASSUME TypeOK, PortInv, InitStructs
  PROVE  PortInv'
<1>1. TableInv'
  BY Zenon, NameFacts DEF InitStructs, PortInv, TableInv, HasDevice
<1>2. StageInv'
  BY DEF InitStructs, PortInv, StageInv, Turn, Ports
<1> QED
  BY Zenon, <1>1, <1>2 DEF PortInv

LEMMA StartKeepsPortInv ==
  ASSUME TypeOK, PortInv, StartPort
  PROVE  PortInv'
<1> USE NameFacts
<1>1. /\ at \in Ports /\ HasDevice(at) /\ ~same /\ structs = Ports
      /\ \A p \in Ports : HasDevice(p)
  BY Zenon DEF PortInv, StageInv, StartPort
<1>2. PICK started \in BOOLEAN : dev' = [dev EXCEPT ![port_id[at]].started = started]
  BY Zenon DEF StartPort
<1>3. \A i \in Ids : /\ dev'[i].name = dev[i].name
                     /\ i # port_id[at] => dev'[i] = dev[i]
  BY ZenonT(60), <1>1, <1>2 DEF TypeOK, Devices, HasDevice
<1>4. \A p \in Ports : HasDevice(p)' /\ port_id'[p] = port_id[p]
  BY Zenon, <1>1, <1>3 DEF HasDevice, StartPort, Name
<1>5. TableInv'
  BY SMTT(60), <1>1, <1>3, <1>4 DEF TableInv, PortInv, StartPort, HasDevice, Ports
<1>6. StageInv'
  <2>1. CASE main' = "close"
    BY SMTT(60), <2>1, <1>1, <1>4 DEF StartPort, Destroy, StageInv, Ports, Turn, TypeOK, Name
  <2>2. ASSUME main' \in {"loop", "start"}
        PROVE  \A p \in Ports : Turn[p] <= Turn[at] => dev'[port_id[p]].started
    <3>1. dev'[port_id[at]].started
      BY <2>2, <1>1 DEF StartPort, Destroy, HasDevice, TypeOK, Devices, Ports
    <3> QED
      BY SMTT(60), <3>1, <1>1, <1>3 DEF StartPort, PortInv, StageInv, Turn, Ports, HasDevice
  <2>3. CASE main' = "loop"
    BY SMTT(60), <2>2, <2>3, <1>1, <1>4 DEF StartPort, Destroy, StageInv, Turn, Ports, After
  <2>4. CASE main' = "start"
    BY <2>2, <2>4, <1>1, <1>4 DEF StartPort, Destroy, StageInv, Turn, Ports, After
  <2>5. main' \in {"close", "loop", "start"}
    BY Zenon, <1>1 DEF StartPort, Destroy, Ports
  <2> QED
    BY Zenon, <2>1, <2>3, <2>4, <2>5
<1> QED
  BY Zenon, <1>5, <1>6 DEF PortInv

\* A throw of initDPDK: the ports it was done with are left to ~Worker.
LEMMA ThrowKeepsPortInv ==
  ASSUME TypeOK, PortInv, main = "init", at \in structs, Destroy(structs),
         UNCHANGED <<same, structs>>,
         \A p \in Ports : Turn[p] < Turn[at] => HasDevice(p)',
         vdevs' \ refused' \subseteq vdevs, TableInv'
  PROVE  PortInv'
<1>1. /\ at \in Ports /\ vdevs = {p \in Ports : Turn[p] < Turn[at]}
      /\ at = "exc" => ~same
      /\ \A p \in Ports : Turn[p] < Turn[at] => p \in structs
  BY Zenon DEF PortInv, StageInv
<1>2. CASE {"in", "out"} \subseteq structs
  <2>1. \A v \in vdevs' \ refused' : v \in structs' /\ Turn[v] >= 1 /\ Name(v)' = v /\ HasDevice(v)'
    BY <1>1 DEF Name, Turn, Ports
  <2>2. main' = "close" /\ at' = "in"
    BY Zenon, <1>2 DEF Destroy
  <2>3. StageInv'
    BY Zenon, <2>1, <2>2 DEF StageInv, Turn, Ports
  <2> QED
    BY Zenon, <2>3 DEF PortInv
<1>3. CASE ~({"in", "out"} \subseteq structs)
  <2>1. at = "in"
    BY <1>1, <1>3 DEF Ports, Turn
  <2>2. vdevs = {}
    BY <1>1, <2>1 DEF Ports, Turn
  <2>3. main' = "stopping"
    BY Zenon, <1>3 DEF Destroy
  <2>4. StageInv'
    BY Zenon, <2>2, <2>3 DEF StageInv
  <2> QED
    BY Zenon, <2>4 DEF PortInv
<1> QED
  BY Zenon, <1>2, <1>3

LEMMA InitPortKeepsPortInv ==
  ASSUME TypeOK, PortInv, InitPort
  PROVE  PortInv'
<1> USE NameFacts
<1>1. /\ at \in Ports /\ refused = {} /\ vdevs = {p \in Ports : Turn[p] < Turn[at]}
      /\ at = "exc" => ~same
      /\ \A p \in Ports : Turn[p] < Turn[at] => p \in structs /\ HasDevice(p)
      /\ \A p \in Ports : Turn[p] >= Turn[at] => port_id[p] = NoId
      /\ main = "init" /\ UNCHANGED <<same, structs>>
  BY DEF InitPort, PortInv, StageInv, Turn, Ports
<1>2. \A p : Name(p)' = Name(p)
  BY Zenon, <1>1 DEF Name
<1>3. CASE main' = "crashed" /\ UNCHANGED <<at, port_id, dev, vdevs, refused>>
  BY Zenon, <1>1, <1>2, <1>3 DEF PortInv, TableInv, StageInv, HasDevice
<1>4. CASE at \in structs /\ Destroy(structs) /\ UNCHANGED <<port_id, dev, vdevs, refused>>
  <2>1. \A p : HasDevice(p)' <=> HasDevice(p)
    BY Zenon, <1>2, <1>4 DEF HasDevice
  <2>2. TableInv'
    BY Zenon, <1>4, <2>1 DEF PortInv, TableInv
  <2> QED
    BY Zenon, <1>1, <1>4, <2>1, <2>2, ThrowKeepsPortInv
<1> DEFINE n == Name(at)
           found(d) == find_port_by_dev_name(d, n)
           new(d) == CHOOSE i \in found(d) : TRUE
           Throws(d) == UninitAndThrow(d, n) /\ UNCHANGED port_id
           ThrowsLate(d) == /\ found(d) # {} /\ UninitAndThrow(d, n)
                            /\ port_id' = [port_id EXCEPT ![at] = new(d)]
           Works(d) == /\ found(d) # {} /\ dev' = d /\ vdevs' = vdevs \cup {n}
                       /\ port_id' = [port_id EXCEPT ![at] = new(d)]
                       /\ IF at = "exc" THEN main' = "start" /\ at' = "in"
                                        ELSE main' = "init" /\ at' = After(at)
                       /\ UNCHANGED refused
<1>5. ASSUME at \in structs, n \notin vdevs, NEW d \in Created(n),
             Throws(d) \/ ThrowsLate(d) \/ Works(d)
      PROVE  PortInv'
  <2>1. PICK id \in Ids :
          /\ dev[id] = Free
          /\ d = [i \in Ids |-> IF i = id THEN [name |-> n, started |-> FALSE] ELSE dev[i]]
    <3>1. n \in Ports /\ d \in Created(n) /\ TypeOK
      BY Zenon, <1>1
    <3> HIDE DEF n, Throws, ThrowsLate, Works
    <3> QED
      BY Zenon, <3>1, CreatedFacts
  <2>2. \A i \in Ids : dev[i].name # n
    BY ZenonT(60), <1>1, <1>5 DEF PortInv, TableInv
  <2>0. n \in Ports
    BY Zenon, <1>1
  <2> HIDE DEF n
  <2>3. n \in Ports /\ d[id].name = n /\ \A i \in Ids : d[i].name = n <=> i = id
    BY Zenon, <2>1, <2>2, <2>0
  <2>4. \A i \in Ids : i # id => d[i] = dev[i]
    BY Zenon, <2>1
  <2>5. found(d) # {} => new(d) = id
    <3>1. found(d) \subseteq {id}
      BY Zenon, <2>3 DEF find_port_by_dev_name
    <3> QED
      BY Zenon, <3>1
  <2>6. Removed(d, n) = dev
    BY Zenon, <2>1, <2>2, <2>3 DEF Removed, TypeOK
  <2>7. n # "none" /\ d[id] # Free
    BY Zenon, <2>3, FreeType DEF Ports
  <2> HIDE DEF found, new
  <2>8. \A p \in Ports : /\ p # at => port_id'[p] = port_id[p]
                         /\ port_id'[at] \in {NoId, id}
    BY SMTT(60), <1>1, <1>5, <2>5 DEF Throws, ThrowsLate, Works, TypeOK, Turn, Ports
  <2>9. \A p \in Ports : p # at => HasDevice(p) \/ port_id[p] = NoId
    BY <1>1 DEF Turn, Ports
  <2>10. dev' \in {dev, d}
    BY Zenon, <1>5, <2>6 DEF Throws, ThrowsLate, Works, UninitAndThrow
  <2>11. \A p \in Ports : HasDevice(p) => port_id[p] # id
    BY Zenon, <2>1, FreeType DEF HasDevice, Ports
  <2>12. \A p \in Ports : p # at /\ HasDevice(p) => HasDevice(p)'
    BY Zenon, <1>2, <2>4, <2>8, <2>10, <2>11 DEF HasDevice
  <2>13. \A p \in Ports : port_id'[p] \in Ids /\ dev'[port_id'[p]] # Free => HasDevice(p)'
    <3> TAKE p \in Ports
    <3>1. CASE p # at
      BY Zenon, <3>1, <2>8, <2>9, <2>12
    <3>2. CASE p = at
      BY Zenon, <3>2, <1>2, <2>1, <2>3, <2>8, <2>10 DEF HasDevice, n
    <3> QED
      BY Zenon, <3>1, <3>2
  <2>14. dev' = d => vdevs' = vdevs \cup {n}
    BY Zenon, <1>5, <2>1, <2>6, <2>7 DEF Throws, ThrowsLate, Works, UninitAndThrow
  <2>15. dev' = dev => vdevs \subseteq vdevs'
    BY Zenon, <1>5, <2>1, <2>6, <2>7 DEF Throws, ThrowsLate, Works, UninitAndThrow
  <2>16. TableInv'
    <3>1. CASE dev' = dev
      BY Zenon, <3>1, <2>13, <2>15 DEF PortInv, TableInv
    <3>2. CASE dev' = d
      BY SMTT(60), <3>2, <2>3, <2>4, <2>7, <2>13, <2>14 DEF PortInv, TableInv
    <3> QED
      BY Zenon, <3>1, <3>2, <2>10
  <2>17. CASE Throws(d) \/ ThrowsLate(d)
    <3>1. vdevs' \ refused' \subseteq vdevs /\ Destroy(structs)
      BY Zenon, <2>17, <1>1 DEF Throws, ThrowsLate, UninitAndThrow
    <3>2. \A p \in Ports : Turn[p] < Turn[at] => HasDevice(p)'
      BY <1>1, <2>12 DEF Turn, Ports
    <3> QED
      BY Zenon, <1>1, <1>5, <2>16, <3>1, <3>2, ThrowKeepsPortInv
  <2>18. CASE Works(d)
    <3>1. port_id'[at] = id /\ dev' = d /\ vdevs' = vdevs \cup {n} /\ refused' = {}
      BY Zenon, <2>18, <1>1, <2>5 DEF Works, TypeOK
    <3>2. \A p \in Ports : Turn[p] <= Turn[at] => HasDevice(p)'
      <4> SUFFICES ASSUME NEW p \in Ports, Turn[p] <= Turn[at] PROVE HasDevice(p)'
        BY Zenon
      <4>1. CASE p = at
        BY Zenon, <4>1, <3>1, <1>2, <2>3 DEF HasDevice, n
      <4>2. CASE p # at
        BY SMTT(60), <4>2, <1>1, <2>12 DEF Turn, Ports
      <4> QED
        BY Zenon, <4>1, <4>2
    <3>3. same => at = "in"
      BY <1>1, <1>5 DEF n, Name, Turn, Ports
    <3>4. n = at
      BY Zenon, <3>3 DEF n, Name
    <3>5. CASE at = "exc"
      <4>1. main' = "start" /\ at' = "in"
        BY Zenon, <3>5, <2>18 DEF Works
      <4>2. structs' = Ports
        <5>1. "in" \in structs /\ "out" \in structs
          BY <3>5, <1>1 DEF Turn, Ports
        <5>2. "exc" \in structs
          BY Zenon, <3>5, <1>5
        <5>3. structs' = structs /\ structs \subseteq Ports
          BY Zenon, <1>1 DEF TypeOK
        <5> QED
          BY Zenon, <5>1, <5>2, <5>3 DEF Ports
      <4> QED
        BY SMTT(60), <4>1, <4>2, <3>2, <3>3, <3>5, <1>1, <2>16 DEF PortInv, StageInv, Turn, Ports
    <3>6. CASE at # "exc"
      <4>1. main' = "init" /\ at' = After(at)
        BY Zenon, <3>6, <2>18 DEF Works
      <4>2. at' \in Ports /\ Turn[at'] = Turn[at] + 1
        BY <4>1, <3>6, <1>1 DEF After, Turn, Ports
      <4>3. vdevs' = {p \in Ports : Turn[p] < Turn[at']}
        BY <4>2, <3>1, <3>4, <1>1 DEF Turn, Ports
      <4>4. \A p \in Ports : IF Turn[p] < Turn[at'] THEN p \in structs' /\ HasDevice(p)'
                                                    ELSE port_id'[p] = NoId
        BY SMTT(60), <4>2, <3>2, <1>1, <1>5, <2>8 DEF Turn, Ports
      <4>5. at' = "exc" => ~same'
        BY SMTT(60), <4>2, <3>3, <1>1 DEF Turn, Ports
      <4> QED
        BY Zenon, <4>1, <4>2, <4>3, <4>4, <4>5, <3>1, <2>16 DEF PortInv, StageInv
    <3> QED
      BY Zenon, <3>5, <3>6
  <2> QED
    BY Zenon, <1>5, <2>17, <2>18
<1> QED
  BY Zenon, <1>3, <1>4, <1>5 DEF InitPort

\* net_port_close acts on the port's own device and nothing else: it leaves it,
\* stops it or takes it away.
LEMMA CloseFacts ==
  ASSUME TypeOK, TableInv, at \in Ports, Attached(at), CloseCalls(at, port_id[at])
  PROVE  /\ HasDevice(at)
         /\ \A i \in Ids : i # port_id[at] => dev'[i] = dev[i]
         /\ dev'[port_id[at]] = Free \/ dev'[port_id[at]].name = Name(at)
         /\ \/ refused' = refused \cup {Name(at)} /\ vdevs' = vdevs /\ port_id' = port_id
            \/ /\ refused' = refused /\ vdevs' = vdevs \ {Name(at)}
               /\ port_id' = [port_id EXCEPT ![at] = NoId] /\ dev'[port_id[at]] = Free
<1> DEFINE id == port_id[at]
           n == Name(at)
<1>1. id \in Ids /\ dev[id] # Free /\ dev[id].name = n /\ n \in Ports /\ HasDevice(at)
  BY Zenon, NameFacts DEF Attached, TableInv, HasDevice
<1>2. \A i \in Ids : dev[i].name = n => i = id
  BY Zenon, <1>1 DEF TableInv
<1>3. Removed([dev EXCEPT ![id] = Free], n) = [dev EXCEPT ![id] = Free]
  <2>1. \A i \in Ids : Removed([dev EXCEPT ![id] = Free], n)[i] = IF i = id THEN Free ELSE dev[i]
    BY Zenon, <1>1, <1>2 DEF Removed, TypeOK
  <2>2. Removed([dev EXCEPT ![id] = Free], n) = [i \in Ids |-> IF i = id THEN Free ELSE dev[i]]
    BY Zenon, <2>1 DEF Removed
  <2> QED
    BY Zenon, <2>2 DEF TypeOK
<1> HIDE DEF id
<1>4. \A i \in Ids : i # id => dev'[i] = dev[i]
  BY Zenon, <1>1, <1>3 DEF CloseCalls, TypeOK, id
<1>5. dev'[id] = Free \/ dev'[id].name = n
  BY ZenonT(60), <1>1, <1>3 DEF CloseCalls, TypeOK, Devices, id
<1>6. \/ refused' = refused \cup {n} /\ vdevs' = vdevs /\ port_id' = port_id
      \/ /\ refused' = refused /\ vdevs' = vdevs \ {n}
         /\ port_id' = [port_id EXCEPT ![at] = NoId] /\ dev'[id] = Free
  BY Zenon, <1>1, <1>3 DEF CloseCalls, TypeOK, id
<1> QED
  BY Zenon, <1>1, <1>4, <1>5, <1>6 DEF id

\* What is left to show of PortInv while the ports are closed, and after.
LEMMA ClosingInv ==
  ASSUME TableInv', main' = "close", at' \in Ports,
         \A v \in vdevs' \ refused' :
           \E p \in structs' : Turn[p] >= Turn[at'] /\ Name(p)' = v /\ HasDevice(p)'
  PROVE  PortInv'
  BY Zenon DEF PortInv, StageInv

LEMMA ClosedInv ==
  ASSUME TableInv', main' = "stopping", vdevs' \subseteq refused'
  PROVE  PortInv'
  BY Zenon DEF PortInv, StageInv

LEMMA CloseKeepsPortInv ==
  ASSUME TypeOK, PortInv, ClosePort
  PROVE  PortInv'
<1> USE NameFacts
<1>1. /\ at \in Ports /\ UNCHANGED same /\ main = "close"
      /\ \A v \in vdevs \ refused :
           \E p \in structs : Turn[p] >= Turn[at] /\ Name(p) = v /\ HasDevice(p)
  BY Zenon DEF ClosePort, PortInv, StageInv
<1>2. \A p : Name(p)' = Name(p)
  BY Zenon, <1>1 DEF Name
<1>3. ASSUME TableInv',
             \A v \in vdevs' \ refused' :
               \E p \in structs : p \in Ports /\ Turn[p] > Turn[at] /\ Name(p) = v /\ HasDevice(p)'
      PROVE  PortInv'
  <2>1. CASE at = "exc"
    <3>1. main' = "stopping"
      BY Zenon, <2>1 DEF ClosePort
    <3>2. \A p \in Ports : ~(Turn[p] > Turn[at])
      BY <2>1 DEF Turn, Ports
    <3>3. vdevs' \subseteq refused'
      BY Zenon, <3>2, <1>3
    <3> QED
      BY Zenon, <3>1, <3>3, <1>3, ClosedInv
  <2>2. CASE at # "exc"
    <3>1. main' = "close" /\ at' \in Ports /\ Turn[at'] = Turn[at] + 1 /\ structs' = structs
      BY SMTT(60), <2>2, <1>1 DEF ClosePort, After, Turn, Ports
    <3>2. \A p \in Ports : Turn[p] > Turn[at] => Turn[p] >= Turn[at']
      BY SMTT(60), <3>1, <1>1 DEF Turn, Ports
    <3> QED
      <4>1. \A v \in vdevs' \ refused' :
              \E p \in structs' : Turn[p] >= Turn[at'] /\ Name(p)' = v /\ HasDevice(p)'
        BY Zenon, <3>1, <3>2, <1>2, <1>3
      <4> QED
        BY Zenon, <3>1, <1>3, <4>1, ClosingInv
  <2> QED
    BY Zenon, <2>1, <2>2
<1>4. \A p \in structs : p \in Ports /\ Turn[p] >= Turn[at] /\ p # at => Turn[p] > Turn[at]
  BY SMTT(60), <1>1 DEF Turn, Ports
<1>5. structs \subseteq Ports
  BY Zenon DEF TypeOK
<1>6. CASE ~Attached(at)
  <2>1. UNCHANGED <<port_id, dev, vdevs, refused>>
    BY Zenon, <1>6 DEF ClosePort
  <2>2. \A p : HasDevice(p)' <=> HasDevice(p)
    BY Zenon, <1>2, <2>1 DEF HasDevice
  <2>3. TableInv'
    BY Zenon, <2>1, <2>2 DEF PortInv, TableInv
  <2>4. ~(at \in structs /\ HasDevice(at))
    BY Zenon, <1>1, <1>6, FreeType DEF Attached, HasDevice, Ports
  <2>5. \A v \in vdevs' \ refused' :
          \E p \in structs : p \in Ports /\ Turn[p] > Turn[at] /\ Name(p) = v /\ HasDevice(p)'
    BY Zenon, <1>1, <1>4, <1>5, <2>1, <2>2, <2>4
  <2> QED
    BY Zenon, <1>3, <2>3, <2>5
<1>7. CASE Attached(at)
  <2> DEFINE id == port_id[at]
             n == Name(at)
  <2>1. CloseCalls(at, id)
    BY Zenon, <1>7 DEF ClosePort
  <2>2. /\ id \in Ids /\ dev[id].name = n /\ n \in Ports
        /\ \A i \in Ids : i # id => dev'[i] = dev[i]
        /\ dev'[id] = Free \/ dev'[id].name = n
        /\ \/ refused' = refused \cup {n} /\ vdevs' = vdevs /\ port_id' = port_id
           \/ /\ refused' = refused /\ vdevs' = vdevs \ {n}
              /\ port_id' = [port_id EXCEPT ![at] = NoId] /\ dev'[id] = Free
    BY Zenon, <1>1, <1>7, <2>1, CloseFacts DEF PortInv, HasDevice
  <2> HIDE DEF id, n
  <2>3. \A i \in Ids : dev[i].name = n => i = id
    BY Zenon, <2>2 DEF PortInv, TableInv
  <2>4. \A p \in Ports : port_id'[p] = port_id[p] \/ port_id'[p] = NoId
    BY Zenon, <2>2 DEF TypeOK
  <2>5. \A p \in Ports : port_id'[p] \in Ids /\ dev'[port_id'[p]] # Free => HasDevice(p)'
    <3> SUFFICES ASSUME NEW p \in Ports, port_id'[p] \in Ids, dev'[port_id'[p]] # Free
                 PROVE  HasDevice(p)'
      BY Zenon
    <3>1. port_id'[p] = port_id[p]
      BY Zenon, <2>4
    <3>2. dev'[port_id[p]].name = dev[port_id[p]].name /\ dev[port_id[p]] # Free
      BY Zenon, <3>1, <2>2, FreeType DEF Ports
    <3> QED
      BY Zenon, <3>1, <3>2, <1>2 DEF PortInv, TableInv, HasDevice
  <2>6. \A i \in Ids : dev'[i].name = dev[i].name \/ dev'[i] = Free
    BY Zenon, <2>2
  <2>7. \A i \in Ids : dev'[i].name \in Ports => dev'[i].name \in vdevs'
    BY Zenon, <2>2, <2>3, <2>6, FreeType DEF PortInv, TableInv, Ports
  <2>8. \A i \in Ids : dev'[i].name = "none" => dev'[i] = Free
    BY Zenon, <2>2 DEF PortInv, TableInv, Ports
  <2>9. \A i, j \in Ids : dev'[i].name = dev'[j].name /\ dev'[i].name \in Ports => i = j
    BY Zenon, <2>6, FreeType DEF PortInv, TableInv, Ports
  <2>10. TableInv'
    BY Zenon, <2>5, <2>7, <2>8, <2>9 DEF TableInv
  <2>11. ASSUME NEW v \in vdevs' \ refused'
         PROVE  \E p \in structs : p \in Ports /\ Turn[p] > Turn[at] /\ Name(p) = v /\ HasDevice(p)'
    <3>1. v \in vdevs \ refused /\ v # n
      BY Zenon, <2>2
    <3>2. PICK p \in structs : Turn[p] >= Turn[at] /\ Name(p) = v /\ HasDevice(p)
      BY Zenon, <1>1, <3>1
    <3>3. p # at /\ p \in Ports
      BY Zenon, <3>1, <3>2, <1>5 DEF n
    <3>4. port_id[p] \in Ids /\ port_id[p] # id
      BY Zenon, <3>1, <3>2, <2>2 DEF HasDevice
    <3>5. port_id'[p] = port_id[p]
      BY Zenon, <3>3, <2>2 DEF TypeOK
    <3>6. HasDevice(p)'
      BY Zenon, <3>2, <3>4, <3>5, <1>2, <2>2 DEF HasDevice
    <3> QED
      BY Zenon, <3>2, <3>3, <3>6, <1>4
  <2> QED
    BY Zenon, <1>3, <2>10, <2>11
<1> QED
  BY Zenon, <1>6, <1>7


-----------------------------------------------------------------------------
(* Types, and the whole.                                                     *)

IInv == TypeOK /\ CountInv /\ PortInv

LEMMA InitTypeOK == ASSUME Init PROVE TypeOK
<1>1. dev \in [Ids -> Devices]
  BY Zenon, FreeType DEF Init, Devices
<1>2. stat \in Seq(BOOLEAN)
  BY Zenon, LifeAssumption DEF Init
<1>3. Zero \in [Counters -> Nat]
  BY Zenon DEF Zero
<1>4. \A v \in {local, transit, registry, recorded, snap, gateway} : v \in [Counters -> Nat]
  BY Zenon, <1>3 DEF Init
<1>5. port_id \in [Ports -> Ids \cup {NoId}] /\ errors \in 0 .. MaxErrors
  BY LifeAssumption DEF Init
<1>6. bad \in BOOLEAN /\ same \in BOOLEAN /\ stop \in BOOLEAN /\ is_running \in BOOLEAN
  BY Zenon DEF Init
<1> QED
  BY Zenon, <1>1, <1>2, <1>4, <1>5, <1>6 DEF Init, TypeOK

\* The type invariant by groups of variables.
MainTypes ==
  /\ main \in {"ctor", "eal", "init", "start", "loop", "flush", "last", "close", "stopping",
               "join", "exit", "crashed"}
  /\ at \in Ports \cup Counters \cup {"end"} /\ stop \in BOOLEAN
StatTypes == stat \in Seq(BOOLEAN) /\ bad \in BOOLEAN
PortTypes ==
  /\ same \in BOOLEAN /\ structs \subseteq Ports /\ port_id \in [Ports -> Ids \cup {NoId}]
  /\ dev \in [Ids -> Devices] /\ vdevs \subseteq Ports /\ refused \subseteq Ports
LocalTypes ==
  /\ local \in [Counters -> Nat] /\ transit \in [Counters -> Nat]
  /\ registry \in [Counters -> Nat] /\ recorded \in [Counters -> Nat]
PushTypes ==
  /\ thread \in {"none", "check", "sleep", "push", "hung", "ended"} \cup Counters
  /\ snap \in [Counters -> Nat] /\ gateway \in [Counters -> Nat]
  /\ errors \in 0 .. MaxErrors /\ pushed \in BOOLEAN
StopTypes == is_running \in BOOLEAN /\ slept \in BOOLEAN

LEMMA TypeGroups ==
  TypeOK <=> MainTypes /\ StatTypes /\ PortTypes /\ LocalTypes /\ PushTypes /\ StopTypes
  BY Zenon DEF TypeOK, MainTypes, StatTypes, PortTypes, LocalTypes, PushTypes, StopTypes

LEMMA TypeGroupsNext ==
  (MainTypes /\ StatTypes /\ PortTypes /\ LocalTypes /\ PushTypes /\ StopTypes)' => TypeOK'
  BY Zenon DEF TypeOK, MainTypes, StatTypes, PortTypes, LocalTypes, PushTypes, StopTypes

LEMMA UnchangedTypes ==
  /\ MainTypes /\ UNCHANGED <<main, at, stop>> => MainTypes'
  /\ StatTypes /\ UNCHANGED statVars => StatTypes'
  /\ PortTypes /\ UNCHANGED portVars => PortTypes'
  /\ LocalTypes /\ UNCHANGED countVars => LocalTypes'
  /\ PushTypes /\ UNCHANGED pushVars => PushTypes'
  /\ StopTypes /\ UNCHANGED stopVars => StopTypes'
<1>1. MainTypes /\ UNCHANGED <<main, at, stop>> => MainTypes'
  BY Zenon DEF MainTypes
<1>2. StatTypes /\ UNCHANGED statVars => StatTypes'
  BY Zenon DEF StatTypes, statVars
<1>3. PortTypes /\ UNCHANGED portVars => PortTypes'
  BY Zenon DEF PortTypes, portVars
<1>4. LocalTypes /\ UNCHANGED countVars => LocalTypes'
  BY Zenon DEF LocalTypes, countVars
<1>5. PushTypes /\ UNCHANGED pushVars => PushTypes'
  BY Zenon DEF PushTypes, pushVars
<1>6. StopTypes /\ UNCHANGED stopVars => StopTypes'
  BY Zenon DEF StopTypes, stopVars
<1> QED
  BY Zenon, <1>1, <1>2, <1>3, <1>4, <1>5, <1>6

LEMMA TailType ==
  ASSUME NEW S, NEW s \in Seq(S), s # <<>>
  PROVE  Tail(s) \in Seq(S)
  OBVIOUS

LEMMA DestroyType ==
  ASSUME NEW ss, Destroy(ss)
  PROVE  main' \in {"close", "stopping"} /\ at' \in Ports \cup Counters \cup {"end"}
  BY Zenon DEF Destroy, Ports

\* The steps that only move the main thread or the flags.
LEMMA PlainStepKeepsTypeOK ==
  ASSUME TypeOK,
         ReadCpuLine \/ StartThread \/ Signal \/ LeaveEarly \/ FlushEnds \/ ClearIsRunning \/ Join
           \/ CheckRunning \/ Wake
  PROVE  TypeOK'
<1>1. CASE ReadCpuLine
  <2>1. stat \in Seq(BOOLEAN) /\ bad \in BOOLEAN
    BY Zenon DEF TypeOK
  <2>2. CASE ~bad /\ stat # <<>> /\ bad' = ~Head(stat) /\ stat' = Tail(stat)
    <3>1. stat' \in Seq(BOOLEAN)
      BY Zenon, <2>1, <2>2, TailType
    <3>2. bad' \in BOOLEAN
      BY Zenon, <2>2
    <3> QED
      BY Zenon, <1>1, <3>1, <3>2, TypeGroups, TypeGroupsNext, UnchangedTypes DEF ReadCpuLine, StatTypes
  <2>3. CASE UNCHANGED statVars
    BY Zenon, <1>1, <2>3, TypeGroups, TypeGroupsNext, UnchangedTypes DEF ReadCpuLine
  <2> QED
    BY Zenon, <1>1, <2>2, <2>3 DEF ReadCpuLine
<1>2. CASE StartThread
  BY Zenon, <1>2, TypeGroups, TypeGroupsNext, UnchangedTypes DEF StartThread, MainTypes, PushTypes
<1>3. CASE Signal
  BY Zenon, <1>3, TypeGroups, TypeGroupsNext, UnchangedTypes DEF Signal, MainTypes
<1>4. CASE LeaveEarly
  BY Zenon, <1>4, DestroyType, TypeGroups, TypeGroupsNext, UnchangedTypes DEF LeaveEarly, MainTypes
<1>5. CASE FlushEnds
  BY Zenon, <1>5, DestroyType, TypeGroups, TypeGroupsNext, UnchangedTypes DEF FlushEnds, MainTypes
<1>6. CASE ClearIsRunning
  <2>1. slept' \in BOOLEAN /\ is_running' \in BOOLEAN
    BY Zenon, <1>6 DEF ClearIsRunning
  <2> QED
    BY Zenon, <1>6, <2>1, TypeGroups, TypeGroupsNext, UnchangedTypes DEF ClearIsRunning, MainTypes, StopTypes
<1>7. CASE Join
  BY Zenon, <1>7, TypeGroups, TypeGroupsNext, UnchangedTypes DEF Join, MainTypes
<1>8. CASE CheckRunning
  BY Zenon, <1>8, TypeGroups, TypeGroupsNext, UnchangedTypes DEF CheckRunning, PushTypes
<1>9. CASE Wake
  <2>1. thread' \in Counters
    BY Zenon, <1>9 DEF Wake, Counters
  <2> QED
    BY Zenon, <1>9, <2>1, TypeGroups, TypeGroupsNext, UnchangedTypes DEF Wake, PushTypes
<1> QED
  BY Zenon, <1>1, <1>2, <1>3, <1>4, <1>5, <1>6, <1>7, <1>8, <1>9

LEMMA CountStepKeepsTypeOK ==
  ASSUME TypeOK, CountInv,
         Record \/ Flush \/ LastFlush \/ Increment \/ Collect \/ PushMetrics \/ PushHangs
  PROVE  TypeOK'
<1>1. CASE Record
  <2>1. local' \in [Counters -> Nat] /\ recorded' \in [Counters -> Nat]
    BY <1>1, TypesOfCounts DEF Record, CountTypes
  <2>2. UNCHANGED <<main, at, stop, portVars, statVars, pushVars, stopVars, transit, registry>>
    BY Zenon, <1>1 DEF Record
  <2> QED
    BY Zenon, <2>1, <2>2, TypeGroups, TypeGroupsNext, UnchangedTypes DEF LocalTypes
<1>2. CASE Flush \/ LastFlush
  <2>1. local' \in [Counters -> Nat] /\ transit' \in [Counters -> Nat]
    BY <1>2, TypesOfCounts DEF Flush, LastFlush, FlushExchange, Zero, CountTypes
  <2>2. main' \in {"flush", "last"} /\ at' \in Counters
    BY Zenon, <1>2 DEF Flush, LastFlush, FlushExchange, Counters
  <2>3. UNCHANGED <<stop, portVars, statVars, pushVars, stopVars, registry, recorded>>
    BY Zenon, <1>2 DEF Flush, LastFlush, FlushExchange
  <2> QED
    BY Zenon, <2>1, <2>2, <2>3, TypeGroups, TypeGroupsNext, UnchangedTypes DEF MainTypes, LocalTypes
<1>3. CASE Increment
  <2>1. at \in Counters
    BY Zenon, <1>3 DEF Increment, CountInv
  <2>2. registry' \in [Counters -> Nat] /\ transit' \in [Counters -> Nat]
    BY SMTT(60), <1>3, <2>1, TypesOfCounts DEF Increment, CountTypes
  <2>3. at' \in Counters \cup {"end"}
    BY SMTT(60), <1>3, <2>1 DEF Increment, Counters, Following
  <2> QED
    BY Zenon, <1>3, <2>2, <2>3, TypeGroups, TypeGroupsNext, UnchangedTypes DEF Increment, MainTypes, LocalTypes
<1>4. CASE Collect
  <2>1. snap' \in [Counters -> Nat]
    BY Zenon, <1>4, TypesOfCounts DEF Collect, CountTypes
  <2>2. thread' \in {"push"} \cup Counters
    BY SMTT(60), <1>4 DEF Collect, Counters, Following
  <2> QED
    BY Zenon, <1>4, <2>1, <2>2, TypeGroups, TypeGroupsNext, UnchangedTypes DEF Collect, PushTypes
<1>5. CASE PushMetrics
  <2>1. snap' \in [Counters -> Nat] /\ gateway' \in [Counters -> Nat]
    BY Zenon, <1>5, TypesOfCounts DEF PushMetrics, Zero, CountTypes
  <2>2. errors' \in 0 .. MaxErrors
    BY <1>5, LifeAssumption, TypeGroups DEF PushMetrics, PushTypes
  <2>3. pushed' \in BOOLEAN
    BY Zenon, <1>5 DEF PushMetrics
  <2> QED
    BY Zenon, <1>5, <2>1, <2>2, <2>3, TypeGroups, TypeGroupsNext, UnchangedTypes DEF PushMetrics, PushTypes
<1>6. CASE PushHangs
  <2>1. snap' \in [Counters -> Nat] /\ gateway' \in [Counters -> Nat]
    BY Zenon, <1>6, TypesOfCounts DEF PushHangs, Zero, CountTypes
  <2> QED
    BY Zenon, <1>6, <2>1, TypeGroups, TypeGroupsNext, UnchangedTypes DEF PushHangs, PushTypes
<1> QED
  BY Zenon, <1>1, <1>2, <1>3, <1>4, <1>5, <1>6

LEMMA PortStepKeepsTypeOK ==
  ASSUME TypeOK, PortInv, InitStructs \/ InitPort \/ StartPort \/ ClosePort
  PROVE  TypeOK'
<1> USE NameFacts
<1>1. CASE InitStructs
  BY Zenon, <1>1, TypeGroups, TypeGroupsNext, UnchangedTypes DEF InitStructs, MainTypes, PortTypes, Ports
<1>2. CASE InitPort
  <2>1. at \in Ports /\ Name(at) \in Ports
    BY Zenon, <1>2 DEF InitPort, PortInv, StageInv
  <2> DEFINE n == Name(at)
  <2>2. \A d \in Created(n) : d \in [Ids -> Devices] /\ Removed(d, n) \in [Ids -> Devices]
    <3> TAKE d \in Created(n)
    <3>1. [name |-> n, started |-> FALSE] \in Devices
      BY Zenon, <2>1 DEF Devices
    <3>2. PICK id \in Ids :
            d = [i \in Ids |-> IF i = id THEN [name |-> n, started |-> FALSE] ELSE dev[i]]
      BY SMTT(60), <2>1, CreatedFacts
    <3>3. d \in [Ids -> Devices]
      BY ZenonT(60), <3>1, <3>2 DEF TypeOK
    <3> QED
      BY Zenon, <3>3, RemovedType
  <2>3. /\ main' \in {"crashed", "close", "stopping", "start", "init"}
        /\ at' \in Ports \cup Counters \cup {"end"}
    BY SMTT(60), <1>2, <2>1, DestroyType DEF InitPort, UninitAndThrow, After, Ports, TypeOK
  <2>4. dev' = dev \/ \E d \in Created(n) : dev' \in {d, Removed(d, n)}
    BY Zenon, <1>2 DEF InitPort, UninitAndThrow
  <2>5. vdevs' \in {vdevs, vdevs \cup {n}} /\ refused' \in {refused, refused \cup {n}}
    BY Zenon, <1>2 DEF InitPort, UninitAndThrow
  <2>6. port_id' = port_id \/ \E i \in Ids : port_id' = [port_id EXCEPT ![at] = i]
    <3>1. \A d : LET found == find_port_by_dev_name(d, n)
                 IN  found # {} => (CHOOSE i \in found : TRUE) \in Ids
      BY Zenon DEF find_port_by_dev_name
    <3> QED
      BY Zenon, <1>2, <3>1 DEF InitPort
  <2> HIDE DEF n
  <2>7. n \in Ports
    BY Zenon, <2>1 DEF n
  <2>8. port_id' \in [Ports -> Ids \cup {NoId}]
    BY Zenon, <2>1, <2>6 DEF TypeOK
  <2>9. dev' \in [Ids -> Devices]
    BY Zenon, <2>2, <2>4 DEF TypeOK
  <2>10. vdevs' \subseteq Ports /\ refused' \subseteq Ports
    BY Zenon, <2>5, <2>7 DEF TypeOK
  <2> QED
    BY Zenon, <1>2, <2>3, <2>8, <2>9, <2>10, TypeGroups, TypeGroupsNext, UnchangedTypes
       DEF InitPort, MainTypes, PortTypes
<1>3. CASE StartPort
  <2>1. at \in Ports /\ port_id[at] \in Ids
    BY Zenon, <1>3 DEF StartPort, PortInv, StageInv, HasDevice
  <2>2. dev' \in [Ids -> Devices]
    <3>1. PICK started \in BOOLEAN : dev' = [dev EXCEPT ![port_id[at]].started = started]
      BY Zenon, <1>3 DEF StartPort
    <3>2. dev \in [Ids -> Devices]
      BY Zenon DEF TypeOK
    <3> QED
      BY Zenon, <2>1, <3>1, <3>2, StoppedType
  <2>3. main' \in {"close", "stopping", "loop", "start"} /\ at' \in Ports \cup Counters \cup {"end"}
    BY SMTT(60), <1>3, <2>1, DestroyType DEF StartPort, After, Ports
  <2> QED
    BY Zenon, <1>3, <2>2, <2>3, TypeGroups, TypeGroupsNext, UnchangedTypes DEF StartPort, MainTypes, PortTypes
<1>4. CASE ClosePort
  <2>1. at \in Ports /\ Name(at) \in Ports
    BY Zenon, <1>4 DEF ClosePort, PortInv, StageInv
  <2>2. Removed([dev EXCEPT ![port_id[at]] = Free], Name(at)) \in [Ids -> Devices]
    BY Zenon, RemovedType, FreeType DEF TypeOK
  <2>3. dev' \in [Ids -> Devices]
    <3>1. dev \in [Ids -> Devices]
      BY Zenon DEF TypeOK
    <3>2. CASE Attached(at)
      <4>1. port_id[at] \in Ids
        BY Zenon, <3>2 DEF Attached
      <4>2. [dev EXCEPT ![port_id[at]].started = FALSE] \in [Ids -> Devices]
        BY Zenon, <3>1, <4>1, StoppedType
      <4>3. [dev EXCEPT ![port_id[at]] = Free] \in [Ids -> Devices]
        BY Zenon, <3>1, FreeType
      <4> QED
        BY Zenon, <1>4, <2>2, <3>1, <3>2, <4>2, <4>3 DEF ClosePort, CloseCalls
    <3>3. CASE ~Attached(at)
      BY Zenon, <1>4, <3>1, <3>3 DEF ClosePort
    <3> QED
      BY Zenon, <3>2, <3>3
  <2>4. port_id' \in [Ports -> Ids \cup {NoId}] /\ vdevs' \subseteq Ports /\ refused' \subseteq Ports
    BY ZenonT(60), <1>4, <2>1 DEF ClosePort, CloseCalls, TypeOK
  <2>5. main' \in {"close", "stopping"} /\ at' \in Ports \cup {"end"}
    BY SMTT(60), <1>4, <2>1 DEF ClosePort, After, Ports
  <2>6. structs' \subseteq Ports
    BY Zenon, <1>4 DEF ClosePort, TypeOK
  <2> QED
    BY Zenon, <1>4, <2>3, <2>4, <2>5, <2>6, TypeGroups, TypeGroupsNext, UnchangedTypes DEF ClosePort, MainTypes, PortTypes
<1> QED
  BY Zenon, <1>1, <1>2, <1>3, <1>4

LEMMA NextKeepsIInv == ASSUME IInv, [Next]_vars PROVE IInv'
<1> USE DEF IInv
<1>1. CASE ReadCpuLine \/ StartThread \/ LeaveEarly \/ FlushEnds \/ ClearIsRunning \/ Join
  <2>1. TypeOK' /\ CountInv'
    BY Zenon, <1>1, PlainStepKeepsTypeOK, MainKeepsCountInv DEF MainStep
  <2>2. CASE ReadCpuLine \/ StartThread
    BY Zenon, <2>1, <2>2, OtherStepsKeepPortInv DEF ReadCpuLine, StartThread
  <2>3. CASE LeaveEarly
    BY Zenon, <2>1, <2>3, OtherStepsKeepPortInv DEF LeaveEarly, Destroy
  <2>4. CASE ClearIsRunning \/ Join
    BY Zenon, <2>1, <2>4, OtherStepsKeepPortInv DEF ClearIsRunning, Join
  <2>5. CASE FlushEnds
    <3>1. CASE main = "flush"
      BY Zenon, <2>1, <2>5, <3>1, OtherStepsKeepPortInv DEF FlushEnds
    <3>2. CASE main = "last"
      <4>1. structs = Ports /\ ~same /\ (\A p \in Ports : HasDevice(p)) /\ UNCHANGED portVars
        BY Zenon, <2>5, <3>2 DEF FlushEnds, PortInv, StageInv
      <4>2. main' = "close" /\ at' = "in"
        BY Zenon, <2>5, <3>2, <4>1 DEF FlushEnds, Destroy, Ports
      <4>3. \A p \in Ports : HasDevice(p)' /\ Name(p)' = p /\ p \in structs' /\ Turn[p] >= 1
        BY SMTT(60), <4>1 DEF HasDevice, Name, portVars, Turn, Ports
      <4>4. TableInv'
        BY Zenon, <4>1, <4>3 DEF PortInv, TableInv, portVars
      <4>5. vdevs' \subseteq Ports
        BY Zenon, <4>1 DEF portVars, TypeOK
      <4>6. StageInv'
        BY Zenon, <4>2, <4>3, <4>5 DEF StageInv, Turn, Ports
      <4> QED
        BY Zenon, <2>1, <4>4, <4>6 DEF PortInv
    <3> QED
      BY Zenon, <2>5, <3>1, <3>2 DEF FlushEnds
  <2> QED
    BY Zenon, <1>1, <2>2, <2>3, <2>4, <2>5
<1>2. CASE Record \/ Flush \/ LastFlush \/ Increment
  <2>1. TypeOK' /\ CountInv'
    BY Zenon, <1>2, CountStepKeepsTypeOK, MainKeepsCountInv DEF MainStep
  <2>2. PortInv'
    <3>1. CASE Record
      BY Zenon, <3>1, OtherStepsKeepPortInv DEF Record
    <3>2. CASE Flush \/ LastFlush
      BY Zenon, <3>2, OtherStepsKeepPortInv DEF Flush, LastFlush, FlushExchange
    <3>3. CASE Increment
      BY Zenon, <3>3, OtherStepsKeepPortInv DEF Increment
    <3> QED
      BY Zenon, <1>2, <3>1, <3>2, <3>3
  <2> QED
    BY Zenon, <2>1, <2>2
<1>3. CASE InitStructs \/ InitPort \/ StartPort \/ ClosePort
  <2>1. TypeOK' /\ CountInv'
    BY Zenon, <1>3, PortStepKeepsTypeOK, MainKeepsCountInv DEF MainStep
  <2>2. PortInv'
    BY Zenon, <1>3, InitStructsKeepsPortInv, InitPortKeepsPortInv, StartKeepsPortInv, CloseKeepsPortInv
  <2> QED
    BY Zenon, <2>1, <2>2
<1>4. CASE Signal
  <2>1. CountInv'
    BY Zenon, <1>4, OtherStepsKeepCountInv DEF Signal, pushVars
  <2> QED
    BY Zenon, <1>4, <2>1, PlainStepKeepsTypeOK, OtherStepsKeepPortInv DEF Signal
<1>5. CASE ThreadStep
  <2>1. TypeOK' /\ CountInv'
    BY Zenon, <1>5, PlainStepKeepsTypeOK, CountStepKeepsTypeOK, ThreadKeepsCountInv DEF ThreadStep
  <2>2. UNCHANGED <<main, at, portVars>>
    BY Zenon, <1>5 DEF ThreadStep, CheckRunning, Wake, Collect, PushMetrics, PushHangs
  <2> QED
    BY Zenon, <2>1, <2>2, OtherStepsKeepPortInv
<1>6. CASE UNCHANGED vars
  <2>1. TypeOK'
    BY Zenon, <1>6, TypeGroups, TypeGroupsNext, UnchangedTypes DEF vars
  <2>2. CountInv'
    BY Zenon, <1>6, OtherStepsKeepCountInv DEF vars, pushVars
  <2> QED
    BY Zenon, <1>6, <2>1, <2>2, OtherStepsKeepPortInv DEF vars
<1> QED
  BY Zenon, <1>1, <1>2, <1>3, <1>4, <1>5, <1>6 DEF Next, MainStep

\* The inductive invariant.
THEOREM Invariance == Spec => []IInv
<1>1. Init => IInv
  BY Zenon, InitTypeOK, InitCountInv, InitPortInv DEF IInv
<1>2. IInv /\ [Next]_vars => IInv'
  BY Zenon, NextKeepsIInv
<1> QED
  BY <1>1, <1>2, PTL DEF Spec

\* Every packet the worker counts (worker.cpp:48-79) is in exactly one of the
\* local counters, a flush under way and the registry, and the gateway is never
\* ahead, for any number of packets, flushes and failed pushes.
THEOREM PacketsAreCountedOnce == Spec => []CountedOnce
<1>1. IInv => CountedOnce
  BY Zenon DEF IInv, CountInv
<1> QED
  BY <1>1, Invariance, PTL

\* What the gateway shows never goes back, whichever pushes fail
\* (metrics_collector.cpp:100-108).
THEOREM TotalsAreMonotone == Spec => TotalsOnlyGrow
<1>1. IInv /\ [Next]_vars => [\A c \in Counters : gateway'[c] >= gateway[c]]_vars
  <2> SUFFICES ASSUME IInv, Next PROVE \A c \in Counters : gateway'[c] >= gateway[c]
    BY Zenon
  <2>1. CountTypes
    BY Zenon, TypesOfCounts DEF IInv
  <2>2. CASE PushMetrics \/ PushHangs
    BY <2>1, <2>2 DEF PushMetrics, PushHangs, IInv, CountInv, Collected, CountTypes
  <2>3. CASE gateway' = gateway
    BY <2>1, <2>3 DEF CountTypes
  <2>4. PushMetrics \/ PushHangs \/ gateway' = gateway
    BY Zenon DEF Next, MainStep, ThreadStep, Signal, CheckRunning, Wake, Collect, pushVars, ReadCpuLine,
           StartThread, LeaveEarly, InitStructs, InitPort, StartPort, Record, Flush, LastFlush,
           FlushExchange, Increment, FlushEnds, ClosePort, ClearIsRunning, Join
  <2> QED
    BY Zenon, <2>2, <2>3, <2>4
<1> QED
  BY <1>1, Invariance, PTL DEF Spec, TotalsOnlyGrow

\* The main loop of worker.cpp:422 runs on the worker's own three ports, started,
\* for any number of ports the machine has besides.
THEOREM LoopHasItsPorts == Spec => []LoopOnOwnPorts
<1>1. IInv => LoopOnOwnPorts
  <2> SUFFICES ASSUME IInv, main \in {"loop", "flush", "last"}, NEW p \in Ports
               PROVE  port_id[p] \in Ids /\ dev[port_id[p]] = [name |-> p, started |-> TRUE]
    BY Zenon DEF LoopOnOwnPorts
  <2>1. HasDevice(p) /\ Name(p) = p /\ dev[port_id[p]].started
    BY Zenon, NameFacts DEF IInv, PortInv, StageInv
  <2>2. port_id[p] \in Ids /\ dev[port_id[p]].name = p /\ dev[port_id[p]] \in Devices
    BY Zenon, <2>1 DEF HasDevice, IInv, TypeOK
  <2> QED
    BY Zenon, <2>1, <2>2 DEF Devices
<1> QED
  BY <1>1, Invariance, PTL

\* ~Worker leaves no device behind that the library did not refuse to give up,
\* whichever step of net_port_init or net_port_start threw.
THEOREM NoDeviceIsLeft == Spec => []NothingLeftBehind
<1>1. IInv => NothingLeftBehind
  BY Zenon DEF IInv, PortInv, StageInv, TableInv, NothingLeftBehind
<1> QED
  BY <1>1, Invariance, PTL

LEMMA StepsOnOwnDevice ==
  ASSUME IInv, Next, NEW i \in Ids, dev[i] # dev'[i]
  PROVE  {dev[i].name, dev'[i].name} \subseteq {"none", Name(at)}
<1> USE NameFacts, FreeType DEF IInv
<1>1. InitPort \/ StartPort \/ ClosePort
  BY Zenon DEF Next, MainStep, ThreadStep, Signal, CheckRunning, Wake, Collect, PushMetrics, PushHangs, portVars,
         ReadCpuLine, StartThread, LeaveEarly, InitStructs, Record, Flush, LastFlush,
         FlushExchange, Increment, FlushEnds, ClearIsRunning, Join
<1>2. CASE StartPort
  <2>1. PICK started \in BOOLEAN : dev' = [dev EXCEPT ![port_id[at]].started = started]
    BY Zenon, <1>2 DEF StartPort
  <2>2. HasDevice(at)
    BY Zenon, <1>2 DEF StartPort, PortInv, StageInv
  <2>3. i = port_id[at] /\ dev'[i].name = dev[i].name
    BY Zenon, <2>1, <2>2 DEF TypeOK, Devices, HasDevice
  <2> QED
    BY Zenon, <2>2, <2>3 DEF HasDevice
<1>3. CASE ClosePort
  <2>1. at \in Ports
    BY Zenon, <1>3 DEF ClosePort, PortInv, StageInv
  <2>2. Attached(at) /\ CloseCalls(at, port_id[at])
    BY Zenon, <1>3 DEF ClosePort
  <2>3. i = port_id[at] /\ HasDevice(at) /\ (dev'[i] = Free \/ dev'[i].name = Name(at))
    BY Zenon, <2>1, <2>2, CloseFacts DEF PortInv
  <2> QED
    BY Zenon, <2>3 DEF HasDevice
<1>4. CASE InitPort
  <2> DEFINE n == Name(at)
  <2>1. at \in Ports /\ n \in Ports
    BY Zenon, <1>4 DEF InitPort, PortInv, StageInv
  <2>2. PICK d \in Created(n) : n \notin vdevs /\ dev' \in {d, Removed(d, n)}
    BY Zenon, <1>4 DEF InitPort, UninitAndThrow
  <2>3. PICK id \in Ids :
          /\ dev[id] = Free
          /\ d = [j \in Ids |-> IF j = id THEN [name |-> n, started |-> FALSE] ELSE dev[j]]
    BY Zenon, <2>1, <2>2, CreatedFacts
  <2>4. dev[i].name # n
    BY Zenon, <2>1, <2>2 DEF PortInv, TableInv
  <2>5. i = id
    BY Zenon, <2>2, <2>3, <2>4 DEF Removed
  <2>6. dev'[i].name \in {n, "none"}
    BY SMTT(60), <2>2, <2>3, <2>5 DEF Removed
  <2> QED
    BY Zenon, <2>3, <2>5, <2>6
<1> QED
  BY Zenon, <1>1, <1>2, <1>3, <1>4

\* net_port_init, net_port_start and net_port_close (net_port.c) touch the device
\* of the port in hand only, whatever the machine has besides and whatever fails.
THEOREM OwnDevicesOnly == Spec => OwnDeviceOnly
<1>1. IInv /\ [Next]_vars
        => [\A i \in Ids : dev[i] # dev'[i]
              => {dev[i].name, dev'[i].name} \subseteq {"none", Name(at)}]_vars
  BY Zenon, StepsOnOwnDevice
<1> QED
  BY <1>1, Invariance, PTL DEF Spec, OwnDeviceOnly

-----------------------------------------------------------------------------
(* The last push.                                                            *)

\* Only the loop leaves packets in the local counters, so ~MetricsCollector
\* finds them all in the registry, which then stands still: a thread that was
\* asleep reads it once more, whole, before it sees that is_running is false.
LastInv ==
  /\ main # "loop" => local = Zero
  /\ main = "exit" => thread = "ended"
  /\ main \in {"join", "exit"} => ~is_running
  /\ main \in {"join", "exit"} /\ slept =>
       /\ \A c \in Collected : snap[c] = registry[c]
       /\ thread \in {"check", "ended"} /\ pushed => gateway = registry

\* The steps of the main thread before is_running is cleared.
LEMMA StepsBeforeJoin ==
  ASSUME main' \notin {"join", "exit"}, main' # "loop" => local' = Zero
  PROVE  LastInv'
  BY Zenon DEF LastInv, Zero

LEMMA MainKeepsLastInv ==
  ASSUME TypeOK, CountInv, LastInv, MainStep
  PROVE  LastInv'
<1>1. CASE Join
  BY Zenon, <1>1 DEF Join, LastInv, Collected, Zero, countVars, pushVars, stopVars
<1>2. CASE ClearIsRunning
  <2>1. thread' = "sleep" \/ ~slept'
    BY Zenon, <1>2 DEF ClearIsRunning, pushVars
  <2>2. local' = Zero /\ ~is_running' /\ main' = "join"
    BY Zenon, <1>2 DEF ClearIsRunning, LastInv, countVars
  <2>3. thread' = "sleep" => Collected' = {}
    BY Zenon DEF Collected, Counters
  <2> QED
    BY Zenon, <2>1, <2>2, <2>3 DEF LastInv, Zero
<1>3. CASE Record
  BY Zenon, <1>3, StepsBeforeJoin DEF Record
<1>4. CASE Flush \/ LastFlush
  BY Zenon, <1>4, StepsBeforeJoin DEF Flush, LastFlush, FlushExchange, Zero
<1>5. CASE Increment
  BY Zenon, <1>5, StepsBeforeJoin DEF Increment, LastInv, Zero
<1>6. CASE FlushEnds
  BY Zenon, <1>6, StepsBeforeJoin DEF FlushEnds, Destroy, LastInv, countVars, Zero
<1>7. CASE ReadCpuLine \/ StartThread \/ LeaveEarly \/ InitStructs
  BY Zenon, <1>7, StepsBeforeJoin
     DEF ReadCpuLine, StartThread, LeaveEarly, InitStructs, Destroy, LastInv, countVars, Zero
<1>8. CASE InitPort
  <2>1. main' \in {"crashed", "close", "stopping", "start", "init"}
    BY Zenon, <1>8 DEF InitPort, Destroy, UninitAndThrow
  <2>2. local' = Zero
    BY Zenon, <1>8 DEF InitPort, LastInv, countVars
  <2> QED
    BY Zenon, <2>1, <2>2, StepsBeforeJoin
<1>9. CASE StartPort
  <2>1. main' \in {"close", "stopping", "loop", "start"}
    BY Zenon, <1>9 DEF StartPort, Destroy
  <2>2. local' = Zero
    BY Zenon, <1>9 DEF StartPort, LastInv, countVars
  <2> QED
    BY Zenon, <2>1, <2>2, StepsBeforeJoin
<1>10. CASE ClosePort
  BY Zenon, <1>10, StepsBeforeJoin DEF ClosePort, LastInv, countVars, Zero
<1> QED
  BY Zenon, <1>1, <1>2, <1>3, <1>4, <1>5, <1>6, <1>7, <1>8, <1>9, <1>10 DEF MainStep

LEMMA ThreadKeepsLastInv ==
  ASSUME TypeOK, LastInv, ThreadStep
  PROVE  LastInv'
<1> USE TypesOfCounts DEF countVars, stopVars
<1>1. UNCHANGED <<main, local, registry, is_running, slept>>
  BY Zenon DEF ThreadStep, CheckRunning, Wake, Collect, PushMetrics, PushHangs
<1>2. main # "exit"
  BY Zenon DEF ThreadStep, CheckRunning, Wake, Collect, PushMetrics, PushHangs, LastInv, Counters
<1> SUFFICES ASSUME main = "join", slept
             PROVE  /\ \A c \in Collected' : snap'[c] = registry[c]
                    /\ thread' \in {"check", "ended"} /\ pushed' => gateway' = registry
  BY Zenon, <1>1, <1>2 DEF LastInv, Zero
<1>3. CASE CheckRunning
  BY Zenon, <1>3 DEF CheckRunning, LastInv, Collected, Counters
<1>4. CASE Wake
  BY <1>4 DEF Wake, Collected, Counters, Order
<1>5. CASE Collect
  BY <1>5 DEF Collect, LastInv, Collected, CountTypes, Counters, Order, Following
<1>6. CASE PushMetrics
  <2>1. snap = registry
    BY <1>6 DEF PushMetrics, LastInv, Collected, CountTypes
  <2> QED
    BY Zenon, <1>6, <2>1 DEF PushMetrics, Collected, Counters
<1>7. CASE PushHangs
  BY Zenon, <1>7 DEF PushHangs, Collected, Counters
<1> QED
  BY Zenon, <1>3, <1>4, <1>5, <1>6, <1>7 DEF ThreadStep

\* ~MetricsCollector joins the thread (metrics_collector.cpp:111-116): when the
\* thread was asleep and its push is accepted, every packet counted has arrived
\* at the gateway, for any number of packets, flushes and earlier pushes.
THEOREM LastPushIsComplete == Spec => []LastCountsArrive
<1>1. Init => LastInv
  BY Zenon DEF Init, LastInv, Zero
<1>2. IInv /\ LastInv /\ [Next]_vars => LastInv'
  <2> SUFFICES ASSUME IInv, LastInv, [Next]_vars PROVE LastInv'
    BY Zenon
  <2>1. CASE MainStep
    BY Zenon, <2>1, MainKeepsLastInv DEF IInv
  <2>2. CASE ThreadStep
    BY Zenon, <2>2, ThreadKeepsLastInv DEF IInv
  <2>3. CASE Signal \/ UNCHANGED vars
    <3>1. UNCHANGED <<main, thread, is_running, slept, local, registry, snap, pushed, gateway>>
          /\ Collected' = Collected
      BY Zenon, <2>3 DEF Signal, vars, countVars, pushVars, stopVars, Collected
    <3> QED
      BY Zenon, <3>1 DEF LastInv
  <2> QED
    BY Zenon, <2>1, <2>2, <2>3 DEF Next
<1>3. IInv /\ LastInv => LastCountsArrive
  <2> SUFFICES ASSUME IInv, LastInv, main = "exit", slept, pushed PROVE gateway = recorded
    BY Zenon DEF LastCountsArrive
  <2>1. gateway = registry /\ \A c \in Counters : local[c] = 0
    BY Zenon DEF LastInv, Zero
  <2>2. \A c \in Counters : registry[c] = recorded[c]
    BY <2>1, TypesOfCounts DEF IInv, CountInv, CountedOnce, CountTypes
  <2> QED
    BY <2>1, <2>2, TypesOfCounts DEF IInv, CountTypes
<1> QED
  BY <1>1, <1>2, <1>3, Invariance, PTL DEF Spec
=============================================================================
