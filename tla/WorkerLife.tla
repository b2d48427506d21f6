----------------------------- MODULE WorkerLife -----------------------------
(***************************************************************************)
(* The life of a worker process outside packet filtering: the constructor   *)
(* with its metrics thread, initDPDK creating and starting three ports, the  *)
(* main loop counting packets, ~Worker closing the ports, and the join of    *)
(* the metrics thread at the end (main.cpp, worker.cpp, net_port.c,          *)
(* metrics_collector.cpp).                                                   *)
(*                                                                           *)
(* Every DPDK call may fail. The library is external: a table of Ethernet    *)
(* ports whose lowest free id goes to the next virtual device, and the set   *)
(* of virtual devices by name. The metrics thread reads the registry's       *)
(* counters one at a time while the main thread raises them. Policy polls,   *)
(* verdict caches and packet buffers are in FilterWorker, CachePersistence   *)
(* and PacketPath; the gauges for memory and CPU are not modelled.           *)
(***************************************************************************)
EXTENDS Naturals, FiniteSets, Sequences

CONSTANTS StatFiles,    \* what /proc/stat may hold: per cpu line, do its last six fields fit an int
          Probed,       \* the Ethernet ports the EAL finds by itself
          MaxRecorded,  \* bound: packets counted in one run
          MaxErrors     \* bound: pushes that report an error

Ports == {"in", "out", "exc"}
Counters == {"received", "passed", "dropped"}
Ids == 0 .. Probed + 2  \* as many as can be in use
NoId == 65535           \* port_id = -1 in a uint16_t

ASSUME LifeAssumption ==
  /\ \A f \in StatFiles : f \in Seq(BOOLEAN)
  /\ Probed \in Nat /\ Probed + 2 < NoId
  /\ MaxRecorded \in Nat /\ MaxErrors \in Nat

VARIABLES
  main,        \* where the main thread is
  at,          \* the port, or the counter, a loop of the main thread is at
  stat, bad,   \* the cpu lines of /proc/stat still to read; the stream has failed
  same,        \* DPDK_PORT_IN and DPDK_PORT_OUT name one interface
  structs,     \* the net_port structures that exist
  port_id,     \* their port_id
  dev,         \* the library's Ethernet ports
  vdevs,       \* the library's virtual devices, by name
  refused,     \* ghost: devices whose stop, close or removal the library refused
  stop,        \* stop_flag
  local,       \* local_packets_*
  transit,     \* flushLocalCounters' received, passed, dropped
  registry,    \* packets_*_counter
  recorded,    \* ghost: the packets counted so far
  thread,      \* where the metrics thread is
  is_running,  \* MetricsCollector::is_running
  snap,        \* what the push under way has collected
  gateway,     \* the values the push gateway holds
  errors,      \* push_errors_total
  slept,       \* ghost: the thread was asleep when is_running was cleared
  pushed       \* ghost: the last push was accepted

portVars == <<same, structs, port_id, dev, vdevs, refused>>
statVars == <<stat, bad>>
countVars == <<local, transit, registry, recorded>>
pushVars == <<thread, snap, gateway, errors, pushed>>
stopVars == <<is_running, slept>>
vars == <<main, at, stop, portVars, statVars, countVars, pushVars, stopVars>>

Zero == [c \in Counters |-> 0]
Free == [name |-> "none", started |-> FALSE]
Devices == [name : Ports \cup {"none", "other"}, started : BOOLEAN]
Name(p) == IF same /\ p = "out" THEN "in" ELSE p
After(p) == [in |-> "out", out |-> "exc", exc |-> "end"][p]
Following(c) == [received |-> "passed", passed |-> "dropped", dropped |-> "end"][c]

TypeOK ==
  /\ main \in {"ctor", "eal", "init", "start", "loop", "flush", "last", "close", "stopping",
               "join", "exit", "crashed"}
  /\ at \in Ports \cup Counters \cup {"end"}
  /\ stat \in Seq(BOOLEAN) /\ bad \in BOOLEAN
  /\ same \in BOOLEAN /\ stop \in BOOLEAN /\ is_running \in BOOLEAN
  /\ structs \subseteq Ports
  /\ port_id \in [Ports -> Ids \cup {NoId}]
  /\ dev \in [Ids -> Devices]
  /\ vdevs \subseteq Ports /\ refused \subseteq Ports
  /\ \A v \in {local, transit, registry, recorded, snap, gateway} : v \in [Counters -> Nat]
  /\ thread \in {"none", "check", "sleep", "push", "hung", "ended"} \cup Counters
  /\ errors \in 0 .. MaxErrors
  /\ slept \in BOOLEAN /\ pushed \in BOOLEAN

\* The devices the EAL probed by itself come first in the table.
Init ==
  /\ main = "ctor" /\ at = "end" /\ stop = FALSE
  /\ stat \in StatFiles /\ bad = FALSE
  /\ same \in BOOLEAN
  /\ structs = {}
  /\ port_id = [p \in Ports |-> NoId]
  /\ dev = [i \in Ids |-> IF i < Probed THEN [name |-> "other", started |-> FALSE] ELSE Free]
  /\ vdevs = {} /\ refused = {}
  /\ local = Zero /\ transit = Zero /\ registry = Zero /\ recorded = Zero
  /\ thread = "none" /\ is_running = TRUE
  /\ snap = Zero /\ gateway = Zero /\ errors = 0
  /\ slept = FALSE /\ pushed = FALSE

-----------------------------------------------------------------------------
(* The constructors.                                                         *)

\* One turn of the loop over /proc/stat. A failed stream leaves cpu_name as
\* it is, "cpu..." from the line before, so the loop never meets its break.
ReadCpuLine ==
  /\ main = "ctor"
  /\ \/ /\ ~bad /\ stat # <<>>
        /\ bad' = ~Head(stat)
        /\ stat' = Tail(stat)
     \/ bad /\ UNCHANGED statVars
  /\ UNCHANGED <<main, at, stop, portVars, countVars, pushVars, stopVars>>

\* The first line that is not a cpu's ends the loop; the thread starts.
StartThread ==
  /\ main = "ctor" /\ ~bad /\ stat = <<>>
  /\ main' = "eal"
  /\ thread' = "check"
  /\ UNCHANGED <<at, stop, portVars, statVars, countVars, stopVars, snap, gateway, errors, pushed>>

\* The handlers are registered in Worker's constructor, after the collector.
Signal ==
  /\ main \in {"eal", "init", "start", "loop", "flush", "last"}
  /\ ~stop
  /\ stop' = TRUE
  /\ UNCHANGED <<main, at, portVars, statVars, countVars, pushVars, stopVars>>

-----------------------------------------------------------------------------
(* initDPDK. A throw unwinds through ~Worker, which closes the ports only    *)
(* when port_in and port_out exist.                                          *)

Destroy(ss) ==
  IF {"in", "out"} \subseteq ss
  THEN main' = "close" /\ at' = "in"
  ELSE main' = "stopping" /\ at' = "end"

\* The EAL or the pool fails, an interface is not set, or a test mode returns.
LeaveEarly ==
  /\ main = "eal"
  /\ Destroy({})
  /\ UNCHANGED <<stop, portVars, statVars, countVars, pushVars, stopVars>>

\* Mutant: port_id is left as calloc makes it.
InitStructsZeroId ==
  /\ main = "eal"
  /\ structs' \in SUBSET Ports
  /\ port_id' = [p \in Ports |-> 0]
  /\ main' = "init" /\ at' = "in"
  /\ UNCHANGED <<stop, same, dev, vdevs, refused, statVars, countVars, pushVars, stopVars>>

\* Any of the three callocs may return NULL; initDPDK does not look.
InitStructs ==
  /\ main = "eal"
  /\ structs' \in SUBSET Ports
  /\ port_id' = [p \in Ports |-> NoId]
  /\ main' = "init" /\ at' = "in"
  /\ UNCHANGED <<stop, same, dev, vdevs, refused, statVars, countVars, pushVars, stopVars>>

\* The table with the new device at the lowest free id; none when all are taken.
Created(name) ==
  LET free == {i \in Ids : dev[i] = Free}
      lowest == {i \in free : \A j \in free : i <= j}
  IN  {[dev EXCEPT ![id] = [name |-> name, started |-> FALSE]] : id \in lowest}

\* Mutant: the first port is taken, whatever its name.
find_port_first(d, name) ==
  LET count == Cardinality({i \in Ids : d[i] # Free})
  IN  {i \in Ids : i < count /\ i = 0}

\* The ids below the number of ports available that carry the name.
find_port_by_dev_name(d, name) ==
  LET count == Cardinality({i \in Ids : d[i] # Free})
  IN  {i \in Ids : i < count /\ d[i].name = name}

Removed(d, name) == [i \in Ids |-> IF d[i].name = name THEN Free ELSE d[i]]

\* Mutant: the device is not removed when init fails.
ThrowOnly(d, name) ==
  /\ dev' = d /\ vdevs' = vdevs \cup {name} /\ UNCHANGED refused
  /\ Destroy(structs)

\* rte_vdev_uninit on a path that throws: whether it works is not looked at.
UninitAndThrow(d, name) ==
  /\ \/ dev' = Removed(d, name) /\ UNCHANGED <<vdevs, refused>>
     \/ dev' = d /\ vdevs' = vdevs \cup {name} /\ refused' = refused \cup {name}
  /\ Destroy(structs)

\* net_port_init for one port.
InitPort ==
  /\ main = "init"
  /\ \/ /\ at \notin structs                            \* a NULL port is dereferenced
        /\ main' = "crashed"
        /\ UNCHANGED <<at, port_id, dev, vdevs, refused>>
     \/ /\ at \in structs                               \* rte_vdev_init fails
        /\ Destroy(structs)
        /\ UNCHANGED <<port_id, dev, vdevs, refused>>
     \/ /\ at \in structs /\ Name(at) \notin vdevs
        /\ \E d \in Created(Name(at)) :
             LET found == find_port_by_dev_name(d, Name(at))
             IN  \/ /\ UninitAndThrow(d, Name(at))      \* not found, or no dev_info
                    /\ UNCHANGED port_id
                 \/ /\ found # {}                       \* configuring it fails
                    /\ port_id' = [port_id EXCEPT ![at] = CHOOSE i \in found : TRUE]
                    /\ UninitAndThrow(d, Name(at))
                 \/ /\ found # {}
                    /\ port_id' = [port_id EXCEPT ![at] = CHOOSE i \in found : TRUE]
                    /\ dev' = d
                    /\ vdevs' = vdevs \cup {Name(at)}
                    /\ IF at = "exc" THEN main' = "start" /\ at' = "in"
                                     ELSE main' = "init" /\ at' = After(at)
                    /\ UNCHANGED refused
  /\ UNCHANGED <<stop, same, structs, statVars, countVars, pushVars, stopVars>>

\* net_port_start for one port; the promiscuous mode may fail on a started one.
StartPort ==
  /\ main = "start"
  /\ \E started \in BOOLEAN, fails \in BOOLEAN :
       /\ ~started => fails
       /\ dev' = [dev EXCEPT ![port_id[at]].started = started]
       /\ IF fails THEN Destroy(structs)
          ELSE IF at = "exc" THEN main' = "loop" /\ at' = "end"
          ELSE main' = "start" /\ at' = After(at)
  /\ UNCHANGED <<stop, same, structs, port_id, vdevs, refused, statVars, countVars, pushVars,
                 stopVars>>

-----------------------------------------------------------------------------
(* The main loop, its counters only.                                         *)

Record ==
  /\ main = "loop"
  /\ \E c \in Counters :
       /\ recorded["received"] + recorded["passed"] + recorded["dropped"] < MaxRecorded
       /\ local' = [local EXCEPT ![c] = @ + 1]
       /\ recorded' = [recorded EXCEPT ![c] = @ + 1]
  /\ UNCHANGED <<main, at, stop, portVars, statVars, pushVars, stopVars, transit, registry>>

\* Mutant: the local counters are read and not set back.
FlushLoads(next) ==
  /\ transit' = local
  /\ main' = next /\ at' = "received"
  /\ UNCHANGED <<stop, portVars, statVars, pushVars, stopVars, local, registry, recorded>>

\* flushLocalCounters up to the three exchanges, which only this thread sees.
FlushExchange(next) ==
  /\ transit' = local
  /\ local' = Zero
  /\ main' = next /\ at' = "received"
  /\ UNCHANGED <<stop, portVars, statVars, pushVars, stopVars, registry, recorded>>

\* METRICS_FLUSH_INTERVAL_SEC have passed.
Flush == main = "loop" /\ FlushExchange("flush")

\* Mutant: nothing is flushed after the loop.
LastFlushSkipped ==
  /\ main = "loop" /\ stop
  /\ main' = "last" /\ at' = "end"
  /\ UNCHANGED <<stop, portVars, statVars, countVars, pushVars, stopVars>>

\* The loop ends on the signal; what is still local is flushed.
LastFlush == main = "loop" /\ stop /\ FlushExchange("last")

\* Mutant: the counter is set to the count and not raised by it.
IncrementSets ==
  /\ main \in {"flush", "last"}
  /\ at # "end"
  /\ registry' = [registry EXCEPT ![at] = transit[at]]
  /\ transit' = [transit EXCEPT ![at] = 0]
  /\ at' = Following(at)
  /\ UNCHANGED <<main, stop, portVars, statVars, pushVars, stopVars, local, recorded>>

\* IncrementPackets*, one counter after the other.
Increment ==
  /\ main \in {"flush", "last"}
  /\ at # "end"
  /\ registry' = [registry EXCEPT ![at] = @ + transit[at]]
  /\ transit' = [transit EXCEPT ![at] = 0]
  /\ at' = Following(at)
  /\ UNCHANGED <<main, stop, portVars, statVars, pushVars, stopVars, local, recorded>>

FlushEnds ==
  /\ main \in {"flush", "last"}
  /\ at = "end"
  /\ IF main = "flush" THEN main' = "loop" /\ at' = "end" ELSE Destroy(structs)
  /\ UNCHANGED <<stop, portVars, statVars, countVars, pushVars, stopVars>>

-----------------------------------------------------------------------------
(* ~Worker, then ~MetricsCollector.                                          *)

\* net_port_close on a port whose id is a port of the library: the calls up
\* to the first that fails.
CloseCalls(p, id) ==
  \/ /\ refused' = refused \cup {Name(p)}              \* rte_eth_dev_stop
     /\ UNCHANGED <<port_id, dev, vdevs>>
  \/ /\ refused' = refused \cup {Name(p)}              \* rte_eth_dev_close
     /\ dev' = [dev EXCEPT ![id].started = FALSE]
     /\ UNCHANGED <<port_id, vdevs>>
  \/ /\ refused' = refused \cup {Name(p)}              \* rte_vdev_uninit
     /\ dev' = [dev EXCEPT ![id] = Free]
     /\ UNCHANGED <<port_id, vdevs>>
  \/ /\ dev' = Removed([dev EXCEPT ![id] = Free], Name(p))
     /\ vdevs' = vdevs \ {Name(p)}
     /\ port_id' = [port_id EXCEPT ![p] = NoId]
     /\ UNCHANGED refused

Attached(p) == p \in structs /\ port_id[p] \in Ids /\ dev[port_id[p]] # Free

\* A missing structure and an id that is no port end the function at once.
ClosePort ==
  /\ main = "close"
  /\ IF Attached(at) THEN CloseCalls(at, port_id[at])
                     ELSE UNCHANGED <<port_id, dev, vdevs, refused>>
  /\ IF at = "exc" THEN main' = "stopping" /\ at' = "end" /\ structs' = {}
                   ELSE main' = "close" /\ at' = After(at) /\ UNCHANGED structs
  /\ UNCHANGED <<stop, same, statVars, countVars, pushVars, stopVars>>

\* Mutant: the thread is not told to stop.
ClearNothing ==
  /\ main = "stopping"
  /\ slept' = (thread = "sleep")
  /\ main' = "join"
  /\ UNCHANGED <<at, stop, portVars, statVars, countVars, pushVars, is_running>>

ClearIsRunning ==
  /\ main = "stopping"
  /\ is_running' = FALSE
  /\ slept' = (thread = "sleep")
  /\ main' = "join"
  /\ UNCHANGED <<at, stop, portVars, statVars, countVars, pushVars>>

Join ==
  /\ main = "join"
  /\ thread = "ended"
  /\ main' = "exit"
  /\ UNCHANGED <<at, stop, portVars, statVars, countVars, pushVars, stopVars>>

-----------------------------------------------------------------------------
(* The metrics thread: MetricsCollector::MainLoop.                           *)

CheckRunning ==
  /\ thread = "check"
  /\ thread' = IF is_running THEN "sleep" ELSE "ended"
  /\ UNCHANGED <<main, at, stop, portVars, statVars, countVars, stopVars, snap, gateway, errors, pushed>>

Wake ==
  /\ thread = "sleep"
  /\ thread' = "received"
  /\ UNCHANGED <<main, at, stop, portVars, statVars, countVars, stopVars, snap, gateway, errors, pushed>>

\* PushAdd collects the counters in the order they were registered.
Collect ==
  /\ thread \in Counters
  /\ snap' = [snap EXCEPT ![thread] = registry[thread]]
  /\ thread' = IF thread = "dropped" THEN "push" ELSE Following(thread)
  /\ UNCHANGED <<main, at, stop, portVars, statVars, countVars, stopVars, gateway, errors, pushed>>

\* Mutant: the thread ends when a push fails.
PushMetricsGivesUp ==
  /\ thread = "push"
  /\ \/ gateway' = snap /\ pushed' = TRUE /\ thread' = "check" /\ UNCHANGED errors
     \/ /\ errors < MaxErrors
        /\ errors' = errors + 1
        /\ pushed' = FALSE
        /\ thread' = "ended"
        /\ UNCHANGED gateway
  /\ snap' = Zero
  /\ UNCHANGED <<main, at, stop, portVars, statVars, countVars, stopVars>>

PushMetrics ==
  /\ thread = "push"
  /\ \/ gateway' = snap /\ pushed' = TRUE /\ UNCHANGED errors
     \/ /\ errors < MaxErrors       \* any status but 200, the push applied or not
        /\ gateway' \in {gateway, snap}
        /\ errors' = errors + 1
        /\ pushed' = FALSE
  /\ snap' = Zero
  /\ thread' = "check"
  /\ UNCHANGED <<main, at, stop, portVars, statVars, countVars, stopVars>>

\* The gateway takes the connection, and the push or not, and never answers. The
\* Gateway is built without a time-out: the thread stays in PushAdd.
PushHangs ==
  /\ thread = "push"
  /\ gateway' \in {gateway, snap}
  /\ pushed' = FALSE
  /\ snap' = Zero
  /\ thread' = "hung"
  /\ UNCHANGED <<main, at, stop, portVars, statVars, countVars, stopVars, errors>>

-----------------------------------------------------------------------------

MainStep ==
  \/ ReadCpuLine \/ StartThread
  \/ LeaveEarly \/ InitStructs \/ InitPort \/ StartPort
  \/ Record \/ Flush \/ LastFlush \/ Increment \/ FlushEnds
  \/ ClosePort \/ ClearIsRunning \/ Join

ThreadStep == CheckRunning \/ Wake \/ Collect \/ PushMetrics \/ PushHangs

Next == MainStep \/ Signal \/ ThreadStep

Spec == Init /\ [][Next]_vars

\* The scheduler runs both threads, and every library call returns, but for a push
\* that hangs; the loop tests stop_flag on every turn, so it is not passed over
\* for ever.
FairSpec ==
  /\ Spec
  /\ WF_vars(MainStep)
  /\ SF_vars(LastFlush)
  /\ WF_vars(ThreadStep)

-----------------------------------------------------------------------------

\* net_port_init, net_port_start and net_port_close touch the device of the
\* port in hand only: not another port's, when both interfaces are one or an
\* initialisation failed, and not a device the EAL probed by itself.
OwnDeviceOnly ==
  [][\A i \in Ids : dev[i] # dev'[i] => {dev[i].name, dev'[i].name} \subseteq {"none", Name(at)}]_vars

\* The main loop runs on three ports of its own, all started, whose ids differ.
LoopOnOwnPorts ==
  main \in {"loop", "flush", "last"} =>
    \A p \in Ports : port_id[p] \in Ids /\ dev[port_id[p]] = [name |-> p, started |-> TRUE]

\* When ~Worker is over no device of the worker is left, whichever step of
\* initDPDK threw, except one the library refused to stop, close or remove.
NothingLeftBehind ==
  main \in {"stopping", "join", "exit"} =>
    /\ vdevs \subseteq refused
    /\ \A i \in Ids : dev[i].name \in Ports => dev[i].name \in refused

\* Every packet counted is in exactly one of the local counters, a flush under
\* way and the registry, and the gateway is never ahead of the registry.
CountedOnce ==
  \A c \in Counters :
    /\ local[c] + transit[c] + registry[c] = recorded[c]
    /\ snap[c] <= registry[c] /\ gateway[c] <= registry[c]

\* The totals at the gateway never go back, whatever pushes fail.
TotalsOnlyGrow == [][\A c \in Counters : gateway'[c] >= gateway[c]]_vars

\* The join of the metrics thread brings the last counts to the gateway when
\* the thread was asleep at the time and its push is accepted.
LastCountsArrive ==
  main = "exit" /\ slept /\ pushed => gateway = recorded

\* While the worker runs the gateway catches up with what was counted, though
\* pushes fail and read the counters in the middle of a flush, unless it leaves a
\* push without an answer (metrics_collector.cpp:26, 101).
CountsReachGateway == gateway # recorded ~> (gateway = recorded \/ stop \/ thread = "hung")

\* Once the signal is seen, or initDPDK has thrown, the process ends: no flush or
\* close waits for ever, and the join only for a push the gateway never answers
\* (metrics_collector.cpp:101, 112-115).
EndsAfterSignal ==
  stop \/ main = "close" ~>
    main \in {"exit", "crashed"} \/ (main = "join" /\ thread = "hung")
=============================================================================
