# A verification project for the packet filter and its controller

The repository holds a packet filter (the *worker*: C/C++, DPDK), a gRPC
*controller* (Go) that hands out policies and classifies destinations, and an
*admin* client (Python). This directory models the parts in which steps of several
actors, restarts, failures or fixed sizes decide whether the system does what its
documents say. Every definition is taken from the source; `PROJECT.json` lists
the lines each one stands for. Four runs show a place where a document, or a
message of the code, and the behaviour disagree.

## 1. The system and what is modelled

| Part | Source | Module | State |
|---|---|---|---|
| Policy distribution: `LoadConfig`, `ToggleFiltering`, `GetPolicy`, the worker's polls | `controller/internal/manager`, `controller/internal/grpcserver`, `worker/src/worker.cpp` | `PolicySync` (abstract: `PolicyRegister`) | modelled, proved |
| Policy contents: merge, the worker's tables, the verdict | `policy_manager.go`, `worker.cpp`, `filtr_packets.c` | `PolicyFilter` | modelled, proved |
| The worker's main loop against its policy threads | `worker.cpp`, `proc_packets.c` | `FilterWorker` | modelled, proved |
| IP verdict cache in memory | `ip_cache.c` | `VerdictCache` | modelled, proved |
| Domain verdict cache, and both caches on disk | `domain_cache.c`, `ip_cache.c` | `CachePersistence` | modelled, proved |
| Packet path, buffers, MAC rewriting, counters | `proc_packets.c`, `worker.cpp` | `PacketPath` | modelled, proved |
| Packet parser | `pars_packets.c` | `PacketParser` | modelled, proved |
| Network ports, metrics, start and end of the process | `net_port.c`, `metrics_collector.cpp`, `worker.cpp` | `WorkerLife` | modelled, proved; gauges left out |
| Classification service | `controller/internal/service`, `data_server.go`, `worker.cpp` | `Classifier`, composed with `PolicyFilter` in `ClassifyPath` | modelled up to the JSON path, proved |

How the parts interact. The administrator sends a TOML text; the controller
parses it, counts versions and keeps filtering switches per worker. Every 30 to
45 seconds a worker starts a detached thread that sends its version; the
controller answers "unchanged" or a policy built from the global section and the
worker's own. The thread writes the policy under `policy_mutex` and clears both
verdict caches. The main loop copies the policy, takes up to 32 packets and decides
each: exception traffic goes to a port of its own, the rest by a cached verdict, or by
a `Classify` call and the filter's rules and then an insert into the cache. What is
sent leaves rewritten by the other port. Every packet is counted; the counts go
through a registry to a push gateway by a thread of their own. The destructor writes
the caches to SQLite, closes the ports and joins the metrics thread. An hourly save is
asked for as well, but never happens: nothing calls `rte_timer_subsystem_init`, and
without it `rte_timer_reset` and `rte_timer_manage` return an error the code does not
look at. So no module has save threads.

## 2. Modules

### PolicySync
Variables are the controller's (`config`, `version`, `filteringEnabled`,
`configData`), the worker's (`policy`, `configVersion`, `enable`) and the calls in
progress (`admin`, `poll`). Each region under a Go lock is one action:
`Register`, `CheckVersion` (manager.go 27-40), `GetWorkerPolicyProto`, `Reply`. The
client has `StartPoll`, `Deliver` (stores `enable`), `Install` (under the mutex),
`PollFails` (deadline or error). `configData` is a slice written without a lock, so
`StoreConfigData` writes its two words in either order and `ReadBack` of a mixed
header yields any text. `ControllerRestart` and `WorkerRestart` forget everything,
as nothing of this is on disk. A configuration is a model value.

`PolicyRegister` is the promise: one register, read atomically, applied late or
never. `PolicySync` implements it under the mapping at its end.

### PolicyFilter
Three steps for one worker and one packet: `Merge` (the two sections),
`Install` (the fixed-size tables), `Decide`. Lists are sequences; tables have the
sizes of `constants.h` as CONSTANTS; a table ends at its first empty entry as the
loops of `filtr_packets.c` end it. `struct requested_classification` is not
initialised in `proc_packets.c`, so `Requests` leaves the unanswered slots to a
choice over `Junk`; reads behind `categories_with_lvl` are a choice as well
(`beyond`). `Responses` are the answers the protocol admits. Lists with empty or
repeated entries, lists that overrun a table, and IPv6 addresses that look like the
end of one, are inputs, and so are more thresholds than their table holds: the loop
keeps any of them (`Kept`), as the order of a protobuf map is unspecified. The `InReach` operators say which entries the filter still
gets to, and the properties speak of those. `InputAssumption` says what an input is:
sections as the TOML reader leaves them, short enough for the memory the model has
(`Fits`, see section 6), packets with an address, answers with at least one category, "unknown"
being no category.

### FilterWorker
The main thread's steps (`pc`) and the policy threads' (`poller`). A policy is the
set of keys its block lists name plus a ghost generation number; a cache entry
carries the generation that decided it. A miss takes three steps (`LookupMiss`,
`Classify`, `AddToCache`) between which a policy thread may install and clear.
`Classify` either fails, and the packet is sent, or answers, and the rules decide:
blocked keys are not sent, for the others either answer is possible.
`DecideAtOnce` covers the paths that leave policy and caches alone.

### VerdictCache
`ip_cache.c` as a heap of nodes, a table, a spinlock and a database handle, with
the main thread, which also saves at shutdown (`save`), and policy threads (`clear`).
A clear is four steps: its unlocked test, the lock, the reset, the unlock. Other regions
under the spinlock are one step, except in `copy_data_from_hash_to_snapshot_ip`
and `free_ip_cache`, where the region is split at the reads and frees the
properties are about. `rte_hash_reset` forgets nodes without freeing them and the
model does too. The count that sizes the snapshot is read without the lock.

### CachePersistence
The contents of one cache, in memory (`table`), in the connection's transaction
(`work`) and committed (`disk`), across crashes, restarts and reboots. The save is
`Shutdown` (the count), `SaveCopy`, `SaveBegin`, one `SaveRow` per row and
`SaveCommit`, each of which may fail as in the code. On a failed statement SQLite may
roll the transaction back by itself; the loop goes on and later rows are committed one
by one. Verdicts are decided by the main loop's copy of the policy (`local`), which
may be older than the policy in force (`gen`), and policy threads may clear the table
at any moment, between the count and the copy of the save included. The clock is the
cycle counter, which a reboot starts again, and ages are unsigned differences. A key
built from an IPv4 row keeps whatever the stack held in the bytes the address does not
fill (`Fill`). With `Fill = {Zero}` the module is the domain cache.

### PacketParser, PacketPath
`PacketParser` is `parsing_pakage` as functions of an abstract frame: the type
fields with the code's tests by `&`, the port bytes and the walk over a DNS name.
A frame carries the labels its query was made of (`labels`), so that the walk over its
bytes can be compared with the text they spell.
`PacketPath` has the three ports, the buffers with their references by place
(`refs`), learned neighbours and the counters. `ReceiveBurst`, `ProcessPacket`
(learn, rewrite, TTL, transmit, free and count in the code's order), `ForwardToOut`
and `NextBurst` are the main loop; the driver (`Arrive`, `TxDone`) is external.
Verdicts are free choices here. The counters are raised as in the code and no
property speaks of them. They are not the plain totals that `metrics_collector.cpp`
announces ("Total number of packets received", line 42; "passed/forwarded", 49;
"dropped", 55): a packet the port refused is counted as dropped and as passed, one
whose TTL ran out as neither, and packets of `forward_to_out` as passed but not as
received.

### WorkerLife
From the constructor to the join of the metrics thread: reading `/proc/stat`,
`initDPDK` with a failure at every library call, the loop that counts and flushes,
`~Worker` closing the ports, the thread that collects and pushes. DPDK is external:
a table of ports whose lowest free id goes to the next device. The thread reads the
registry counter by counter while the main thread raises them. A push succeeds, fails,
or is never answered (`PushHangs`): the gateway is built without a time-out, and the
thread, and later the join, then wait for ever. A NULL port is
dereferenced as in the code: `main = "crashed"`.

### Classifier, ClassifyPath
`Classifier` is the `Classify` call on both sides: the worker's deadline
(`Ask`, `Deadline`, `Deliver`) and the handler that asks one provider after the
other (`PassOver`, `RequestFails`, `RequestPanics`, `Respond`) and answers
(`Return`). A handler goes on when its caller has given up. The body is closed
before it is decoded, as in service.go:80-88. `ClassifyPath` runs it for cache
misses decided by `PolicyFilter`'s tables and verdict.

The `MC` modules hold symmetry sets and the inputs for TLC.

## 3. Runs

| Run | Expectation | What it shows |
|---|---|---|
| `sync` | pass | a worker's policy and version were in force together; `PolicySync` implements `PolicyRegister`; until a controller restart "unchanged" is only answered to an up-to-date worker; without one, workers settle on the last configuration and switch although polls overlap, fail and install out of order |
| `sync_restart` | violation | after a controller restart an outdated worker is told "already has latest policy" (manager.go:38) |
| `worker` | pass | at most one burst of old verdicts survives an update, new verdicts obey the policy, an installed policy reaches the packets, a signal ends the worker |
| `cache_memory` | pass | no use after free, no double free, locked uses see a live table, the shutdown snapshot fits, the destructor gets through |
| `persist` | pass | a packet hits only verdicts decided for its destination and, within a boot, less than their TTL ago; a verdict by an older policy was read back or decided late; a save is on disk as a whole or not at all; the save at shutdown is complete |
| `persist_hourly` | violation | a verdict in the table of a running worker never gets a row ("Periodic saving of the cache occurs every hour using DPDK timers", worker/README(DPDK FILTRING).md:55) |
| `filter_rules` | pass | what is sent is permitted, what is allowed is sent, both sections count |
| `filter_priority` | violation | a domain on both lists is blocked (admin/README.md:28 says the allow list wins) |
| `path` | pass | every buffer has one owner and comes back, frames leave rewritten and in order, exception traffic goes its way, a packet is decided by what it is on the wire |
| `life` | pass | the loop runs on its own ports, no device is left behind, a packet is counted once and the counts reach the gateway, the process ends after a signal; only an unanswered push holds the last two up |
| `classify` | pass | every provider is asked once, the lists decide what is answered, every miss is decided and every handler ends |
| `classify_blocks` | violation | a destination that a provider puts in a blocked category is sent (admin/README.md:26): the body is closed before it is decoded |

Some properties carry a condition because the code does; the condition is part of
what they say:

- `UnchangedUntilRestart` (and `UnchangedMeansLatest`) speaks of a worker that has installed nothing else since
  it asked: with overlapping polls a late thread can install an older policy while a
  handler compares versions. `WorkersConverge` shows that this repairs itself.
- `HitsAreGenuine` excludes histories with a *torn* snapshot: when a policy thread
  clears the table between the count and the copy of the save, slots nobody filled
  are written.
- `RestartsDoNotProlong` speaks of one boot. A row of an earlier boot counts as fresh
  again when the new counter passes its timestamp, and nothing bounds its real age.
- `OldVerdictsHaveAnOrigin` names two origins because the code has two: rows read
  back at start after the constructor's poll, and an iteration of the main loop that
  began before the update.
- `SavesAreAllOrNothing` and `ShutdownSaves` speak of saves without a failed
  statement: after one, rows are skipped or, after a rollback by SQLite, committed
  singly.
- `SentOnlyIfPermitted` and `TablesHoldBothSections` require a category's threshold
  only when all thresholds fit their table: dropped ones are not applied.
- `CountsReachGateway` and `EndsAfterSignal` stop at a push that is never answered.
- `LastCountsArrive` needs a metrics thread that was asleep when it was told to
  stop; otherwise the last flush has no push after it.
- `ListsDecide` lets a blocked destination pass when its classification was not
  answered in time, and `FreshVerdictsObeyPolicy` leaves such verdicts out.
- The `PolicyFilter` properties and `ListsDecide` speak of entries in reach: an entry
  behind one that looks empty, or behind the end of a table, is not found. An
  unanswered category slot that happens to be empty equals every unused slot of
  `locked_categories`, so uninitialised slots only ever make the filter stricter.

In the model of `WorkerLife`, a `/proc/stat` with a field that does not fit an
`int` keeps the constructor's loop from ever meeting its end, as in the code; no property is
stated of it.

Each property has a mutant: a plausible slip in one definition (kept next to it
under a comment "Mutant") that makes TLC report the property.

### Bounds, and why they are enough
- `PolicySync`: `MaxLoads`, `MaxToggles`, `MaxCrashes`, `MaxReboots` bound the
  environment, `MaxMishaps` the last three together (one beside two loads). Two loads are what a race between an old and a new policy needs, a
  third configuration is indistinguishable from the first; two threads give every
  order of two installs. `Threads` bounds polls in flight (with a period of at
  least 30 seconds and a deadline of one, two is generous).
- `FilterWorker`: two keys against a burst of one, so that the bound of
  `BoundedStaleness` is reached and could be exceeded; `MaxGen = 3`: two updates
  after the first policy. One policy thread at a time, which comes back; the
  theorems cover any number, the two liveness properties only this one.
- `VerdictCache`: three keys, and four nodes so that a cleared table's lost nodes
  and a failed allocation both occur.
- `CachePersistence`: two destinations under two keys each (zeroed and other bytes),
  a clock (`MaxClock`) that reaches the TTL and starts again once (`MaxBoot`), one
  policy update (`MaxGen`). A save of two rows has a middle, and one update is enough
  for an old verdict; the theorems cover any number. The hourly run has one
  destination and a TTL the clock does not reach.
- `PolicyFilter`: tables of two or three entries; every pair of sections that differ
  in one kind of rule, with lists longer than the tables; one packet of each kind.
  The kinds of rules do not interact except through the order of the checks, which
  one packet with a domain and one without exercise.
- `PacketPath`: two buffers, a burst of two and three frames, so that a pool runs
  dry and a burst has an order; frames of every kind the parser tells apart.
- `WorkerLife`: one port that is not the worker's, so that ids are shifted; two
  counted packets; one push that reports an error (any may hang); a `/proc/stat` that fits and
  one that does not.
- `ClassifyPath`: two misses, so that the handler of a call given up runs beside
  the next; a provider that is configured, one with a request body, one unknown.
- Deadlock checking is off for everything but `PolicySync`: those processes stop, or
  the bounds on their input do.

### Fairness
- `PolicySync`: the main loop starts polls for ever and started calls are carried
  through (weak fairness). Polls may fail at any step any number of times, but only
  finitely often: nothing in the code bounds the failures, and a worker that never
  gets an answer cannot follow the controller. Loads, toggles and restarts are not fair.
- `FilterWorker`: weak fairness of the main thread and of every policy thread; no
  signal needs to arrive.
- `VerdictCache`: weak fairness of the destructor's steps and of policy threads.
- `CachePersistence` (`persist_hourly` only): time passes, the main loop goes round
  and a save that was begun goes on. There is no timer whose fairness could be assumed.
- `PacketPath`: the main loop runs, and interfaces send what they have accepted.
- `WorkerLife`: both threads run and every library call returns, but for a push that
  hangs, which no fairness ends. Strong fairness of the test
  of `stop_flag`, which the loop makes on every turn but which is disabled during a
  flush. Pushes may report errors, a bounded number of times.
- `ClassifyPath`: requests end (the HTTP client has a time-out of 20 seconds), and
  deadlines pass. No packet needs to arrive.

## 4. Proofs

Every safety property of a passing run is a theorem. The type invariants (`TypeOK`)
are proved with the rest and are not invariants of the runs.

All theorems hold for every value of the constants under the named assumptions of
the modules: distinctness of the special values, finite key and buffer sets, sizes
that are natural numbers, `Burst` at least 1, a clock that does not wrap within a
TTL of its bound, inputs of `PolicyFilter` as described above, frames whose port is
two bytes and whose queries hold one name of non-empty labels and at most `MaxName`
bytes, or nothing. TLC evaluates the assumptions on every run.

- `PolicySyncProofs`: `TypeOK`, `PolicyMatchesVersion`, `UnchangedUntilRestart`, and
  that `PolicySync` implements `PolicyRegister`. `PolicyMatchesVersion` is not
  inductive: the policy being installed comes from an answer that was built earlier.
  `AnswersWereIssued` adds that the controller's pair, and every answer under way,
  were in force together. For the refinement `PhaseInv` says what a poll holds in
  each phase; then building the answer is the register's read, installing its
  application, failing its drop, and every other step changes nothing the register
  sees (`StepSimulation`). `VersionInv` says that before the first controller restart
  a version has been in force with one configuration only, and none above the
  present one; then equal versions mean equal policies. `UnchangedIsTrueUntilRestart`
  speaks of the answers before the first restart; after one the property is false
  (`sync_restart`). `UnchangedIsTrue` is the case without restarts, `MaxCrashes = 0`.
- `VerdictCacheProofs`: `NoReadAfterFree`, `TableOwnsItsNodes`,
  `LockedTableIsValid`, `ShutdownSnapshotFits`. The strengthening says who holds the
  spinlock in which step (`Locking`), that the pointer dangles only while the
  destructor holds it (`Dangling`), and where the nodes in the main thread's hands come
  from (`Holding`). `NoReadAfterFree` needs that only the main
  thread frees nodes, and that it does so under the lock. `SnapInv` says that from
  the main thread's count on, the table holds no more than was counted, unless a reset is
  under way, which ends before the main thread gets the lock.
- `FilterWorkerProofs`: `BoundedStaleness` and `FreshVerdictsObeyPolicy`. The
  strengthening counts: while the main loop's copy is out of date, the old verdicts
  in the swept caches are at most the packets finished in this iteration
  (`OldVerdicts`); `MutexHeld` says that the copy is out of date for as long as a
  policy thread is clearing, which is why the count starts at zero.
- `CachePersistenceProofs`: `HitsAreGenuine`, `RestartsDoNotProlong`,
  `OldVerdictsHaveAnOrigin`, `SavesAreAllOrNothing`, `ShutdownSaves`. A wrong or
  restamped verdict could wait in a snapshot, a transaction or a row, so `Sound` speaks
  of every copy. `Origin` is the third property without its condition on age.
  `InHand`: from the count on, the table is empty or is what the save has in hand.
  `Transaction`: while no statement has failed the save is inside its transaction,
  and the connection sees the rows written so far over what was on disk (`Partly`).
- `PacketPathProofs`: `OneOwner`, `SentFramesAreRewritten`, `OrderKept`,
  `ExceptionTraffic`, `PacketsAreDecidedByWhatTheyAre`.
  `FlowInv` is one invariant for all five: `Arrivals` says that frames are
  where their origin puts them, that those in hand belong to the present burst, and that
  the ones in hand came before the ones in the queue; `NeighborsWereHeard` that a
  learned address was heard on its port; `LeavesBy` what has become of a frame that
  was handed on, the port it left by included. What the parser reads of a frame is a
  lemma about every frame (`FrameIsReadAsItIs`: type bits, byte order).
- `PacketParserProofs`: `NameIsRead`, the walk over a DNS name. `Wire`, `Text` and
  the two loops are recursive functions. `SetInduction`, for a *set* that holds 0 and
  every successor, shows that such functions exist, and then: where each label is
  in the bytes (`WireIsNamed`), that the measuring loop stops at the zero (`EndOfName`, from
  the last label back), and that the text of the first labels followed by what the
  copying loop makes of the rest is always the same (`CopyOfName`).
- `ClassifyPathProofs`: of `PolicyFilter`, `SentOnlyIfPermitted`, `AllowedIsSent`
  and `TablesHoldBothSections`; of the composition, `EveryProviderAskedOnce`,
  `ListsDecide` and `CategoriesNeverDecide`. The lemmas say what `Filtered`,
  `Append2` and the tables hold and in what order, by `SetInduction` again; an
  entry is found exactly if its first place in the list is in reach. `RulesInv`
  says what the tables were made from, `VerdictInv` which request the verdict comes
  from. For the service `CallInv` counts what a handler has asked against what it
  has still to do. `MissInv` says that an answer is "unknown": the body is
  closed before it is decoded, so the verdict is that of the lists
  (`OnlyListsDecide`); the property of the run follows.
- `WorkerLifeProofs`: `CountedOnce`, `TotalsOnlyGrow`, `LastCountsArrive`, `LoopOnOwnPorts`,
  `NothingLeftBehind`, `OwnDeviceOnly`. `CountInv` adds how far a flush has got and
  that what a push has collected is not behind the gateway. `LastInv` says that
  after the last flush the registry stands still and that a push begun then
  collects all of it. `PortInv` relates the
  library's table to the stage of `initDPDK` or `~Worker`: a name is in the table at
  most once, a port's number never leads to a device that is not its own, and while
  the ports are closed every device not refused belongs to a port still to come.

Only model-checked: liveness (`WorkersConverge`, `PolicyTakesEffect`, `StopsOnSignal`,
`ShutdownCompletes`, `BuffersComeBack`, `CountsReachGateway`,
`EndsAfterSignal`, `MissesAreDecided`), which is out of this prover's reach. The four
properties of the violation runs are refuted by TLC.

## 5. Hazards

`PROJECT.json` lists what is hard to test in this code, by line, with the
properties that would catch it going wrong, and says where none does.

## 6. Not modelled

- The CPU and memory gauges of the metrics collector: arithmetic on numbers read
  from `/proc`, shared with nothing.
- The JSON path walk of the classification service (`json_parser.go`): no answer
  gets that far while the body is closed first. How URLs, headers and bodies of
  requests are put together: building a request works or fails.
- The admin client's `validate_config`: a stateless check before calls that
  `PolicySync` has as actions.
- `dpdk_filter/main.c`: a stand-alone program with the calls of `initDPDK` and the
  main loop in a row.
- What a block list that overruns both domain tables, or a list that overruns the
  category table, does to the memory behind them; the memory of the `Worker`
  object under a policy thread that outlives it.
- `config.go` and `converter.go` (environment variables, copied fields),
  `controller/service` (an older copy of the classification service), generated
  protobuf code, traffic generators, scripts and build files: no state of the running
  system.
