----------------------------- MODULE PolicySync -----------------------------
(***************************************************************************)
(* How a policy travels from the administrator through the controller to    *)
(* the workers.                                                             *)
(*                                                                          *)
(*   AdminServer (admin_server.go)    LoadConfig, ToggleFiltering           *)
(*   Manager, PolicyManager           the configuration in force, its       *)
(*     (manager.go, policy_manager.go) version, the filtering switches      *)
(*   DataServer.GetPolicy (data_server.go)  one handler per poll            *)
(*   Worker.requestPolicyFromController (worker.cpp)  one detached thread   *)
(*                                          per poll                        *)
(*                                                                          *)
(* Every lock region of the Go code and every client-side step is one       *)
(* action, so handlers, admin calls, polls, timeouts and restarts           *)
(* interleave as they do in the program. A configuration is a model value:  *)
(* what it says is the business of PolicyFilter.                            *)
(***************************************************************************)
EXTENDS Integers, FiniteSets

CONSTANTS Workers,      \* worker identifiers
          Threads,      \* slots for concurrent polls of one worker
          Admins,       \* slots for concurrent LoadConfig calls
          Configs,      \* TOML texts that parse
          BadConfig,    \* a TOML text that does not parse
          EmptyConfig,  \* &TOMLConfig{}: what the controller starts with
          NoPolicy,     \* the indeterminate bytes of Worker::current_policy
          NoText,       \* AdminServer.configData before the first LoadConfig
          MaxLoads, MaxToggles, MaxCrashes, MaxReboots,  \* bounds on the environment
          MaxMishaps    \* bound on toggles, crashes and reboots together

ASSUME SyncAssumption ==
  /\ BadConfig \notin Configs /\ EmptyConfig \notin Configs /\ NoPolicy \notin Configs
  /\ NoText \notin Configs
  /\ BadConfig # EmptyConfig /\ NoPolicy # EmptyConfig /\ NoText # BadConfig
  /\ MaxLoads \in Nat /\ MaxToggles \in Nat /\ MaxCrashes \in Nat /\ MaxReboots \in Nat
  /\ MaxMishaps \in Nat

VARIABLES
  config,            \* PolicyManager.config
  version,           \* PolicyManager.version
  filteringEnabled,  \* Manager.filteringEnabled, "absent" when there is no entry
  configData,        \* AdminServer.configData, a slice header: pointer and length
  admin,             \* LoadConfig calls in progress
  poll,              \* polls in progress: client thread and server handler
  policy,            \* Worker::current_policy
  configVersion,     \* Worker::current_config_version
  enable,            \* Worker::enable
  issued,            \* ghost: every <<version, config>> that was ever in force
  budget             \* what the environment may still do

controller == <<config, version, filteringEnabled, configData, admin>>
worker     == <<policy, configVersion, enable>>
vars       == <<controller, poll, worker, issued, budget>>

Calls   == Workers \X Threads
Texts   == Configs \cup {BadConfig, NoText}
InForce == Configs \cup {EmptyConfig}

\* What GetPolicy answers: POLICY_UNCHANGED, or POLICY_PROVIDED with a policy
\* and the config_version inside it.
Answer == [result : {"unchanged", "provided"}, cfg : InForce, ver : Nat]
NoAnswer == [result |-> "unchanged", cfg |-> EmptyConfig, ver |-> 0]

Phases == {"idle", "sent", "registered", "changed", "answering", "replied", "received"}

\* live: the client is still waiting; a handler whose client has given up runs on.
Poll == [phase : Phases, live : BOOLEAN, req : Nat, ans : Answer, on : BOOLEAN]
Idle == [phase |-> "idle", live |-> FALSE, req |-> 0, ans |-> NoAnswer, on |-> TRUE]

AdminCall == [pc : {"idle", "storing", "parsing"}, data : Texts \cup Configs,
              todo : SUBSET {"ptr", "len"}]
AdminIdle == [pc |-> "idle", data |-> NoText, todo |-> {}]

TypeOK ==
  /\ config \in InForce
  /\ version \in Nat
  /\ filteringEnabled \in [Workers -> {"absent", "on", "off"}]
  /\ configData \in [{"ptr", "len"} -> Texts]
  /\ admin \in [Admins -> AdminCall]
  /\ poll \in [Calls -> Poll]
  /\ policy \in [Workers -> InForce \cup {NoPolicy}]
  /\ configVersion \in [Workers -> Nat]
  /\ enable \in [Workers -> BOOLEAN]
  /\ issued \subseteq Nat \X InForce
  /\ budget \in [{"loads", "toggles", "crashes", "reboots"} -> Nat]

Init ==
  /\ config = EmptyConfig
  /\ version = 0
  /\ filteringEnabled = [w \in Workers |-> "absent"]
  /\ configData = [f \in {"ptr", "len"} |-> NoText]
  /\ admin = [a \in Admins |-> AdminIdle]
  /\ poll = [c \in Calls |-> Idle]
  /\ policy = [w \in Workers |-> NoPolicy]
  /\ configVersion = [w \in Workers |-> 0]
  /\ enable = [w \in Workers |-> TRUE]
  /\ issued = {<<0, EmptyConfig>>}
  /\ budget = [loads |-> MaxLoads, toggles |-> MaxToggles,
               crashes |-> MaxCrashes, reboots |-> MaxReboots]

Mishaps == (MaxToggles + MaxCrashes + MaxReboots)
             - (budget["toggles"] + budget["crashes"] + budget["reboots"])

Spend(what) ==
  /\ budget[what] > 0
  /\ what = "loads" \/ Mishaps < MaxMishaps
  /\ budget' = [budget EXCEPT ![what] = @ - 1]

-----------------------------------------------------------------------------
(* The administrator's calls. configData is a Go slice written and read      *)
(* without a lock, word by word; a header whose words come from two texts    *)
(* parses as anything or not at all.                                         *)

LoadConfig(a) ==
  /\ admin[a].pc = "idle"
  /\ Spend("loads")
  /\ \E d \in Configs \cup {BadConfig} :
       admin' = [admin EXCEPT ![a] = [pc |-> "storing", data |-> d, todo |-> {"ptr", "len"}]]
  /\ UNCHANGED <<config, version, filteringEnabled, configData, poll, worker, issued>>

StoreConfigData(a) ==
  \E f \in admin[a].todo :
    /\ configData' = [configData EXCEPT ![f] = admin[a].data]
    /\ admin' = [admin EXCEPT ![a].todo = @ \ {f}]
    /\ UNCHANGED <<config, version, filteringEnabled, poll, worker, issued, budget>>

TextsRead == IF configData["ptr"] = configData["len"]
             THEN {configData["ptr"]}
             ELSE Configs \cup {BadConfig}

\* s.manager.UpdateConfig(s.configData): the argument is read back from the
\* shared field, not from the request.
ReadBack(a) ==
  /\ admin[a].pc = "storing"
  /\ admin[a].todo = {}
  /\ \E d \in TextsRead : admin' = [admin EXCEPT ![a].pc = "parsing", ![a].data = d]
  /\ UNCHANGED <<config, version, filteringEnabled, configData, poll, worker, issued, budget>>

\* Mutant: only the first configuration gets a new version.
UpdateConfigBumpsOnce(a) ==
  /\ admin[a].pc = "parsing"
  /\ admin[a].data \in Configs
  /\ admin' = [admin EXCEPT ![a] = AdminIdle]
  /\ config' = admin[a].data
  /\ version' = 1
  /\ issued' = issued \cup {<<1, admin[a].data>>}
  /\ UNCHANGED <<filteringEnabled, configData, poll, worker, budget>>

UpdateConfig(a) ==
  /\ admin[a].pc = "parsing"
  /\ admin' = [admin EXCEPT ![a] = AdminIdle]
  /\ \/ /\ admin[a].data \in Configs
        /\ config' = admin[a].data
        /\ version' = version + 1
        /\ issued' = issued \cup {<<version + 1, admin[a].data>>}
     \/ /\ admin[a].data \notin Configs
        /\ UNCHANGED <<config, version, issued>>
  /\ UNCHANGED <<filteringEnabled, configData, poll, worker, budget>>

Switch(b) == IF b THEN "on" ELSE "off"

\* worker_id 0 stands for every worker the controller has heard of.
SetFilteringEnabled(b) ==
  /\ Spend("toggles")
  /\ \/ filteringEnabled' = [w \in Workers |-> IF filteringEnabled[w] = "absent"
                                               THEN "absent" ELSE Switch(b)]
     \/ \E w \in Workers : filteringEnabled' = [filteringEnabled EXCEPT ![w] = Switch(b)]
  /\ UNCHANGED <<config, version, configData, admin, poll, worker, issued>>

IsFilteringEnabled(w) == filteringEnabled[w] # "off"

-----------------------------------------------------------------------------
(* One poll: the worker's thread (StartPoll, Deliver, Install) and the       *)
(* controller's handler (the four steps between).                            *)

StartPoll(w, t) ==
  /\ poll[<<w, t>>].phase = "idle"
  /\ poll' = [poll EXCEPT ![<<w, t>>] =
                [Idle EXCEPT !.phase = "sent", !.live = TRUE, !.req = configVersion[w]]]
  /\ UNCHANGED <<controller, worker, issued, budget>>

Register(w, t) ==
  /\ poll[<<w, t>>].phase = "sent"
  /\ filteringEnabled' = [filteringEnabled EXCEPT ![w] = IF @ = "absent" THEN "on" ELSE @]
  /\ poll' = [poll EXCEPT ![<<w, t>>].phase = "registered"]
  /\ UNCHANGED <<config, version, configData, admin, worker, issued, budget>>

CheckVersion(w, t) ==
  /\ poll[<<w, t>>].phase = "registered"
  /\ poll' = [poll EXCEPT ![<<w, t>>].phase =
                IF version = poll[<<w, t>>].req THEN "answering" ELSE "changed"]
  /\ UNCHANGED <<controller, worker, issued, budget>>

\* Mutant: the version sent along is derived from the request.
GetWorkerPolicyProtoNextVersion(w, t) ==
  /\ poll[<<w, t>>].phase = "changed"
  /\ poll' = [poll EXCEPT ![<<w, t>>].phase = "answering",
                          ![<<w, t>>].ans = [result |-> "provided", cfg |-> config,
                                             ver |-> poll[<<w, t>>].req + 1]]
  /\ UNCHANGED <<controller, worker, issued, budget>>

GetWorkerPolicyProto(w, t) ==
  /\ poll[<<w, t>>].phase = "changed"
  /\ poll' = [poll EXCEPT ![<<w, t>>].phase = "answering",
                          ![<<w, t>>].ans = [result |-> "provided", cfg |-> config,
                                             ver |-> version]]
  /\ UNCHANGED <<controller, worker, issued, budget>>

Reply(w, t) ==
  /\ poll[<<w, t>>].phase = "answering"
  /\ poll' = [poll EXCEPT ![<<w, t>>].phase = "replied",
                          ![<<w, t>>].on = IsFilteringEnabled(w)]
  /\ UNCHANGED <<controller, worker, issued, budget>>

\* Mutant: the version is stored on receipt, the policy under the mutex later.
DeliverStoresVersion(w, t) ==
  LET p == poll[<<w, t>>] IN
  /\ p.phase = "replied"
  /\ p.live
  /\ enable' = [enable EXCEPT ![w] = p.on]
  /\ configVersion' = [configVersion EXCEPT ![w] = IF p.ans.result = "provided" THEN p.ans.ver ELSE @]
  /\ poll' = [poll EXCEPT ![<<w, t>>] =
                IF p.ans.result = "provided" THEN [p EXCEPT !.phase = "received"] ELSE Idle]
  /\ UNCHANGED <<controller, policy, issued, budget>>

Deliver(w, t) ==
  LET p == poll[<<w, t>>] IN
  /\ p.phase = "replied"
  /\ p.live
  /\ enable' = [enable EXCEPT ![w] = p.on]
  /\ poll' = [poll EXCEPT ![<<w, t>>] =
                IF p.ans.result = "provided" THEN [p EXCEPT !.phase = "received"] ELSE Idle]
  /\ UNCHANGED <<controller, policy, configVersion, issued, budget>>

Install(w, t) ==
  LET p == poll[<<w, t>>] IN
  /\ p.phase = "received"
  /\ policy' = [policy EXCEPT ![w] = p.ans.cfg]
  /\ configVersion' = [configVersion EXCEPT ![w] = p.ans.ver]
  /\ poll' = [poll EXCEPT ![<<w, t>>] = Idle]
  /\ UNCHANGED <<controller, enable, issued, budget>>

\* The one-second deadline passes, or the call ends with an error: the worker
\* keeps its policy. The handler may still be running.
PollFails(w, t) ==
  /\ poll[<<w, t>>].phase \notin {"idle", "received"}
  /\ poll[<<w, t>>].live
  /\ poll' = [poll EXCEPT ![<<w, t>>].live = FALSE]
  /\ UNCHANGED <<controller, worker, issued, budget>>

\* A request nobody waits for is lost on its way, or its answer is thrown away.
Discard(w, t) ==
  /\ poll[<<w, t>>].phase \in {"sent", "replied"}
  /\ ~poll[<<w, t>>].live
  /\ poll' = [poll EXCEPT ![<<w, t>>] = Idle]
  /\ UNCHANGED <<controller, worker, issued, budget>>

-----------------------------------------------------------------------------
(* Restarts. Neither side keeps any of this on disk.                         *)

ControllerRestart ==
  /\ Spend("crashes")
  /\ config' = EmptyConfig
  /\ version' = 0
  /\ filteringEnabled' = [w \in Workers |-> "absent"]
  /\ configData' = [f \in {"ptr", "len"} |-> NoText]
  /\ admin' = [a \in Admins |-> AdminIdle]
  /\ poll' = [c \in Calls |-> IF poll[c].phase \in {"sent", "received"} THEN poll[c] ELSE Idle]
  /\ UNCHANGED <<worker, issued>>

WorkerRestart(w) ==
  /\ Spend("reboots")
  /\ policy' = [policy EXCEPT ![w] = NoPolicy]
  /\ configVersion' = [configVersion EXCEPT ![w] = 0]
  /\ enable' = [enable EXCEPT ![w] = TRUE]
  /\ poll' = [c \in Calls |-> IF c[1] # w THEN poll[c]
                              ELSE IF poll[c].phase = "received" THEN Idle
                              ELSE [poll[c] EXCEPT !.live = FALSE]]
  /\ UNCHANGED <<controller, issued>>

-----------------------------------------------------------------------------
AdminStep(a) == StoreConfigData(a) \/ ReadBack(a) \/ UpdateConfig(a)

Handler(w, t) == Register(w, t) \/ CheckVersion(w, t) \/ GetWorkerPolicyProto(w, t) \/ Reply(w, t)

Next ==
  \/ \E a \in Admins : LoadConfig(a) \/ AdminStep(a)
  \/ \E b \in BOOLEAN : SetFilteringEnabled(b)
  \/ \E w \in Workers, t \in Threads :
       \/ StartPoll(w, t) \/ Handler(w, t) \/ Deliver(w, t) \/ Install(w, t)
       \/ PollFails(w, t) \/ Discard(w, t)
  \/ ControllerRestart
  \/ \E w \in Workers : WorkerRestart(w)

Spec == Init /\ [][Next]_vars

\* The main loop starts a poll every 30 to 45 seconds for as long as it runs, and
\* admin calls, handlers and answered polls are carried through (weak fairness).
\* Polls fail at any step any number of times, but not for ever: from some moment
\* on they are answered within their second. The administrator and the restarts
\* are under no obligation.
Advance(w, t) == StartPoll(w, t) \/ Handler(w, t) \/ Deliver(w, t) \/ Install(w, t) \/ Discard(w, t)

Fairness ==
  /\ \A a \in Admins : WF_vars(AdminStep(a))
  /\ \A w \in Workers, t \in Threads : WF_vars(Advance(w, t))
  /\ <>[][\A w \in Workers, t \in Threads : ~PollFails(w, t)]_vars

FairSpec == Spec /\ Fairness

-----------------------------------------------------------------------------
(* Properties.                                                               *)

\* A worker never runs a mixture: the policy it has installed and the version
\* number it reports were in force at the controller together at one moment,
\* whatever reloads, lost answers, late threads and restarts happened between
\* the handler's version check (manager.go:33) and the install
\* (worker.cpp:276). A worker that has installed nothing reports version 0.
PolicyMatchesVersion ==
  \A w \in Workers :
    \/ policy[w] = NoPolicy /\ configVersion[w] = 0
    \/ <<configVersion[w], policy[w]>> \in issued

\* POLICY_UNCHANGED is only answered to a worker that really has the
\* configuration in force ("already has latest policy", manager.go:38): when a
\* handler that finds the versions equal answers a client that is still waiting
\* and has not installed another version since it asked, the worker's policy is
\* the controller's, unless no configuration was ever loaded.
UnchangedMeansLatest ==
  [][\A w \in Workers, t \in Threads :
       /\ CheckVersion(w, t) /\ poll'[<<w, t>>].phase = "answering"
       /\ poll[<<w, t>>].live /\ configVersion[w] = poll[<<w, t>>].req
       => policy[w] = config \/ version = 0]_vars

\* The same as long as the controller has not been restarted, which is what the
\* comparison of numbers (manager.go:37) can promise: reloads, overlapping polls
\* and workers that restart do not make an answer wrong.
NeverRestarted == budget["crashes"] = MaxCrashes

UnchangedUntilRestart ==
  [][\A w \in Workers, t \in Threads :
       /\ NeverRestarted
       /\ CheckVersion(w, t) /\ poll'[<<w, t>>].phase = "answering"
       /\ poll[<<w, t>>].live /\ configVersion[w] = poll[<<w, t>>].req
       => policy[w] = config \/ version = 0]_vars

\* What a worker enforces settles on what the administrator last asked for:
\* once reloads, toggles and worker restarts stop, and unless the controller was
\* restarted, every worker ends up with the configuration in force and the
\* filtering switch in force, and stays there, although polls time out, overlap
\* and install out of order.
WorkersConverge ==
  <>[](version > 0 /\ NeverRestarted =>
         \A w \in Workers : policy[w] = config /\ enable[w] = IsFilteringEnabled(w))

\* Taken together, the split handler (version check and policy construction
\* under two separate read locks), the client's late install and both restarts
\* implement a register that every poll reads atomically.
Held(c) == IF poll[c].ans.result = "provided" /\ poll[c].live
           THEN [cfg |-> poll[c].ans.cfg, ver |-> poll[c].ans.ver]
           ELSE [cfg |-> NoPolicy, ver |-> 0]

Abstract == INSTANCE PolicyRegister
  WITH reg  <- [cfg |-> config, ver |-> version],
       held <- [c \in Calls |-> Held(c)],
       copy <- [w \in Workers |-> [cfg |-> policy[w], ver |-> configVersion[w]]]

PollsReadAtomically == Abstract!Spec
=============================================================================
