-------------------------- MODULE PolicySyncProofs --------------------------
(***************************************************************************)
(* Proofs for PolicySync: its type invariant, that a worker never runs a     *)
(* policy under a version it did not have, and that the whole implements     *)
(* PolicyRegister, for any number of workers, polls, administrators,         *)
(* configurations and restarts.                                              *)
(***************************************************************************)
EXTENDS PolicySync, TLAPS

\* What makes PolicyMatchesVersion inductive: the pair in force at the
\* controller, now or after a restart, was issued, and so was every pair on its
\* way to a worker.
AnswersWereIssued ==
  /\ <<0, EmptyConfig>> \in issued /\ <<version, config>> \in issued
  /\ \A c \in Calls :
       /\ poll[c].ans.result = "provided" => <<poll[c].ans.ver, poll[c].ans.cfg>> \in issued
       /\ poll[c].phase = "received" => poll[c].ans.result = "provided"

IInv == TypeOK /\ PolicyMatchesVersion /\ AnswersWereIssued

LEMMA IdleIsPoll == Idle \in Poll /\ Idle.ans.result = "unchanged" /\ Idle.phase = "idle"
  BY DEF Idle, Poll, NoAnswer, Answer, InForce, Phases

LEMMA InitIInv == Init => IInv
<1> SUFFICES ASSUME Init PROVE IInv
  OBVIOUS
<1>1. TypeOK
  BY SyncAssumption, IdleIsPoll
     DEF Init, TypeOK, InForce, Texts, AdminCall, AdminIdle
<1>2. PolicyMatchesVersion
  BY DEF Init, PolicyMatchesVersion
<1>3. AnswersWereIssued
  BY IdleIsPoll DEF Init, AnswersWereIssued
<1> QED
  BY <1>1, <1>2, <1>3 DEF IInv

\* Every action, one at a time.
LEMMA SpendType ==
  ASSUME NEW what \in {"loads", "toggles", "crashes", "reboots"}, TypeOK, Spend(what)
  PROVE  budget' \in [{"loads", "toggles", "crashes", "reboots"} -> Nat]
  BY DEF TypeOK, Spend

LEMMA AdminKeepsIInv ==
  ASSUME IInv, NEW a \in Admins, LoadConfig(a) \/ AdminStep(a)
  PROVE  IInv'
<1> USE DEF IInv
<1>1. CASE LoadConfig(a)
  <2>1. TypeOK'
    BY <1>1, SpendType DEF LoadConfig, TypeOK, AdminCall, Texts, worker
  <2>2. PolicyMatchesVersion' /\ AnswersWereIssued'
    BY <1>1 DEF LoadConfig, PolicyMatchesVersion, AnswersWereIssued, worker
  <2> QED
    BY <2>1, <2>2
<1>2. CASE StoreConfigData(a)
  <2>1. TypeOK'
    BY <1>2 DEF StoreConfigData, TypeOK, AdminCall, Texts, worker
  <2>2. PolicyMatchesVersion' /\ AnswersWereIssued'
    BY <1>2 DEF StoreConfigData, PolicyMatchesVersion, AnswersWereIssued, worker
  <2> QED
    BY <2>1, <2>2
<1>3. CASE ReadBack(a)
  <2>0. PICK d \in TextsRead :
          admin' = [admin EXCEPT ![a] = [admin[a] EXCEPT !.pc = "parsing", !.data = d]]
    BY ZenonT(60), <1>3 DEF ReadBack, TypeOK
  <2>1. d \in Texts \cup Configs
    BY DEF TextsRead, TypeOK, Texts
  <2>2. admin[a] \in AdminCall
    BY DEF TypeOK
  <2>3. [admin[a] EXCEPT !.pc = "parsing", !.data = d] \in AdminCall
    BY ZenonT(60), <2>1, <2>2 DEF AdminCall
  <2>4. TypeOK'
    BY ZenonT(60), <1>3, <2>0, <2>3 DEF ReadBack, TypeOK, worker
  <2>5. PolicyMatchesVersion' /\ AnswersWereIssued'
    BY <1>3 DEF ReadBack, PolicyMatchesVersion, AnswersWereIssued, worker
  <2> QED
    BY <2>4, <2>5
<1>4. CASE UpdateConfig(a)
  <2>1. TypeOK'
    BY <1>4 DEF UpdateConfig, TypeOK, AdminCall, AdminIdle, Texts, InForce, worker
  <2>2. issued \subseteq issued'
    BY <1>4 DEF UpdateConfig
  <2>3. <<version, config>>' \in issued'
    BY <1>4 DEF UpdateConfig, AnswersWereIssued
  <2>4. PolicyMatchesVersion' /\ AnswersWereIssued'
    BY <1>4, <2>2, <2>3 DEF UpdateConfig, PolicyMatchesVersion, AnswersWereIssued, worker
  <2> QED
    BY <2>1, <2>4
<1> QED
  BY <1>1, <1>2, <1>3, <1>4 DEF AdminStep

LEMMA ToggleKeepsIInv ==
  ASSUME IInv, NEW b \in BOOLEAN, SetFilteringEnabled(b)
  PROVE  IInv'
<1> USE DEF IInv
<1>1. TypeOK'
  BY SpendType DEF SetFilteringEnabled, TypeOK, Switch, worker
<1>2. PolicyMatchesVersion' /\ AnswersWereIssued'
  BY DEF SetFilteringEnabled, PolicyMatchesVersion, AnswersWereIssued, worker
<1> QED
  BY <1>1, <1>2

\* One poll changes, to a record that may carry only an issued pair.
LEMMA PollStep ==
  ASSUME IInv, NEW c \in Calls, NEW r \in Poll,
         poll' = [poll EXCEPT ![c] = r],
         UNCHANGED <<config, version, issued>>,
         r.ans.result = "provided" => <<r.ans.ver, r.ans.cfg>> \in issued,
         r.phase = "received" => r.ans.result = "provided"
  PROVE  poll' \in [Calls -> Poll] /\ AnswersWereIssued'
  BY DEF IInv, TypeOK, AnswersWereIssued

\* Moving a poll on keeps the answer it carries.
LEMMA PhaseStep ==
  ASSUME NEW p \in Poll, NEW ph \in Phases
  PROVE  LET r == [p EXCEPT !.phase = ph]
         IN r \in Poll /\ r.ans = p.ans /\ r.phase = ph
  BY DEF Poll

LEMMA CallIsCall == ASSUME NEW w \in Workers, NEW t \in Threads PROVE <<w, t>> \in Calls
  BY DEF Calls

LEMMA HandlerKeepsIInv ==
  ASSUME IInv, NEW w \in Workers, NEW t \in Threads, StartPoll(w, t) \/ Handler(w, t)
  PROVE  IInv'
<1> DEFINE c == <<w, t>>
           p == poll[c]
<1>0. c \in Calls /\ p \in Poll
  BY CallIsCall DEF IInv, TypeOK
<1>a. /\ p.ans.result = "provided" => <<p.ans.ver, p.ans.cfg>> \in issued
      /\ p.phase = "received" => p.ans.result = "provided"
  BY <1>0 DEF IInv, AnswersWereIssued
<1>b. ASSUME poll' \in [Calls -> Poll] /\ AnswersWereIssued',
             UNCHANGED <<config, version, configData, admin, worker, issued, budget>>,
             filteringEnabled' \in [Workers -> {"absent", "on", "off"}]
      PROVE  IInv'
  BY <1>b DEF IInv, TypeOK, PolicyMatchesVersion, worker
<1>c. filteringEnabled \in [Workers -> {"absent", "on", "off"}] /\ configVersion[w] \in Nat
      /\ version \in Nat /\ config \in InForce /\ <<version, config>> \in issued
  BY DEF IInv, TypeOK, AnswersWereIssued
<1>1. CASE StartPoll(w, t)
  <2> DEFINE r == [Idle EXCEPT !.phase = "sent", !.live = TRUE, !.req = configVersion[w]]
  <2>1. r \in Poll /\ r.ans.result = "unchanged" /\ r.phase = "sent"
    BY ZenonT(60), <1>c, IdleIsPoll DEF Poll, Phases
  <2>2. poll' = [poll EXCEPT ![c] = r]
    BY <1>1 DEF StartPoll
  <2>4. UNCHANGED <<config, version, configData, admin, worker, issued, budget>>
    BY <1>1 DEF StartPoll, controller
  <2>5. poll' \in [Calls -> Poll] /\ AnswersWereIssued'
    <3> HIDE DEF r, c
    <3> QED
      BY ZenonT(60), <1>0, <1>c, <2>1, <2>2, <2>4, PollStep
  <2>6. filteringEnabled' \in [Workers -> {"absent", "on", "off"}]
    BY <1>1, <1>c DEF StartPoll, controller
  <2> QED
    BY <1>b, <2>4, <2>5, <2>6
<1>2. CASE Register(w, t)
  <2> DEFINE r == [p EXCEPT !.phase = "registered"]
  <2>1. r \in Poll /\ r.ans = p.ans /\ r.phase = "registered"
    BY ZenonT(60), <1>0, PhaseStep DEF Phases
  <2>2. poll' = [poll EXCEPT ![c] = r]
    BY <1>0, <1>2 DEF Register
  <2>4. UNCHANGED <<config, version, configData, admin, worker, issued, budget>>
    BY <1>2 DEF Register, controller
  <2>5. poll' \in [Calls -> Poll] /\ AnswersWereIssued'
    <3> HIDE DEF r, c
    <3> QED
      BY ZenonT(60), <1>0, <1>a, <2>1, <2>2, <2>4, PollStep
  <2>6. filteringEnabled' \in [Workers -> {"absent", "on", "off"}]
    BY <1>2, <1>c DEF Register, controller
  <2> QED
    BY <1>b, <2>4, <2>5, <2>6
<1>3. CASE CheckVersion(w, t)
  <2> DEFINE ph == IF version = p.req THEN "answering" ELSE "changed"
             r == [p EXCEPT !.phase = ph]
  <2>0. ph \in Phases /\ ph # "received"
    BY DEF Phases
  <2>1. r \in Poll /\ r.ans = p.ans /\ r.phase = ph
    <3> HIDE DEF ph, p
    <3> QED
      BY <1>0, <2>0, PhaseStep
  <2>2. poll' = [poll EXCEPT ![c] = r]
    BY <1>0, <1>3 DEF CheckVersion
  <2>4. UNCHANGED <<config, version, configData, admin, worker, issued, budget>>
    BY <1>3 DEF CheckVersion, controller
  <2>5. poll' \in [Calls -> Poll] /\ AnswersWereIssued'
    <3> HIDE DEF r, c, ph
    <3> QED
      BY ZenonT(60), <1>0, <1>a, <2>0, <2>1, <2>2, <2>4, PollStep
  <2>6. filteringEnabled' \in [Workers -> {"absent", "on", "off"}]
    BY <1>3, <1>c DEF CheckVersion, controller
  <2> QED
    BY <1>b, <2>4, <2>5, <2>6
<1>4. CASE GetWorkerPolicyProto(w, t)
  <2> DEFINE r == [p EXCEPT !.phase = "answering",
                            !.ans = [result |-> "provided", cfg |-> config, ver |-> version]]
  <2>1. /\ r \in Poll /\ r.phase = "answering"
        /\ r.ans = [result |-> "provided", cfg |-> config, ver |-> version]
    BY ZenonT(60), <1>0, <1>c DEF Poll, Phases, Answer
  <2>2. poll' = [poll EXCEPT ![c] = r]
    BY ZenonT(60), <1>0, <1>4 DEF GetWorkerPolicyProto
  <2>4. UNCHANGED <<config, version, configData, admin, worker, issued, budget>>
    BY <1>4 DEF GetWorkerPolicyProto, controller
  <2>3. <<r.ans.ver, r.ans.cfg>> \in issued /\ r.ans.result = "provided"
    <3> HIDE DEF r
    <3> QED
      BY <1>c, <2>1
  <2>5. poll' \in [Calls -> Poll] /\ AnswersWereIssued'
    <3> HIDE DEF r, c
    <3> QED
      BY ZenonT(60), <1>0, <2>1, <2>2, <2>3, <2>4, PollStep
  <2>6. filteringEnabled' \in [Workers -> {"absent", "on", "off"}]
    BY <1>4, <1>c DEF GetWorkerPolicyProto, controller
  <2> QED
    BY <1>b, <2>4, <2>5, <2>6
<1>5. CASE Reply(w, t)
  <2> DEFINE r == [p EXCEPT !.phase = "replied", !.on = IsFilteringEnabled(w)]
  <2>1. r \in Poll /\ r.ans = p.ans /\ r.phase = "replied"
    BY ZenonT(60), <1>0 DEF Poll, Phases, IsFilteringEnabled
  <2>2. poll' = [poll EXCEPT ![c] = r]
    BY ZenonT(60), <1>0, <1>5 DEF Reply
  <2>4. UNCHANGED <<config, version, configData, admin, worker, issued, budget>>
    BY <1>5 DEF Reply, controller
  <2>5. poll' \in [Calls -> Poll] /\ AnswersWereIssued'
    <3> HIDE DEF r, c
    <3> QED
      BY ZenonT(60), <1>0, <1>a, <2>1, <2>2, <2>4, PollStep
  <2>6. filteringEnabled' \in [Workers -> {"absent", "on", "off"}]
    BY <1>5, <1>c DEF Reply, controller
  <2> QED
    BY <1>b, <2>4, <2>5, <2>6
<1> QED
  BY <1>1, <1>2, <1>3, <1>4, <1>5 DEF Handler

LEMMA ClientKeepsIInv ==
  ASSUME IInv, NEW w \in Workers, NEW t \in Threads,
         Deliver(w, t) \/ Install(w, t) \/ PollFails(w, t) \/ Discard(w, t)
  PROVE  IInv'
<1> DEFINE c == <<w, t>>
           p == poll[c]
<1>0. c \in Calls /\ p \in Poll
  BY CallIsCall DEF IInv, TypeOK
<1>a. /\ p.ans.result = "provided" => <<p.ans.ver, p.ans.cfg>> \in issued
      /\ p.phase = "received" => p.ans.result = "provided"
  BY <1>0 DEF IInv, AnswersWereIssued
<1>1. CASE Deliver(w, t)
  <2> DEFINE r == IF p.ans.result = "provided" THEN [p EXCEPT !.phase = "received"] ELSE Idle
  <2>1. /\ r \in Poll
        /\ r.ans.result = "provided" => r.ans = p.ans
        /\ r.phase = "received" => r.ans.result = "provided"
    <3>1. CASE p.ans.result = "provided"
      <4> DEFINE q == [p EXCEPT !.phase = "received"]
      <4>1. "received" \in Phases
        BY DEF Phases
      <4>2. q \in Poll /\ q.ans = p.ans
        BY <1>0, <4>1, PhaseStep
      <4>3. r = q
        BY <3>1
      <4> HIDE DEF q, r, p
      <4> QED
        BY <3>1, <4>2, <4>3
    <3>2. CASE p.ans.result # "provided"
      BY <3>2, IdleIsPoll
    <3> QED
      BY <3>1, <3>2
  <2>2. poll' = [poll EXCEPT ![c] = r] /\ enable' = [enable EXCEPT ![w] = p.on]
    BY <1>1 DEF Deliver
  <2>3. UNCHANGED <<config, version, filteringEnabled, configData, admin, policy, configVersion,
                    issued, budget>>
    BY <1>1 DEF Deliver, controller
  <2>4. poll' \in [Calls -> Poll] /\ AnswersWereIssued'
    <3>1. r.ans.result = "provided" => <<r.ans.ver, r.ans.cfg>> \in issued
      <4> HIDE DEF r, p
      <4> QED
        BY <1>a, <2>1
    <3> HIDE DEF r, c
    <3> QED
      BY ZenonT(60), <1>0, <2>1, <2>2, <2>3, <3>1, PollStep
  <2>5. p.on \in BOOLEAN
    BY <1>0 DEF Poll
  <2> QED
    BY <2>2, <2>3, <2>4, <2>5 DEF IInv, TypeOK, PolicyMatchesVersion
<1>2. CASE Install(w, t)
  <2>1. /\ poll' = [poll EXCEPT ![c] = Idle]
        /\ policy' = [policy EXCEPT ![w] = p.ans.cfg]
        /\ configVersion' = [configVersion EXCEPT ![w] = p.ans.ver]
        /\ p.phase = "received"
    BY <1>2 DEF Install
  <2>2. UNCHANGED <<config, version, filteringEnabled, configData, admin, enable, issued, budget>>
    BY <1>2 DEF Install, controller
  <2>3. poll' \in [Calls -> Poll] /\ AnswersWereIssued'
    <3> HIDE DEF c
    <3> QED
      BY ZenonT(60), <1>0, <2>1, <2>2, PollStep, IdleIsPoll
  <2>4. p.ans.cfg \in InForce /\ p.ans.ver \in Nat
    BY <1>0 DEF Poll, Answer
  <2>5. TypeOK'
    BY <2>1, <2>2, <2>3, <2>4 DEF IInv, TypeOK
  <2>6. PolicyMatchesVersion'
    <3> SUFFICES ASSUME NEW v \in Workers
                 PROVE  \/ policy'[v] = NoPolicy /\ configVersion'[v] = 0
                        \/ <<configVersion'[v], policy'[v]>> \in issued'
      BY DEF PolicyMatchesVersion
    <3>1. CASE v = w
      <4>1. <<p.ans.ver, p.ans.cfg>> \in issued
        BY <1>a, <2>1
      <4>2. policy'[v] = p.ans.cfg /\ configVersion'[v] = p.ans.ver
        BY <2>1, <3>1 DEF IInv, TypeOK
      <4> QED
        BY <2>2, <4>1, <4>2
    <3>2. CASE v # w
      BY <2>1, <2>2, <3>2 DEF IInv, TypeOK, PolicyMatchesVersion
    <3> QED
      BY <3>1, <3>2
  <2> QED
    BY <2>3, <2>5, <2>6 DEF IInv
<1>3. CASE PollFails(w, t) \/ Discard(w, t)
  <2>1. PICK r \in Poll : /\ poll' = [poll EXCEPT ![c] = r]
                          /\ r.ans.result = "provided" => r.ans = p.ans
                          /\ r.phase = "received" => r.ans.result = "provided"
    <3>1. CASE PollFails(w, t)
      <4>1. poll' = [poll EXCEPT ![c] = [p EXCEPT !.live = FALSE]] /\ p.phase # "received"
        BY <1>0, <3>1 DEF PollFails
      <4>2. [p EXCEPT !.live = FALSE] \in Poll /\ [p EXCEPT !.live = FALSE].ans = p.ans
            /\ [p EXCEPT !.live = FALSE].phase = p.phase
        BY ZenonT(60), <1>0 DEF Poll
      <4> QED
        BY ZenonT(60), <4>1, <4>2
    <3>2. CASE Discard(w, t)
      BY ZenonT(60), <3>2, IdleIsPoll DEF Discard
    <3> QED
      BY <1>3, <3>1, <3>2
  <2>2. UNCHANGED <<config, version, filteringEnabled, configData, admin, worker, issued, budget>>
    BY <1>3 DEF PollFails, Discard, controller
  <2>3. poll' \in [Calls -> Poll] /\ AnswersWereIssued'
    <3> HIDE DEF c
    <3> QED
      BY ZenonT(60), <1>0, <1>a, <2>1, <2>2, PollStep
  <2> QED
    BY <2>2, <2>3 DEF IInv, TypeOK, PolicyMatchesVersion, worker
<1> QED
  BY <1>1, <1>2, <1>3

LEMMA ControllerRestartKeepsIInv ==
  ASSUME IInv, ControllerRestart
  PROVE  IInv'
<1> USE DEF IInv
<1>1. TypeOK'
  BY SpendType, IdleIsPoll, SyncAssumption
     DEF ControllerRestart, TypeOK, InForce, Texts, AdminCall, AdminIdle, worker
<1>2. <<0, EmptyConfig>> \in issued
  BY DEF AnswersWereIssued
<1> QED
  BY <1>1, <1>2, IdleIsPoll
     DEF ControllerRestart, PolicyMatchesVersion, AnswersWereIssued, worker

LEMMA WorkerRestartKeepsIInv ==
  ASSUME IInv, NEW w \in Workers, WorkerRestart(w)
  PROVE  IInv'
<1> USE DEF IInv
<1>1. \A c \in Calls : /\ [poll[c] EXCEPT !.live = FALSE] \in Poll
                      /\ [poll[c] EXCEPT !.live = FALSE].ans = poll[c].ans
                      /\ [poll[c] EXCEPT !.live = FALSE].phase = poll[c].phase
  BY ZenonT(60) DEF TypeOK, Poll
<1>2. TypeOK'
  BY <1>1, SpendType, IdleIsPoll DEF WorkerRestart, TypeOK, controller
<1>3. PolicyMatchesVersion'
  BY DEF WorkerRestart, TypeOK, PolicyMatchesVersion, controller
<1>4. AnswersWereIssued'
  BY <1>1, IdleIsPoll DEF WorkerRestart, AnswersWereIssued, controller
<1> QED
  BY <1>2, <1>3, <1>4

LEMMA NextKeepsIInv == IInv /\ [Next]_vars => IInv'
<1> SUFFICES ASSUME IInv, [Next]_vars PROVE IInv'
  OBVIOUS
<1>1. CASE UNCHANGED vars
  BY <1>1 DEF IInv, TypeOK, PolicyMatchesVersion, AnswersWereIssued, vars, controller, worker
<1>2. CASE Next
  BY <1>2, AdminKeepsIInv, ToggleKeepsIInv, HandlerKeepsIInv, ClientKeepsIInv,
     ControllerRestartKeepsIInv, WorkerRestartKeepsIInv
     DEF Next
<1> QED
  BY <1>1, <1>2

\* The variables of PolicySync keep their types in every behaviour.
THEOREM TypeCorrect == Spec => []TypeOK
<1>1. IInv => TypeOK
  BY DEF IInv
<1> QED
  BY <1>1, InitIInv, NextKeepsIInv, PTL DEF Spec

\* Whatever polls overlap, answers get lost and processes restart, a worker's
\* installed policy and the version it reports were in force together
\* (manager.go HandleGetPolicy, worker.cpp requestPolicyFromController).
THEOREM WorkerRunsAnIssuedPolicy == Spec => []PolicyMatchesVersion
<1>1. IInv => PolicyMatchesVersion
  BY DEF IInv
<1> QED
  BY <1>1, InitIInv, NextKeepsIInv, PTL DEF Spec

\* As long as the controller has not restarted its versions count up: each was
\* given to one configuration, and none is ahead of the present one.
VersionInv ==
  /\ budget["crashes"] <= MaxCrashes
  /\ budget["crashes"] = MaxCrashes =>
       /\ \A i \in issued : i[1] <= version
       /\ \A i, k \in issued : i[1] = k[1] => i = k

LEMMA InitVersionInv == Init => VersionInv
  BY SyncAssumption DEF Init, VersionInv

LEMMA NextKeepsVersionInv == IInv /\ VersionInv /\ [Next]_vars => VersionInv'
<1> SUFFICES ASSUME IInv, VersionInv, [Next]_vars PROVE VersionInv'
  OBVIOUS
<1>1. TypeOK
  BY DEF IInv
<1>2. ASSUME UNCHANGED <<version, issued>>, budget'["crashes"] = budget["crashes"]
      PROVE  VersionInv'
  BY <1>2 DEF VersionInv
<1>3. ASSUME NEW what \in {"loads", "toggles", "reboots"}, Spend(what), UNCHANGED <<version, issued>>
      PROVE  VersionInv'
  <2>1. budget'["crashes"] = budget["crashes"]
    BY <1>1, <1>3 DEF TypeOK, Spend
  <2> QED
    BY <1>2, <1>3, <2>1
<1>4. ASSUME NEW a \in Admins, UpdateConfig(a) PROVE VersionInv'
  <2>1. CASE UNCHANGED <<version, issued>>
    BY <1>2, <1>4, <2>1 DEF UpdateConfig
  <2>2. CASE version' = version + 1 /\ issued' = issued \cup {<<version + 1, admin[a].data>>}
    <3>1. UNCHANGED budget /\ version \in Nat /\ \A i \in issued : i[1] \in Nat
      BY <1>1, <1>4 DEF UpdateConfig, TypeOK
    <3> QED
      BY <2>2, <3>1 DEF VersionInv
  <2> QED
    BY <1>4, <2>1, <2>2 DEF UpdateConfig
<1>5. CASE ControllerRestart
  <2>1. /\ budget["crashes"] \in Nat /\ budget'["crashes"] = budget["crashes"] - 1
        /\ MaxCrashes \in Nat
    BY <1>1, <1>5, SyncAssumption DEF ControllerRestart, Spend, TypeOK
  <2> QED
    BY <2>1 DEF VersionInv
<1>6. ASSUME NEW a \in Admins, LoadConfig(a) \/ StoreConfigData(a) \/ ReadBack(a) PROVE VersionInv'
  BY <1>2, <1>3, <1>6 DEF LoadConfig, StoreConfigData, ReadBack
<1>7. ASSUME NEW b \in BOOLEAN, SetFilteringEnabled(b) PROVE VersionInv'
  BY <1>3, <1>7 DEF SetFilteringEnabled
<1>8. ASSUME NEW w \in Workers, NEW t \in Threads, StartPoll(w, t) \/ Handler(w, t) PROVE VersionInv'
  BY <1>2, <1>8
     DEF StartPoll, Handler, Register, CheckVersion, GetWorkerPolicyProto, Reply, controller
<1>9. ASSUME NEW w \in Workers, NEW t \in Threads,
             Deliver(w, t) \/ Install(w, t) \/ PollFails(w, t) \/ Discard(w, t)
      PROVE  VersionInv'
  BY <1>2, <1>9 DEF Deliver, Install, PollFails, Discard, controller
<1>10. ASSUME NEW w \in Workers, WorkerRestart(w) PROVE VersionInv'
  BY <1>3, <1>10 DEF WorkerRestart, controller
<1>11. CASE UNCHANGED vars
  BY <1>2, <1>11 DEF vars, controller
<1> QED
  BY <1>4, <1>5, <1>6, <1>7, <1>8, <1>9, <1>10, <1>11 DEF Next, AdminStep

\* POLICY_UNCHANGED is answered only to a worker that has the configuration in
\* force (manager.go:33-38), for any number of workers, overlapping polls, loads
\* and worker restarts, until the controller restarts for the first time.
THEOREM UnchangedIsTrueUntilRestart == Spec => UnchangedUntilRestart
<1>1. ASSUME IInv, VersionInv, NEW w \in Workers, NEW t \in Threads, NeverRestarted,
             CheckVersion(w, t), poll'[<<w, t>>].phase = "answering",
             configVersion[w] = poll[<<w, t>>].req
      PROVE  policy[w] = config \/ version = 0
  <2>1. poll[<<w, t>>] \in Poll /\ poll \in [Calls -> Poll] /\ <<w, t>> \in Calls
    BY <1>1, CallIsCall DEF IInv, TypeOK
  <2>2. version = poll[<<w, t>>].req
    BY <1>1, <2>1 DEF CheckVersion, Poll
  <2>3. <<version, config>> \in issued
    BY <1>1 DEF IInv, AnswersWereIssued
  <2>4. version = 0 \/ <<version, policy[w]>> \in issued
    BY <1>1, <2>2 DEF IInv, PolicyMatchesVersion
  <2> QED
    BY <1>1, <2>3, <2>4 DEF VersionInv, NeverRestarted
<1>2. IInv /\ VersionInv =>
        \A w \in Workers, t \in Threads :
          /\ NeverRestarted
          /\ CheckVersion(w, t) /\ poll'[<<w, t>>].phase = "answering"
          /\ poll[<<w, t>>].live /\ configVersion[w] = poll[<<w, t>>].req
          => policy[w] = config \/ version = 0
  BY <1>1
<1> QED
  BY <1>2, InitIInv, NextKeepsIInv, InitVersionInv, NextKeepsVersionInv, PTL
     DEF Spec, UnchangedUntilRestart

\* Without a controller restart POLICY_UNCHANGED always means that the worker has
\* the configuration in force (manager.go:38).
THEOREM UnchangedIsTrue == ASSUME MaxCrashes = 0 PROVE Spec => UnchangedMeansLatest
<1>1. IInv /\ VersionInv => NeverRestarted
  BY DEF IInv, TypeOK, VersionInv, NeverRestarted
<1>2. IInv /\ VersionInv
        /\ [\A w \in Workers, t \in Threads :
              /\ NeverRestarted
              /\ CheckVersion(w, t) /\ poll'[<<w, t>>].phase = "answering"
              /\ poll[<<w, t>>].live /\ configVersion[w] = poll[<<w, t>>].req
              => policy[w] = config \/ version = 0]_vars
      => [\A w \in Workers, t \in Threads :
            /\ CheckVersion(w, t) /\ poll'[<<w, t>>].phase = "answering"
            /\ poll[<<w, t>>].live /\ configVersion[w] = poll[<<w, t>>].req
            => policy[w] = config \/ version = 0]_vars
  BY <1>1
<1> QED
  BY <1>2, InitIInv, NextKeepsIInv, InitVersionInv, NextKeepsVersionInv, UnchangedIsTrueUntilRestart, PTL
     DEF Spec, UnchangedUntilRestart, UnchangedMeansLatest

-----------------------------------------------------------------------------
(* PolicySync implements PolicyRegister.                                     *)

\* A poll carries a policy only once its handler has built the answer, and the
\* thread that is about to install one has not given up.
PhaseInv ==
  \A c \in Calls :
    /\ poll[c].phase \in {"idle", "sent", "registered", "changed"} => poll[c].ans.result = "unchanged"
    /\ poll[c].phase = "received" => poll[c].live

\* What a step on one poll leaves alone.
LEMMA OnePoll ==
  ASSUME TypeOK, NEW c \in Calls, NEW r, poll' = [poll EXCEPT ![c] = r]
  PROVE  poll'[c] = r /\ \A x \in Calls : x # c => poll'[x] = poll[x]
  BY DEF TypeOK

\* One step of a poll moves it to a record that is as PhaseInv wants it.
LEMMA OnePollKeepsPhaseInv ==
  ASSUME TypeOK, PhaseInv, NEW c \in Calls, NEW r, poll' = [poll EXCEPT ![c] = r],
         r.phase \in {"idle", "sent", "registered", "changed"} => r.ans.result = "unchanged",
         r.phase = "received" => r.live
  PROVE  PhaseInv'
  BY OnePoll DEF PhaseInv

\* The steps of a poll, as the record each of them leaves.
Moved(c, r) ==
  LET p == poll[c] IN
  \/ p.phase = "idle" /\ r.ans.result = "unchanged" /\ r.phase = "sent"
  \/ p.phase = "sent" /\ r.phase = "registered" /\ r.ans = p.ans /\ r.live = p.live
  \/ p.phase = "registered" /\ r.phase \in {"answering", "changed"} /\ r.ans = p.ans /\ r.live = p.live
  \/ p.phase = "answering" /\ r.phase = "replied" /\ r.ans = p.ans /\ r.live = p.live
  \/ /\ p.phase = "replied" /\ p.live /\ p.ans.result = "provided"
     /\ r.phase = "received" /\ r.ans = p.ans /\ r.live
  \/ p.phase = "replied" /\ p.ans.result # "provided" /\ r = Idle
  \/ ~p.live /\ r = Idle

LEMMA SilentMoves ==
  ASSUME IInv, PhaseInv, NEW w \in Workers, NEW t \in Threads,
         StartPoll(w, t) \/ Register(w, t) \/ CheckVersion(w, t) \/ Reply(w, t) \/ Deliver(w, t)
           \/ Discard(w, t)
  PROVE  /\ \E r : poll' = [poll EXCEPT ![<<w, t>>] = r] /\ Moved(<<w, t>>, r)
         /\ UNCHANGED <<config, version, policy, configVersion>>
<1> DEFINE c == <<w, t>>
           p == poll[c]
<1>1. c \in Calls /\ p \in Poll
  BY CallIsCall DEF IInv, TypeOK
<1>2. CASE StartPoll(w, t)
  <2> DEFINE r == [Idle EXCEPT !.phase = "sent", !.live = TRUE, !.req = configVersion[w]]
  <2>1. r.phase = "sent" /\ r.ans.result = "unchanged"
    BY DEF Idle, NoAnswer
  <2>2. poll' = [poll EXCEPT ![c] = r] /\ p.phase = "idle"
    BY <1>2 DEF StartPoll
  <2> HIDE DEF r
  <2>3. Moved(c, r)
    BY <2>1, <2>2 DEF Moved
  <2> QED
    BY ZenonT(60), <1>2, <2>2, <2>3 DEF StartPoll, controller, worker
<1>3. CASE Register(w, t)
  <2> DEFINE r == [p EXCEPT !.phase = "registered"]
  <2>1. poll' = [poll EXCEPT ![c] = r]
    BY <1>3 DEF Register
  <2>2. Moved(c, r)
    BY <1>1, <1>3 DEF Register, Moved, Poll
  <2> QED
    BY ZenonT(60), <1>3, <2>1, <2>2 DEF Register, worker
<1>4. CASE CheckVersion(w, t)
  <2> DEFINE r == [p EXCEPT !.phase = IF version = p.req THEN "answering" ELSE "changed"]
  <2>1. poll' = [poll EXCEPT ![c] = r]
    BY <1>4 DEF CheckVersion
  <2>2. Moved(c, r)
    BY <1>1, <1>4 DEF CheckVersion, Moved, Poll
  <2> QED
    BY ZenonT(60), <1>4, <2>1, <2>2 DEF CheckVersion, controller, worker
<1>5. CASE Reply(w, t)
  <2> DEFINE r == [p EXCEPT !.phase = "replied", !.on = IsFilteringEnabled(w)]
  <2>1. poll' = [poll EXCEPT ![c] = r]
    BY ZenonT(60), <1>1, <1>5 DEF Reply, IInv, TypeOK
  <2>2. Moved(c, r)
    BY <1>1, <1>5 DEF Reply, Moved, Poll
  <2> QED
    BY ZenonT(60), <1>5, <2>1, <2>2 DEF Reply, controller, worker
<1>6. CASE Deliver(w, t)
  <2> DEFINE r == IF p.ans.result = "provided" THEN [p EXCEPT !.phase = "received"] ELSE Idle
  <2>1. poll' = [poll EXCEPT ![c] = r]
    BY <1>6 DEF Deliver
  <2>2. Moved(c, r)
    BY <1>1, <1>6 DEF Deliver, Moved, Poll
  <2> QED
    BY ZenonT(60), <1>6, <2>1, <2>2 DEF Deliver, controller
<1>7. CASE Discard(w, t)
  BY ZenonT(60), <1>7 DEF Discard, Moved, controller, worker
<1> QED
  BY <1>2, <1>3, <1>4, <1>5, <1>6, <1>7

\* A move keeps PhaseInv and what the poll holds in the register's terms.
LEMMA MovesAreSilent ==
  ASSUME IInv, PhaseInv, NEW c \in Calls, NEW r, poll' = [poll EXCEPT ![c] = r], Moved(c, r)
  PROVE  PhaseInv' /\ \A x \in Calls : Held(x)' = Held(x)
<1>1. poll'[c] = r /\ \A x \in Calls : x # c => poll'[x] = poll[x]
  BY ZenonT(60), OnePoll DEF IInv
<1>2. /\ r.phase \in {"idle", "sent", "registered", "changed"} => r.ans.result = "unchanged"
      /\ r.phase = "received" => r.live
  BY IdleIsPoll DEF Moved, PhaseInv
<1>3. PhaseInv'
  BY ZenonT(60), <1>2, OnePollKeepsPhaseInv DEF IInv
<1>4. Held(c)' = Held(c)
  BY <1>1, IdleIsPoll DEF Moved, PhaseInv, Held
<1>5. \A x \in Calls : x # c => Held(x)' = Held(x)
  BY <1>1 DEF Held
<1> QED
  BY <1>3, <1>4, <1>5

\* Nothing of the register's state changes.
Silent == UNCHANGED <<config, version, policy, configVersion>> /\ \A x \in Calls : Held(x)' = Held(x)

LEMMA SilentIsStutter == ASSUME Silent PROVE UNCHANGED Abstract!vars
  BY DEF Silent, Abstract!vars

\* The handler builds its answer: the register is read, or nobody waits.
LEMMA BuildIsRead ==
  ASSUME IInv, PhaseInv, NEW w \in Workers, NEW t \in Threads, GetWorkerPolicyProto(w, t)
  PROVE  PhaseInv' /\ (Abstract!Read(<<w, t>>) \/ UNCHANGED Abstract!vars)
<1> DEFINE c == <<w, t>>
           p == poll[c]
           a == [result |-> "provided", cfg |-> config, ver |-> version]
           r == [p EXCEPT !.phase = "answering", !.ans = a]
<1>1. c \in Calls /\ p \in Poll
  BY CallIsCall DEF IInv, TypeOK
<1>2. p.phase = "changed" /\ poll' = [poll EXCEPT ![c] = r]
  BY ZenonT(60), <1>1 DEF GetWorkerPolicyProto, IInv, TypeOK
<1>3. UNCHANGED <<config, version, policy, configVersion>>
  BY DEF GetWorkerPolicyProto, controller, worker
<1>4. r.phase = "answering" /\ r.ans = a /\ r.live = p.live
  BY <1>1 DEF Poll
<1> HIDE DEF r
<1>5. poll'[c] = r /\ \A x \in Calls : x # c => poll'[x] = poll[x]
  BY ZenonT(60), <1>1, <1>2, OnePoll DEF IInv
<1>6. PhaseInv'
  BY ZenonT(60), <1>1, <1>2, <1>4, OnePollKeepsPhaseInv DEF IInv
<1>7. \A x \in Calls : x # c => Held(x)' = Held(x)
  BY <1>5 DEF Held
<1>8. Held(c) = [cfg |-> NoPolicy, ver |-> 0]
  BY <1>1, <1>2 DEF PhaseInv, Held
<1>9. CASE ~p.live
  <2>1. Held(c)' = Held(c)
    BY <1>4, <1>5, <1>8, <1>9 DEF Held
  <2> QED
    BY SMTT(60), <1>3, <1>6, <1>7, <2>1, SilentIsStutter DEF Silent
<1>10. CASE p.live
  <2>1. /\ poll'[c].ans.result = "provided" /\ poll'[c].live
        /\ poll'[c].ans.cfg = config /\ poll'[c].ans.ver = version
    <3>1. a.result = "provided" /\ a.cfg = config /\ a.ver = version
      OBVIOUS
    <3> HIDE DEF a, p
    <3>2. poll'[c].ans = a /\ poll'[c].live
      BY ZenonT(60), <1>4, <1>5, <1>10
    <3> QED
      BY <3>1, <3>2
  <2>a. Held(c)' = [cfg |-> config, ver |-> version]
    BY <2>1 DEF Held
  <2>2. Abstract!Read(c)
    BY ZenonT(60), <1>1, <1>3, <1>7, <1>8, <2>a DEF Abstract!Read, Abstract!Nothing
  <2> QED
    BY <1>6, <2>2
<1> QED
  BY <1>9, <1>10

LEMMA InstallIsApply ==
  ASSUME IInv, PhaseInv, NEW w \in Workers, NEW t \in Threads, Install(w, t)
  PROVE  PhaseInv' /\ Abstract!Apply(<<w, t>>)
<1> DEFINE c == <<w, t>>
           p == poll[c]
<1>1. c \in Calls /\ p \in Poll /\ c[1] = w
  BY CallIsCall DEF IInv, TypeOK
<1>2. poll' = [poll EXCEPT ![c] = Idle] /\ UNCHANGED <<config, version>>
  BY DEF Install, controller
<1>3. poll'[c] = Idle /\ \A x \in Calls : x # c => poll'[x] = poll[x]
  BY ZenonT(60), <1>1, <1>2, OnePoll DEF IInv
<1>4. PhaseInv'
  BY ZenonT(60), <1>1, <1>2, IdleIsPoll, OnePollKeepsPhaseInv DEF IInv
<1>5. p.live /\ p.ans.result = "provided" /\ p.ans.cfg \in InForce
  BY ZenonT(60), <1>1 DEF Install, PhaseInv, IInv, AnswersWereIssued, Poll, Answer
<1>6. Held(c) = [cfg |-> p.ans.cfg, ver |-> p.ans.ver]
  BY <1>5 DEF Held
<1>7. p.ans.cfg # NoPolicy
  BY <1>5, SyncAssumption DEF InForce
<1>8. Held(c)' = [cfg |-> NoPolicy, ver |-> 0] /\ \A x \in Calls : x # c => Held(x)' = Held(x)
  BY <1>3, IdleIsPoll DEF Held
<1>9. \A v \in Workers : /\ v # w => policy'[v] = policy[v] /\ configVersion'[v] = configVersion[v]
                        /\ policy'[w] = p.ans.cfg /\ configVersion'[w] = p.ans.ver
  BY DEF Install, IInv, TypeOK
<1> DEFINE held == [x \in Calls |-> Held(x)]
           copy == [v \in Workers |-> [cfg |-> policy[v], ver |-> configVersion[v]]]
<1>a. held[c] = [cfg |-> p.ans.cfg, ver |-> p.ans.ver] /\ held[c] # [cfg |-> NoPolicy, ver |-> 0]
  BY <1>1, <1>6, <1>7
<1>b. held' = [held EXCEPT ![c] = [cfg |-> NoPolicy, ver |-> 0]]
  BY ZenonT(60), <1>1, <1>8
<1>c. copy' = [copy EXCEPT ![w] = [cfg |-> p.ans.cfg, ver |-> p.ans.ver]]
  BY ZenonT(60), <1>9
<1> HIDE DEF p
<1>10. Abstract!Apply(c)
  BY ZenonT(60), <1>1, <1>2, <1>a, <1>b, <1>c DEF Abstract!Apply, Abstract!Nothing
<1> QED
  BY <1>4, <1>10

LEMMA FailureIsDrop ==
  ASSUME IInv, PhaseInv, NEW w \in Workers, NEW t \in Threads, PollFails(w, t)
  PROVE  PhaseInv' /\ Abstract!Drop(<<w, t>>)
<1> DEFINE c == <<w, t>>
           p == poll[c]
           r == [p EXCEPT !.live = FALSE]
<1>1. c \in Calls /\ p \in Poll
  BY CallIsCall DEF IInv, TypeOK
<1>2. poll' = [poll EXCEPT ![c] = r] /\ UNCHANGED <<config, version, policy, configVersion>>
  BY DEF PollFails, controller, worker
<1>3. r.phase = p.phase /\ r.ans = p.ans /\ ~r.live /\ p.phase # "received"
  BY <1>1 DEF PollFails, Poll
<1> HIDE DEF r
<1>4. poll'[c] = r /\ \A x \in Calls : x # c => poll'[x] = poll[x]
  BY ZenonT(60), <1>1, <1>2, OnePoll DEF IInv
<1>5. PhaseInv'
  BY <1>1, <1>2, <1>3, OnePollKeepsPhaseInv DEF IInv, PhaseInv
<1>6. Held(c)' = [cfg |-> NoPolicy, ver |-> 0] /\ \A x \in Calls : x # c => Held(x)' = Held(x)
  BY SMTT(60), <1>3, <1>4 DEF Held
<1>7. Abstract!Drop(c)
  BY ZenonT(60), <1>1, <1>2, <1>6 DEF Abstract!Drop, Abstract!Nothing
<1> QED
  BY <1>5, <1>7

LEMMA RestartIsReset ==
  ASSUME IInv, PhaseInv, ControllerRestart
  PROVE  PhaseInv' /\ Abstract!Reset
<1> DEFINE Nothing == [cfg |-> NoPolicy, ver |-> 0]
           lost == {c \in Calls : Held(c)' = Nothing}
<1>1. \A c \in Calls : poll'[c] = poll[c] \/ poll'[c] = Idle
  BY DEF ControllerRestart
<1>2. PhaseInv'
  BY <1>1, IdleIsPoll DEF PhaseInv
<1>3. \A c \in Calls : Held(c)' = Held(c) \/ Held(c)' = Nothing
  BY <1>1, IdleIsPoll DEF Held
<1>4. [c \in Calls |-> Held(c)]' = [c \in Calls |-> IF c \in lost THEN Nothing ELSE Held(c)]
  BY <1>3
<1>5. lost \in SUBSET Calls /\ Calls = Abstract!Calls /\ Nothing = Abstract!Nothing
  BY DEF Calls, Abstract!Calls, Abstract!Nothing
<1>6. /\ [cfg |-> config, ver |-> version]' = Abstract!Fresh
      /\ UNCHANGED <<policy, configVersion>>
  BY DEF ControllerRestart, worker, Abstract!Fresh
<1> HIDE DEF lost, Nothing
<1>7. Abstract!Reset
  BY <1>4, <1>5, <1>6 DEF Abstract!Reset
<1> QED
  BY <1>2, <1>7

LEMMA WorkerRestartIsForget ==
  ASSUME IInv, PhaseInv, NEW w \in Workers, WorkerRestart(w)
  PROVE  PhaseInv' /\ Abstract!Forget(w)
<1>1. \A c \in Calls : /\ [poll[c] EXCEPT !.live = FALSE].ans = poll[c].ans
                      /\ [poll[c] EXCEPT !.live = FALSE].phase = poll[c].phase
                      /\ ~[poll[c] EXCEPT !.live = FALSE].live
  BY DEF IInv, TypeOK, Poll
<1>2. \A c \in Calls : c[1] = w => \/ poll'[c] = Idle
                                   \/ /\ poll'[c].ans = poll[c].ans /\ ~poll'[c].live
                                      /\ poll'[c].phase = poll[c].phase
                                      /\ poll[c].phase # "received"
  BY SMTT(60), <1>1 DEF WorkerRestart
<1>a. ASSUME NEW c \in Calls
      PROVE  /\ poll'[c].phase \in {"idle", "sent", "registered", "changed"}
                  => poll'[c].ans.result = "unchanged"
             /\ poll'[c].phase = "received" => poll'[c].live
             /\ Held(c)' = IF c[1] = w THEN [cfg |-> NoPolicy, ver |-> 0] ELSE Held(c)
  <2>1. CASE c[1] # w
    <3>1. poll'[c] = poll[c]
      BY SMTT(60), <2>1 DEF WorkerRestart
    <3> QED
      BY <2>1, <3>1 DEF PhaseInv, Held
  <2>2. CASE c[1] = w /\ poll'[c] = Idle
    BY SMTT(60), <2>2, IdleIsPoll DEF Held
  <2>3. CASE c[1] = w /\ poll'[c] # Idle
    <3>1. /\ poll'[c].ans = poll[c].ans /\ ~poll'[c].live
          /\ poll'[c].phase = poll[c].phase /\ poll[c].phase # "received"
      BY SMTT(60), <1>2, <2>3
    <3> QED
      BY <2>3, <3>1 DEF PhaseInv, Held
  <2> QED
    BY SMTT(60), <2>1, <2>2, <2>3
<1>3. PhaseInv'
  BY <1>a DEF PhaseInv
<1>4. \A c \in Calls : Held(c)' = IF c[1] = w THEN [cfg |-> NoPolicy, ver |-> 0] ELSE Held(c)
  BY <1>a
<1>5. \A v \in Workers : /\ v # w => policy'[v] = policy[v] /\ configVersion'[v] = configVersion[v]
                        /\ policy'[w] = NoPolicy /\ configVersion'[w] = 0
  BY DEF WorkerRestart, IInv, TypeOK
<1>6. UNCHANGED <<config, version>>
  BY SMTT(60) DEF WorkerRestart, controller
<1>7. Abstract!Forget(w)
  BY ZenonT(60), <1>4, <1>5, <1>6 DEF Abstract!Forget, Abstract!Nothing, Abstract!Calls, Calls
<1> QED
  BY <1>3, <1>7

LEMMA AdminIsWrite ==
  ASSUME IInv, PhaseInv, NEW a \in Admins, LoadConfig(a) \/ AdminStep(a)
  PROVE  PhaseInv' /\ ((\E d \in Configs : Abstract!Write(d)) \/ UNCHANGED Abstract!vars)
<1>1. UNCHANGED <<poll, policy, configVersion>>
  BY DEF LoadConfig, AdminStep, StoreConfigData, ReadBack, UpdateConfig, worker
<1>2. PhaseInv' /\ \A x \in Calls : Held(x)' = Held(x)
  BY <1>1 DEF PhaseInv, Held
<1>3. CASE UNCHANGED <<config, version>>
  BY <1>1, <1>2, <1>3, SilentIsStutter DEF Silent
<1>4. CASE admin[a].data \in Configs /\ config' = admin[a].data /\ version' = version + 1
  BY <1>1, <1>2, <1>4 DEF Abstract!Write
<1> QED
  BY <1>2, <1>3, <1>4 DEF LoadConfig, AdminStep, StoreConfigData, ReadBack, UpdateConfig

LEMMA StepSimulation ==
  ASSUME IInv, PhaseInv, [Next]_vars
  PROVE  PhaseInv' /\ [Abstract!Next]_(Abstract!vars)
<1> USE DEF Abstract!Next
<1>1. CASE \E a \in Admins : LoadConfig(a) \/ AdminStep(a)
  BY <1>1, AdminIsWrite
<1>2. CASE \E b \in BOOLEAN : SetFilteringEnabled(b)
  <2>1. UNCHANGED <<poll, policy, configVersion, config, version>>
    BY SMTT(60), <1>2 DEF SetFilteringEnabled, worker
  <2>2. PhaseInv' /\ Silent
    BY SMTT(60), <2>1 DEF PhaseInv, Held, Silent
  <2> QED
    BY <2>2, SilentIsStutter
<1>3. ASSUME NEW w \in Workers, NEW t \in Threads,
             \/ StartPoll(w, t) \/ Handler(w, t) \/ Deliver(w, t) \/ Install(w, t)
             \/ PollFails(w, t) \/ Discard(w, t)
      PROVE  PhaseInv' /\ [Abstract!Next]_(Abstract!vars)
  <2>1. <<w, t>> \in Calls /\ Calls = Abstract!Calls
    BY CallIsCall DEF Calls, Abstract!Calls
  <2>2. CASE StartPoll(w, t) \/ Register(w, t) \/ CheckVersion(w, t) \/ Reply(w, t)
               \/ Deliver(w, t) \/ Discard(w, t)
    <3>1. PICK r : poll' = [poll EXCEPT ![<<w, t>>] = r] /\ Moved(<<w, t>>, r)
      BY <2>2, SilentMoves
    <3>2. PhaseInv' /\ Silent
      BY ZenonT(60), <2>1, <2>2, <3>1, SilentMoves, MovesAreSilent DEF Silent
    <3> QED
      BY <3>2, SilentIsStutter
  <2>3. CASE GetWorkerPolicyProto(w, t)
    BY <2>1, <2>3, BuildIsRead
  <2>4. CASE Install(w, t)
    BY <2>1, <2>4, InstallIsApply
  <2>5. CASE PollFails(w, t)
    BY <2>1, <2>5, FailureIsDrop
  <2> QED
    BY <1>3, <2>2, <2>3, <2>4, <2>5 DEF Handler
<1>4. CASE ControllerRestart
  BY <1>4, RestartIsReset
<1>5. CASE \E w \in Workers : WorkerRestart(w)
  BY <1>5, WorkerRestartIsForget
<1>6. CASE UNCHANGED vars
  <2>1. UNCHANGED <<poll, policy, configVersion, config, version>>
    BY <1>6 DEF vars, controller, worker
  <2>2. PhaseInv' /\ Silent
    BY <2>1 DEF PhaseInv, Held, Silent
  <2> QED
    BY <2>2, SilentIsStutter
<1> QED
  BY <1>1, <1>2, <1>3, <1>4, <1>5, <1>6 DEF Next

\* Policy distribution, with the handler of manager.go split at its locks, late
\* and overlapping installs, failed polls and restarts of both sides, implements a
\* register that every poll reads in one step.
THEOREM SyncImplementsRegister == Spec => PollsReadAtomically
<1>1. Init => PhaseInv /\ Abstract!Init
  <2> SUFFICES ASSUME Init PROVE PhaseInv /\ Abstract!Init
    OBVIOUS
  <2>1. \A c \in Calls : poll[c] = Idle
    BY SMTT(60) DEF Init
  <2>2. PhaseInv /\ \A c \in Calls : Held(c) = [cfg |-> NoPolicy, ver |-> 0]
    BY <2>1, IdleIsPoll DEF PhaseInv, Held
  <2> QED
    BY <2>2 DEF Init, Abstract!Init, Abstract!Fresh, Abstract!Nothing, Abstract!Calls, Calls
<1>2. IInv /\ PhaseInv /\ [Next]_vars => PhaseInv' /\ [Abstract!Next]_(Abstract!vars)
  BY StepSimulation
<1> QED
  BY <1>1, <1>2, InitIInv, NextKeepsIInv, PTL DEF Spec, PollsReadAtomically, Abstract!Spec
=============================================================================
