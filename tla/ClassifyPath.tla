---------------------------- MODULE ClassifyPath ----------------------------
(***************************************************************************)
(* A cache miss from end to end: the rules reach the worker (PolicyFilter),  *)
(* the worker asks the controller's classification service about the packet  *)
(* (Classifier), and the answer, or its absence, and the policy decide       *)
(* (proc_packets.c pakage_processing). The worker waits for one call at a    *)
(* time; the handlers of calls it has given up go on.                        *)
(***************************************************************************)
EXTENDS PolicyFilter, Classifier

VARIABLE cur  \* the call of the packet in hand, 0 before the first

allVars == <<vars, classifierVars, cur>>

PathInit == Init /\ ClassifierInit /\ cur = 0

LoadRules == (Merge \/ Install) /\ UNCHANGED <<classifierVars, cur>>

\* A packet that neither cache knows: worker_classify is called.
Miss ==
  /\ pc \in {"installed", "decided"}
  /\ cur + 1 \in Calls
  /\ cur' = cur + 1
  /\ info' \in Packets
  /\ Ask(cur', IF info'.domain = "" THEN "ip" ELSE "domain")
  /\ pc' = "asking"
  /\ UNCHANGED <<global, filter, proto, policy, resp, sent>>

\* Mutant: a failed classification drops the packet.
DecideMissClosed ==
  /\ pc = "asking"
  /\ \/ /\ client[cur] = "failed"
        /\ sent' = FALSE
        /\ UNCHANGED resp
     \/ /\ client[cur] = "answered"
        /\ resp' = reply[cur]
        /\ \E req \in Requests(resp'), beyond \in BOOLEAN : sent' = Verdict(req, policy, info, beyond)
  /\ pc' = "decided"
  /\ UNCHANGED <<global, filter, proto, policy, info, classifierVars, cur>>

\* The packet is sent without a look at the policy when the call has failed.
DecideMiss ==
  /\ pc = "asking"
  /\ \/ /\ client[cur] = "failed"
        /\ sent' = TRUE
        /\ UNCHANGED resp
     \/ /\ client[cur] = "answered"
        /\ resp' = reply[cur]
        /\ \E req \in Requests(resp'), beyond \in BOOLEAN : sent' = Verdict(req, policy, info, beyond)
  /\ pc' = "decided"
  /\ UNCHANGED <<global, filter, proto, policy, info, classifierVars, cur>>

ServiceStep ==
  /\ \E c \in Calls : HandlerStep(c) \/ ClientStep(c)
  /\ UNCHANGED <<vars, cur>>

PathNext == LoadRules \/ Miss \/ DecideMiss \/ ServiceStep

PathSpec == PathInit /\ [][PathNext]_allVars

\* Requests end, answered or timed out; the deadline of a call passes.
PathFairSpec ==
  /\ PathSpec
  /\ WF_allVars(LoadRules \/ DecideMiss)
  /\ \A c \in Calls : /\ WF_allVars(HandlerStep(c) /\ UNCHANGED <<vars, cur>>)
                      /\ WF_allVars(ClientStep(c) /\ UNCHANGED <<vars, cur>>)

-----------------------------------------------------------------------------

Answered == pc = "decided" /\ client[cur] = "answered"

\* A destination on a block list passes only when its classification was not
\* answered in time, and one that is allowed and not blocked always passes,
\* answered or not (proc_packets.c:183-188, 249-255).
ListsDecide ==
  pc = "decided" =>
    /\ OnBlockList /\ InReach /\ sent => client[cur] = "failed"
    /\ OnAllowList /\ ~OnBlockList /\ InReach => sent

\* Every miss is decided, and every handler ends, though providers are slow,
\* fail or bring the controller down.
MissesAreDecided ==
  /\ pc = "asking" ~> pc = "decided"
  /\ \A c \in Calls : handler[c].pc = "asking" ~> handler[c].pc \in {"returned", "lost"}

\* "Категории для блокировки" (admin/README.md:26): a destination that a
\* provider puts in a blocked category is not sent, when the classification is
\* answered in time and no allow list names it.
BlockedCategoryIsNotSent ==
  Answered /\ ~OnAllowList
    /\ (\E id \in reported[cur] : InList("BlockCategories", Categories[id].Name)) => ~sent
=============================================================================
