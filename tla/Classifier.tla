----------------------------- MODULE Classifier -----------------------------
(***************************************************************************)
(* The classification service of the controller, seen from a worker: the    *)
(* Classify call with its deadline (worker.cpp classify), the handler that   *)
(* asks every provider of the category file one after the other (service.go  *)
(* Check, http_client.go Request) and the answer it makes of what they say   *)
(* (data_server.go Classify). A handler does not see its caller's deadline:  *)
(* it goes on when the caller has given up, beside the handlers of later     *)
(* calls.                                                                    *)
(*                                                                           *)
(* A provider's answer is the labels found at the category path, {} for an   *)
(* answer that is no JSON or has no such path. URLs, headers and queries are *)
(* left out: building a request works or fails.                              *)
(***************************************************************************)
EXTENDS Integers, FiniteSets, Sequences

CONSTANTS Calls,        \* Classify calls: 1, 2, ...
          Providers,    \* the providers the category file names
          Configured,   \* those of them that the provider file has
          Endpoints,    \* pairs of a provider and a type it can be asked for
          WithBody,     \* the providers whose endpoints have a request body
          Labels,       \* the categories providers use
          Categories    \* the category file: id -> [Name, TrustLevel, Mappings]

ASSUME ClassifierAssumption ==
  /\ Calls \subseteq Nat
  /\ Configured \subseteq Providers /\ WithBody \subseteq Configured
  /\ Endpoints \subseteq Configured \X {"domain", "ip"}
  /\ \A id \in DOMAIN Categories : Categories[id].Mappings \in [Providers -> SUBSET Labels]

VARIABLES handler,   \* the running calls of DataServer.Classify
          client,    \* how each call stands for the worker
          reply,     \* the response of each handler that has returned
          down,      \* the controller has panicked
          asked,     \* ghost: how often each provider was asked in a call
          reported   \* ghost: the categories that the providers' answers name

classifierVars == <<handler, client, reply, down, asked, reported>>

Unknown == [categories |-> <<"unknown">>, trust |-> 0]
Idle == [pc |-> "none", type |-> "domain", todo |-> {}, foundIDs |-> {}, open |-> 0]

ClassifierInit ==
  /\ handler = [c \in Calls |-> Idle]
  /\ client = [c \in Calls |-> "none"]
  /\ reply = [c \in Calls |-> Unknown]
  /\ down = FALSE
  /\ asked = [c \in Calls |-> [p \in Providers |-> 0]]
  /\ reported = [c \in Calls |-> {}]

-----------------------------------------------------------------------------
(* What a provider's answer means.                                           *)

hasIntersection(a, b) == a \cap b # {}

\* The categories one of whose labels for the provider is among the actual ones.
Matching(p, actual) ==
  {id \in DOMAIN Categories : hasIntersection(Categories[id].Mappings[p], actual)}

\* Reading from a closed body is an error, and the provider is passed over.
Decode(open, data) == IF open = 0 THEN {} ELSE data

\* The body is closed, then the status looked at, then the body decoded.
TakeResponse(h, p, ok, data) ==
  LET closed == [h EXCEPT !.todo = @ \ {p}, !.open = 0]
  IN  IF ok THEN [closed EXCEPT !.foundIDs = @ \cup Matching(p, Decode(closed.open, data))]
            ELSE closed

LowestTrust(ids) ==
  LET levels == {0} \cup {Categories[id].TrustLevel : id \in ids}
  IN  CHOOSE t \in levels : \A u \in levels : t <= u

\* A set as a list; its order decides nothing.
Listing(S) == CHOOSE s \in [1..Cardinality(S) -> S] : {s[i] : i \in DOMAIN s} = S

ClassifyResponse(ids) ==
  IF ids = {} THEN Unknown
  ELSE [categories |-> Listing({Categories[id].Name : id \in ids}), trust |-> LowestTrust(ids)]

-----------------------------------------------------------------------------
(* The worker's side of a call.                                              *)

\* worker_classify: the call is made, or fails at once without a controller.
Ask(c, type) ==
  /\ client[c] = "none"
  /\ \/ /\ down
        /\ client' = [client EXCEPT ![c] = "failed"]
        /\ UNCHANGED handler
     \/ /\ ~down
        /\ client' = [client EXCEPT ![c] = "waiting"]
        /\ handler' = [handler EXCEPT ![c] = [Idle EXCEPT !.pc = "asking", !.type = type,
                                                          !.todo = Providers]]
  /\ UNCHANGED <<reply, down, asked, reported>>

\* The deadline of one second, or any other error of the call.
Deadline(c) ==
  /\ client[c] = "waiting"
  /\ client' = [client EXCEPT ![c] = "failed"]
  /\ UNCHANGED <<handler, reply, down, asked, reported>>

Deliver(c) ==
  /\ client[c] = "waiting"
  /\ handler[c].pc = "returned"
  /\ client' = [client EXCEPT ![c] = "answered"]
  /\ UNCHANGED <<handler, reply, down, asked, reported>>

-----------------------------------------------------------------------------
(* The handler: Check's loop over the providers, in the order of a Go map.   *)

Asks(c, p) == handler[c].pc = "asking" /\ p \in handler[c].todo /\ ~down

Supported(c, p) == <<p, handler[c].type>> \in Endpoints

\* Not in the provider file, or without an endpoint for the type.
PassOver(c, p) ==
  /\ Asks(c, p) /\ ~Supported(c, p)
  /\ handler' = [handler EXCEPT ![c].todo = @ \ {p}]
  /\ UNCHANGED <<client, reply, down, asked, reported>>

\* Mutant: an error ends the loop over the providers.
RequestFailsAndReturns(c, p) ==
  /\ Asks(c, p) /\ Supported(c, p)
  /\ handler' = [handler EXCEPT ![c].todo = {}]
  /\ asked' = [asked EXCEPT ![c][p] = @ + 1]
  /\ UNCHANGED <<client, reply, down, reported>>

\* The request cannot be made, or is not answered within 20 seconds.
RequestFails(c, p) ==
  /\ Asks(c, p) /\ Supported(c, p)
  /\ handler' = [handler EXCEPT ![c].todo = @ \ {p}]
  /\ asked' = [asked EXCEPT ![c][p] = @ + 1]
  /\ UNCHANGED <<client, reply, down, reported>>

\* With a request body the header is set before the error is looked at: a
\* request that cannot be made is nil, and every handler ends with the process.
RequestPanics(c, p) ==
  /\ Asks(c, p) /\ Supported(c, p) /\ p \in WithBody
  /\ down' = TRUE
  /\ handler' = [d \in Calls |-> IF handler[d].pc = "asking" THEN [handler[d] EXCEPT !.pc = "lost"]
                                                            ELSE handler[d]]
  /\ UNCHANGED <<client, reply, asked, reported>>

Respond(c, p) ==
  /\ Asks(c, p) /\ Supported(c, p)
  /\ \E ok \in BOOLEAN, data \in SUBSET Labels :
       /\ handler' = [handler EXCEPT ![c] = TakeResponse(@, p, ok, data)]
       /\ reported' = [reported EXCEPT ![c] = IF ok THEN @ \cup Matching(p, data) ELSE @]
  /\ asked' = [asked EXCEPT ![c][p] = @ + 1]
  /\ UNCHANGED <<client, reply, down>>

\* Mutant: there is no answer when nothing was found.
ReturnOnlyFound(c) ==
  /\ handler[c].pc = "asking" /\ handler[c].todo = {} /\ ~down
  /\ handler[c].foundIDs # {}
  /\ handler' = [handler EXCEPT ![c].pc = "returned"]
  /\ reply' = [reply EXCEPT ![c] = ClassifyResponse(handler[c].foundIDs)]
  /\ UNCHANGED <<client, down, asked, reported>>

\* Classify's response to what Check found; Check itself never returns an error.
Return(c) ==
  /\ handler[c].pc = "asking" /\ handler[c].todo = {} /\ ~down
  /\ handler' = [handler EXCEPT ![c].pc = "returned"]
  /\ reply' = [reply EXCEPT ![c] = ClassifyResponse(handler[c].foundIDs)]
  /\ UNCHANGED <<client, down, asked, reported>>

HandlerStep(c) ==
  \/ \E p \in Providers : PassOver(c, p) \/ RequestFails(c, p) \/ RequestPanics(c, p) \/ Respond(c, p)
  \/ Return(c)

ClientStep(c) == Deadline(c) \/ Deliver(c)

-----------------------------------------------------------------------------
(* Properties of the handlers.                                               *)

\* A handler that returns has asked every provider that is configured for the
\* type exactly once, whichever of the others failed.
EveryProviderAskedOnce ==
  \A c \in Calls : handler[c].pc = "returned" =>
    \A p \in Providers : asked[c][p] = IF Supported(c, p) THEN 1 ELSE 0
=============================================================================
