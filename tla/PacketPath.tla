----------------------------- MODULE PacketPath -----------------------------
(***************************************************************************)
(* The way of packets through the worker: the three ports, the bursts of     *)
(* MainLoop (forward_to_out, pakage_processing, forward_to_out), rewriting   *)
(* and transmission (proc_packets.c), the packet buffers and the counters.   *)
(* Which verdict a destination gets is the business of FilterWorker and      *)
(* PolicyFilter; here it is a free choice, made once for each packet that    *)
(* reaches the lookup.                                                       *)
(*                                                                           *)
(* A buffer's references are counted by where they are held, so that a       *)
(* buffer freed twice, sent after it was freed, or forgotten, is visible.    *)
(* A port's own MAC address is the port's name.                              *)
(***************************************************************************)
EXTENDS PacketParser, FiniteSets

CONSTANTS Bufs,       \* the mbufs of the pool
          Stations,   \* MAC addresses of other machines
          Frames,     \* the frames that may arrive, as PacketParser has them, with
                      \* ttl, and labels, the name a query was made of
          Traffic,    \* which of them arrive on which port, and from whom
          Nil,
          Burst,      \* 32: the size of pkts and tap_pkts
          MaxFrames   \* bound: frames that arrive

Ports == {"in", "out", "exc"}
Macs == Ports \cup Stations
Broadcast == "ff:ff:ff:ff:ff:ff"

Pool == <<"pool", "mbuf_pool">>
InHand == <<"hand", "pkts">>
Rx(p) == <<"rx", p>>
Tx(p) == <<"tx", p>>
Places == {Pool, InHand} \cup ({"rx", "tx"} \X Ports)

\* A query holds one name, of labels that are not empty and no longer than a name
\* may be, or ends behind its header.
IsWellFormed(f) ==
  /\ f.labels \in Seq(Seq(Nat)) /\ \A i \in 1..Len(f.labels) : f.labels[i] # <<>>
  /\ f.query = Wire(f.labels) \/ (f.query = <<>> /\ f.labels = <<>>)
  /\ Len(f.query) <= MaxName

ASSUME PathAssumption ==
  /\ IsFiniteSet(Bufs) /\ Bufs \cap {Nil} = {}
  /\ Stations \cap ({Nil, Broadcast} \cup Ports) = {} /\ Nil \notin Macs
  /\ Burst \in Nat \ {0} /\ MaxFrames \in Nat /\ MaxName \in Nat
  /\ \A f \in Frames : /\ f.ttl \in 0..255 /\ f.ip \in {0, 4, 6}
                       /\ f.dport \in (0..255) \X (0..255)
                       /\ IsQuery(f) => IsWellFormed(f)
  /\ Traffic \subseteq [port : Ports, pay : Frames, src : Macs]

VARIABLES
  refs,      \* references to each buffer, by where they are held
  frame,     \* what is in each buffer; n and from: when and where it arrived
  stage,     \* the port whose burst MainLoop is at
  taken,     \* its rte_eth_rx_burst has returned
  off,       \* the argument filtring_is_turned_off of this pakage_processing
  neighbor,  \* neighbor_mac of each port, Nil until neighbor_learned
  heard,     \* ghost: source addresses of the frames that arrived on each port
  count,     \* local_packets_received, _passed, _dropped
  arrived    \* ghost: frames that have arrived

vars == <<refs, frame, stage, taken, off, neighbor, heard, count, arrived>>

Held(q) == {b \in Bufs : refs[b][q] > 0}
Only(q) == [x \in Places |-> IF x = q THEN 1 ELSE 0]
Moved(b, q, r) ==
  [refs EXCEPT ![b] = [x \in Places |-> CASE x = q -> refs[b][x] - 1
                                          [] x = r -> refs[b][x] + 1
                                          [] OTHER -> refs[b][x]]]

Blank == [src |-> Nil, dst |-> Nil, pay |-> Nil, ttl |-> 0, n |-> 0, from |-> "in", off |-> FALSE]

FrameRecords ==
  [src : Macs \cup {Nil}, dst : Macs \cup {Nil, Broadcast}, pay : Frames \cup {Nil},
   ttl : 0..255, n : Nat, from : Ports, off : BOOLEAN]

TypeOK ==
  /\ refs \in [Bufs -> [Places -> Nat]]
  /\ frame \in [Bufs -> FrameRecords]
  /\ stage \in Ports /\ taken \in BOOLEAN /\ off \in BOOLEAN
  /\ neighbor \in [Ports -> Macs \cup {Nil}] /\ heard \in [Ports -> SUBSET Macs]
  /\ count \in [received : Nat, passed : Nat, dropped : Nat]
  /\ arrived \in Nat

Init ==
  /\ refs = [b \in Bufs |-> Only(Pool)]
  /\ frame = [b \in Bufs |-> Blank]
  /\ stage = "exc" /\ taken = FALSE /\ off = FALSE
  /\ neighbor = [p \in Ports |-> Nil] /\ heard = [p \in Ports |-> {}]
  /\ count = [received |-> 0, passed |-> 0, dropped |-> 0]
  /\ arrived = 0

-----------------------------------------------------------------------------
(* The network interfaces and the controller.                                *)

\* Ports are promiscuous: any address may be the sender, this worker's included.
\* Which free buffer is taken is of no account.
Arrive(p) ==
  /\ arrived < MaxFrames
  /\ Held(Pool) # {}
  /\ \E t \in {x \in Traffic : x.port = p} : LET b == CHOOSE x \in Held(Pool) : TRUE IN
       /\ refs' = Moved(b, Pool, Rx(p))
       /\ frame' = [frame EXCEPT ![b] = [src |-> t.src, dst |-> Broadcast, pay |-> t.pay,
                                         ttl |-> t.pay.ttl, n |-> arrived + 1, from |-> p,
                                         off |-> FALSE]]
       /\ heard' = [heard EXCEPT ![p] = @ \cup {t.src}]
  /\ arrived' = arrived + 1
  /\ UNCHANGED <<stage, taken, off, neighbor, count>>

\* The frame is on the wire: the driver frees the buffer.
TxDone(p) ==
  /\ \E b \in Held(Tx(p)) : /\ refs' = Moved(b, Tx(p), Pool)
                            /\ frame' = [frame EXCEPT ![b] = Blank]
  /\ UNCHANGED <<stage, taken, off, neighbor, heard, count, arrived>>

-----------------------------------------------------------------------------
(* One packet.                                                               *)

Oldest(S) == {b \in S : \A c \in S : frame[b].n <= frame[c].n}

\* Mutant: own addresses are learned too.
learn_neighbor_mac_any(b, i, o) ==
  IF neighbor[i] = Nil THEN [neighbor EXCEPT ![i] = frame[b].src] ELSE neighbor

learn_neighbor_mac(b, i, o) ==
  IF neighbor[i] = Nil /\ frame[b].src \notin {i, o}
  THEN [neighbor EXCEPT ![i] = frame[b].src] ELSE neighbor

\* rte_pktmbuf_free; what is left in a free buffer is of no account.
Free(b) ==
  /\ refs' = Moved(b, InHand, Pool)
  /\ frame' = [frame EXCEPT ![b] = Blank]

\* The source becomes the port, the destination the neighbour on its side.
Rewrite(b, o, ttl) ==
  frame' = [frame EXCEPT ![b] =
             [@ EXCEPT !.src = o,
                       !.dst = IF neighbor'[o] # Nil THEN neighbor'[o] ELSE Broadcast,
                       !.ttl = ttl,
                       !.off = off]]

TtlChecked(b) == frame[b].pay.ether = "ipv4"

\* Mutant: a packet at the end of its lifetime is freed and sent all the same.
forward_no_return(b, i, o, c) ==
  /\ neighbor' = learn_neighbor_mac(b, i, o)
  /\ refs' = IF TtlChecked(b) /\ frame[b].ttl <= 1
             THEN [Moved(b, InHand, Pool) EXCEPT ![b][Tx(o)] = @ + 1] ELSE Moved(b, InHand, Tx(o))
  /\ Rewrite(b, o, frame[b].ttl)
  /\ count' = [c EXCEPT !.passed = @ + 1]

\* c is the counters so far. A packet that may live no longer is freed without
\* being counted. A packet the port refuses is counted as dropped and then, like
\* the others, as passed.
forward_packet_with_rewrite(b, i, o, c) ==
  /\ neighbor' = learn_neighbor_mac(b, i, o)
  /\ \/ /\ TtlChecked(b) /\ frame[b].ttl <= 1
        /\ Free(b)
        /\ count' = c
     \/ /\ TtlChecked(b) => frame[b].ttl > 1
        /\ \/ /\ refs' = Moved(b, InHand, Tx(o))
              /\ Rewrite(b, o, IF TtlChecked(b) THEN frame[b].ttl - 1 ELSE frame[b].ttl)
              /\ count' = [c EXCEPT !.passed = @ + 1]
           \/ /\ Free(b)
              /\ count' = [c EXCEPT !.passed = @ + 1, !.dropped = @ + 1]

package_sending_decision(send, b, i, o, c) ==
  \/ send /\ forward_packet_with_rewrite(b, i, o, c)
  \/ /\ ~send /\ Free(b)
     /\ count' = [c EXCEPT !.dropped = @ + 1]
     /\ UNCHANGED neighbor

LIST_EXCEPTION_PORTS == {22}

\* Mutant: the port is compared in network byte order.
check_is_exception_raw(port) == port \in LIST_EXCEPTION_PORTS

check_is_exception(port) == Swap16(port) \in LIST_EXCEPTION_PORTS

-----------------------------------------------------------------------------
(* MainLoop.                                                                 *)

\* rte_eth_rx_burst: the oldest frames of the queue, up to Burst. The argument
\* !enable is evaluated when pakage_processing is called; policy threads store
\* enable at any time.
ReceiveBurst ==
  /\ ~taken
  /\ \E K \in SUBSET Held(Rx(stage)) :
       /\ Cardinality(K) <= Burst
       /\ K # Held(Rx(stage)) => Cardinality(K) = Burst
       /\ \A b \in K, c \in Held(Rx(stage)) \ K : frame[b].n < frame[c].n
       /\ refs' = [b \in Bufs |-> IF b \in K THEN Moved(b, Rx(stage), InHand)[b] ELSE refs[b]]
  /\ taken' = TRUE
  /\ off' \in IF stage = "in" THEN BOOLEAN ELSE {FALSE}
  /\ UNCHANGED <<frame, stage, neighbor, heard, count, arrived>>

\* forward_to_out: packets of the exception port and of port_out go to port_in.
\* They are counted as passed, not as received.
ForwardToOut ==
  /\ taken /\ stage \in {"exc", "out"}
  /\ \E b \in Oldest(Held(InHand)) :
       forward_packet_with_rewrite(b, stage, "in", count)
  /\ UNCHANGED <<stage, taken, off, heard, arrived>>

\* Mutant: the packets of a burst are taken from the end.
ProcessPacketLast ==
  /\ taken /\ stage = "in"
  /\ \E b \in Held(InHand), send \in BOOLEAN :
       /\ \A c \in Held(InHand) : frame[c].n <= frame[b].n
       /\ package_sending_decision(send, b, "in", "out", [count EXCEPT !.received = @ + 1])
  /\ UNCHANGED <<stage, taken, off, heard, arrived>>

\* One packet of pakage_processing: undecided with filtering off, to the
\* exception port, or by the verdict on its key (a failed lookup drops it).
ProcessPacket ==
  /\ taken /\ stage = "in"
  /\ \E b \in Oldest(Held(InHand)) :
       LET c == [count EXCEPT !.received = @ + 1]
           info == parsing_pakage(frame[b].pay) IN
       \/ off /\ package_sending_decision(TRUE, b, "in", "out", c)
       \/ /\ ~off /\ check_is_exception(info.port)
          /\ package_sending_decision(TRUE, b, "in", "exc", c)
       \/ /\ ~off /\ ~check_is_exception(info.port)
          /\ \E send \in BOOLEAN : package_sending_decision(send, b, "in", "out", c)
  /\ UNCHANGED <<stage, taken, off, heard, arrived>>

\* Mutant: the answers that come in on port_out are never fetched.
NextBurstSkipsOut ==
  /\ taken /\ Held(InHand) = {}
  /\ stage' = IF stage = "exc" THEN "in" ELSE "exc"
  /\ taken' = FALSE /\ off' = FALSE
  /\ UNCHANGED <<refs, frame, neighbor, heard, count, arrived>>

\* The exception port, then port_in, then port_out, and round again.
NextBurst ==
  /\ taken /\ Held(InHand) = {}
  /\ stage' = CASE stage = "exc" -> "in" [] stage = "in" -> "out" [] OTHER -> "exc"
  /\ taken' = FALSE /\ off' = FALSE
  /\ UNCHANGED <<refs, frame, neighbor, heard, count, arrived>>

MainLoop == ReceiveBurst \/ ForwardToOut \/ ProcessPacket \/ NextBurst

Next == MainLoop \/ (\E p \in Ports : Arrive(p) \/ TxDone(p))

Spec == Init /\ [][Next]_vars

\* The loop runs, and the interfaces send what they have accepted.
FairSpec == Spec /\ WF_vars(MainLoop) /\ \A p \in Ports : WF_vars(TxDone(p))

-----------------------------------------------------------------------------
(* Properties.                                                               *)

\* Every buffer is held in exactly one place: no path through
\* forward_packet_with_rewrite and package_sending_decision frees one twice,
\* sends one it has freed, or forgets one (proc_packets.c:61, 76, 90, 216).
OneOwner == \A b \in Bufs : \E q \in Places : refs[b] = Only(q)

\* A frame to be sent on a port carries the port's address as its source, goes to
\* everybody or to a machine that was heard on that side and is not the port
\* itself, and an IPv4 packet has lost one from its time to live and has some
\* left (proc_packets.c:21, 43-63).
SentFramesAreRewritten ==
  \A o \in Ports : \A b \in Held(Tx(o)) :
    LET f == frame[b] IN
    /\ f.src = o
    /\ f.dst \in {Broadcast} \cup (heard[o] \ {o})
    /\ f.pay.ether = "ipv4" => f.ttl > 0 /\ f.ttl = f.pay.ttl - 1
    /\ f.pay.ether # "ipv4" => f.ttl = f.pay.ttl

\* Packets of one port are dealt with in the order they came in: when one has
\* been handed on, none that came before it is still waiting.
OrderKept ==
  \A o \in Ports : \A b \in Held(Tx(o)) :
    \A c \in Held(InHand) \cup Held(Rx(frame[b].from)) :
      frame[c].from = frame[b].from => frame[b].n < frame[c].n

\* Of the packets of port_in with a port of their own, those to an exception
\* port, and no others, leave by the exception port, unless filtering was off for
\* their burst; the setting may change in the middle of it (proc_packets.c:115,
\* 137, 222).
ExceptionTraffic ==
  \A o \in Ports : \A b \in Held(Tx(o)) :
    LET f == frame[b] IN
    f.from = "in" /\ f.pay.frag = "no" =>
      (o = "exc" <=> ~f.off /\ \E x \in LIST_EXCEPTION_PORTS : IsTo(f.pay, x))

\* A packet is decided by what it is: by its own destination, or, unless it is a
\* part of a datagram, by the name in a DNS query, as text, and by its port.
\* Anything that is not IP is taken for address zero, all under one key
\* (pars_packets.c:26-105, proc_packets.c:146-154).
PacketsAreDecidedByWhatTheyAre ==
  \A b \in Held(InHand) :
    LET f == frame[b].pay
        i == parsing_pakage(f) IN
    /\ i.ip = f.ip /\ i.dist = (IF f.ip = 0 THEN 0 ELSE f.dst)
    /\ f.frag = "no" =>
      /\ \A x \in {22, 53, 80} : i.port = Swap16(x) <=> IsTo(f, x)
      /\ i.domain = IF IsQuery(f) THEN Text(f.labels) ELSE <<>>

\* Every buffer that leaves the pool comes back to it: the loop gets round to all
\* three ports, whatever the traffic, and nothing it receives stays.
BuffersComeBack == \A b \in Bufs : b \notin Held(Pool) ~> b \in Held(Pool)
=============================================================================
