---------------------------- MODULE MCPacketPath ----------------------------
(* The frames PacketPath is run with.                                        *)
EXTENDS PacketPath

A == <<97>>
BC == <<98, 99>>

Frame(ether, ip, frag, proto, port, ttl) ==
  [ether |-> ether, ip |-> ip, dst |-> 1, frag |-> frag, proto |-> proto,
   dport |-> <<port \div 256, port % 256>>, ttl |-> ttl,
   labels |-> <<>>, query |-> <<>>, early |-> <<0>>]

Query(f, labels) == [f EXCEPT !.labels = labels, !.query = Wire(labels)]

Ssh(ttl) == Frame("ipv4", 4, "no", "tcp", 22, ttl)

\* SSH at the end of its life and before it, a query for "a.bc" behind a VLAN tag,
\* one for a name of the greatest length, ARP, a later fragment whose data looks
\* like port 22, SCTP to 22.
AllFrames ==
  {Ssh(1), Ssh(2),
   Query(Frame("vlan", 4, "no", "udp", 53, 0), <<A, BC>>),
   Query(Frame("ipv6", 6, "no", "udp", 53, 1), <<BC, BC>>),
   Frame("other", 0, "no", "other", 22, 0),
   Frame("ipv4", 4, "later", "udp", 22, 2),
   Frame("ipv6", 6, "no", "sctp", 22, 0)}

Arrival(p, f, m) == [port |-> p, pay |-> f, src |-> m]

\* On each port a frame of a neighbour, and on two of them one that carries an
\* address of this worker.
AllTraffic ==
  {Arrival("in", f, "m1") : f \in AllFrames \ {Ssh(1), Ssh(2)}}
  \cup {Arrival("in", Ssh(2), "out"), Arrival("out", Ssh(1), "m2"), Arrival("out", Ssh(2), "out"),
        Arrival("exc", Ssh(2), "m3")}
=============================================================================
