---------------------------- MODULE PacketParser ----------------------------
(***************************************************************************)
(* parsing_pakage (pars_packets.c): from a received frame to what the worker *)
(* decides it by, the domain a DNS query asks for or the destination         *)
(* address, and the destination port.                                        *)
(*                                                                           *)
(* A frame is abstracted to what the parser looks at:                        *)
(*   ether   the outer EtherType: "ipv4", "ipv6", "vlan" or "other"          *)
(*   ip      the IP version inside, 0 for none; dst its destination          *)
(*   frag    "no", "first" or "later": the part of an IP datagram it carries *)
(*   proto   "tcp", "udp", "sctp" or "other"                                 *)
(*   dport   the two bytes where TCP and UDP keep the destination port (of a *)
(*           later fragment: whatever data is there)                         *)
(*   query   what follows a UDP and a DNS header; early: what follows if the *)
(*           UDP header is not skipped                                       *)
(***************************************************************************)
EXTENDS Naturals, Sequences

CONSTANT MaxName   \* 255: length at which the parser gives up on a name

\* The layer fields of a DPDK packet type, in units of their lowest bit; each is
\* an enumeration, not a set of flags.
RTE_PTYPE_L3_IPV4 == 1
RTE_PTYPE_L3_IPV6 == 4
RTE_PTYPE_L4_TCP == 1
RTE_PTYPE_L4_UDP == 2
RTE_PTYPE_L4_FRAG == 3
RTE_PTYPE_L4_SCTP == 4

\* rte_net_get_ptype, which looks behind a VLAN tag, and calls any part of a
\* fragmented IPv4 or IPv6 datagram a fragment with a layer 4 header of length 0.
rte_net_get_ptype(f) ==
  [l3 |-> IF f.ip = 4 THEN RTE_PTYPE_L3_IPV4 ELSE IF f.ip = 6 THEN RTE_PTYPE_L3_IPV6 ELSE 0,
   l4 |-> IF f.ip = 0 THEN 0
          ELSE IF f.frag # "no" THEN RTE_PTYPE_L4_FRAG
          ELSE CASE f.proto = "tcp" -> RTE_PTYPE_L4_TCP
                 [] f.proto = "udp" -> RTE_PTYPE_L4_UDP
                 [] f.proto = "sctp" -> RTE_PTYPE_L4_SCTP
                 [] OTHER -> 0]

\* pkt_type & flag.
Has(field, flag) == (field \div flag) % 2 = 1

\* A 16-bit load on a little-endian machine, and rte_be_to_cpu_16.
Load16(b) == b[1] + 256 * b[2]
Swap16(x) == (x % 256) * 256 + x \div 256

-----------------------------------------------------------------------------
(* The name in a DNS query: labels, each behind its length, up to a zero.    *)

\* Where the length behind the label at p is. A name that ends before the frame
\* does is all the loops are given here.
NextLabel(s, p) == IF p + s[p] + 1 <= Len(s) THEN p + s[p] + 1 ELSE Len(s) + 1

\* Where the measuring loop stops; p - 1 is domain_len.
NameEnd(s) ==
  LET from[p \in 1..(Len(s) + 1)] ==
        IF p > Len(s) \/ p > MaxName THEN p
        ELSE IF s[p] = 0 THEN p ELSE from[NextLabel(s, p)]
  IN from[1]

Dot == 46

\* Mutant: no dot between the labels.
CopyLabelsUndotted(s) ==
  LET from[p \in 1..(Len(s) + 1)] ==
        IF p > Len(s) THEN <<>>
        ELSE IF s[p] = 0 THEN <<>> ELSE SubSeq(s, p + 1, p + s[p]) \o from[NextLabel(s, p)]
  IN from[1]

\* The copying loop: a dot in front of every label but the first.
CopyLabels(s) ==
  LET from[p \in 1..(Len(s) + 1)] ==
        IF p > Len(s) THEN <<>>
        ELSE IF s[p] = 0 THEN <<>>
        ELSE (IF p = 1 THEN <<>> ELSE <<Dot>>) \o (SubSeq(s, p + 1, p + s[p]) \o from[NextLabel(s, p)])
  IN from[1]

ExtractDomain(s) ==
  LET e == NameEnd(s) IN
  IF e > 1 /\ e <= Len(s) /\ s[e] = 0 THEN CopyLabels(s) ELSE <<>>

-----------------------------------------------------------------------------
\* info_pac starts zeroed: a frame without an IP header keeps version and address
\* 0 and port 0.
parsing_pakage(f) ==
  LET t == rte_net_get_ptype(f)
      v == IF Has(t.l3, RTE_PTYPE_L3_IPV4) THEN 4 ELSE IF Has(t.l3, RTE_PTYPE_L3_IPV6) THEN 6 ELSE 0
      port == IF v # 0 /\ (Has(t.l4, RTE_PTYPE_L4_TCP) \/ Has(t.l4, RTE_PTYPE_L4_UDP))
              THEN Load16(f.dport) ELSE 0
      data == IF f.frag = "no" THEN f.query ELSE f.early
  IN [ip |-> v,
      dist |-> IF v = 0 THEN 0 ELSE f.dst,
      port |-> port,
      domain |-> IF Has(t.l4, RTE_PTYPE_L4_UDP) /\ port = Swap16(53) /\ data # <<>>
                 THEN ExtractDomain(data) ELSE <<>>]

-----------------------------------------------------------------------------
(* What a frame really asks for, from the labels it was made of.             *)

\* The bytes of a name.
Wire(labels) ==
  LET upTo[n \in 0..Len(labels)] ==
        IF n = 0 THEN <<>> ELSE upTo[n - 1] \o <<Len(labels[n])>> \o labels[n]
  IN upTo[Len(labels)] \o <<0>>

\* Its text.
Text(labels) ==
  LET upTo[n \in 0..Len(labels)] ==
        IF n = 0 THEN <<>>
        ELSE IF n = 1 THEN labels[1] ELSE upTo[n - 1] \o <<Dot>> \o labels[n]
  IN upTo[Len(labels)]

HasPort(f) == f.ip # 0 /\ f.frag = "no" /\ f.proto \in {"tcp", "udp"}
IsTo(f, p) == HasPort(f) /\ 256 * f.dport[1] + f.dport[2] = p
IsQuery(f) == f.proto = "udp" /\ IsTo(f, 53)
=============================================================================
