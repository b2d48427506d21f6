-------------------------- MODULE PacketPathProofs --------------------------
(***************************************************************************)
(* Proofs for PacketPath: every packet buffer has one owner, packets leave   *)
(* rewritten, in order and by the right port, for any pool, any burst size,  *)
(* any stations and any traffic.                                             *)
(***************************************************************************)
EXTENDS PacketPath, Integers, TLAPS

\* What is known of the neighbours of a port.
NeighborsWereHeard ==
  \A p \in Ports : neighbor[p] # Nil => neighbor[p] \in heard[p] /\ neighbor[p] # p

\* A frame that came in on port p, as it was.
CameBy(f, p) == f.from = p /\ f.src \in heard[p] /\ f.ttl = f.pay.ttl

\* A frame that leaves by port o, as it was rewritten and decided.
LeavesBy(f, o) ==
  /\ f.src = o
  /\ f.dst \in {Broadcast} \cup (heard[o] \ {o})
  /\ f.pay.ether = "ipv4" => f.ttl > 0 /\ f.ttl = f.pay.ttl - 1
  /\ f.pay.ether # "ipv4" => f.ttl = f.pay.ttl
  /\ f.from = "in" => (o = "exc" <=> ~f.off /\ check_is_exception(parsing_pakage(f.pay).port))

\* Frames are where their origin says, in hand are those of the present stage,
\* and each has its own number.
Arrivals ==
  /\ \A p \in Ports : \A b \in Held(Rx(p)) : CameBy(frame[b], p)
  /\ \A b \in Held(InHand) :
       /\ taken /\ CameBy(frame[b], stage)
       /\ \A c \in Held(Rx(stage)) : frame[b].n < frame[c].n
  /\ \A b \in Bufs \ Held(Pool) : frame[b].n <= arrived /\ frame[b].pay \in Frames
  /\ \A b, c \in Bufs \ Held(Pool) : b # c => frame[b].n # frame[c].n

Departures == \A o \in Ports : \A b \in Held(Tx(o)) : LeavesBy(frame[b], o)

FlowInv == TypeOK /\ OneOwner /\ NeighborsWereHeard /\ Arrivals /\ Departures /\ OrderKept

-----------------------------------------------------------------------------
(* Where buffers are.                                                        *)

LEMMA PlaceFacts ==
  /\ Pool \in Places /\ InHand \in Places /\ Pool # InHand
  /\ \A p \in Ports : /\ Rx(p) \in Places /\ Tx(p) \in Places
                      /\ Rx(p) \notin {Pool, InHand} /\ Tx(p) \notin {Pool, InHand}
  /\ \A p, o \in Ports : Rx(p) # Tx(o) /\ (Rx(p) = Rx(o) => p = o) /\ (Tx(p) = Tx(o) => p = o)
  BY Zenon DEF Places, Pool, InHand, Rx, Tx, Ports

LEMMA OnlyFacts ==
  \A q \in Places : /\ Only(q) \in [Places -> Nat]
                    /\ \A r \in Places : Only(q)[r] > 0 <=> r = q
  BY DEF Only

\* With one owner, a buffer that is held somewhere is held nowhere else.
LEMMA HeldOnce ==
  ASSUME OneOwner, NEW b \in Bufs, NEW q \in Places, b \in Held(q)
  PROVE  refs[b] = Only(q) /\ \A r \in Places : b \in Held(r) => r = q
  BY ZenonT(60), OnlyFacts DEF OneOwner, Held

LEMMA HeldInBufs == \A q \in Places : Held(q) \subseteq Bufs /\ Held(q)' \subseteq Bufs
  BY Zenon DEF Held

\* The fields of a frame.
LEMMA FrameTypes ==
  ASSUME TypeOK, NEW b \in Bufs
  PROVE  /\ frame[b] \in FrameRecords
         /\ frame[b].src \in Macs \cup {Nil} /\ frame[b].ttl \in 0..255
         /\ frame[b].n \in Nat /\ frame[b].from \in Ports /\ frame[b].pay \in Frames \cup {Nil}
<1>1. frame[b] \in FrameRecords
  BY Zenon DEF TypeOK
<1> QED
  BY Zenon, <1>1 DEF FrameRecords

LEMMA MoveIsOnly ==
  ASSUME TypeOK, OneOwner, NEW q \in Places, NEW r \in Places, q # r, NEW b \in Held(q)
  PROVE  Moved(b, q, r) = [refs EXCEPT ![b] = Only(r)]
<1>1. b \in Bufs /\ refs[b] = Only(q)
  BY Zenon, HeldOnce DEF Held
<1>2. [x \in Places |-> CASE x = q -> Only(q)[x] - 1
                        [] x = r -> Only(q)[x] + 1
                        [] OTHER -> Only(q)[x]] = Only(r)
  BY DEF Only
<1> QED
  BY Zenon, <1>1, <1>2 DEF Moved

\* The effect of one move on every place.
LEMMA MoveEffect ==
  ASSUME TypeOK, OneOwner, NEW b \in Bufs, NEW r \in Places, refs' = [refs EXCEPT ![b] = Only(r)]
  PROVE  /\ refs' \in [Bufs -> [Places -> Nat]]
         /\ OneOwner'
         /\ \A x \in Bufs, p \in Places :
              x \in Held(p)' <=> IF x = b THEN p = r ELSE x \in Held(p)
<1>0. refs \in [Bufs -> [Places -> Nat]]
  BY Zenon DEF TypeOK
<1>1. refs' \in [Bufs -> [Places -> Nat]]
  BY Zenon, <1>0, OnlyFacts
<1>2. OneOwner'
  BY Zenon, <1>0 DEF OneOwner
<1>3. \A x \in Bufs, p \in Places :
         x \in Held(p)' <=> IF x = b THEN p = r ELSE x \in Held(p)
  BY Zenon, <1>0, OnlyFacts DEF Held
<1> QED
  BY Zenon, <1>1, <1>2, <1>3

\* What is known of a frame stays true when more is heard.
LEMMA HeardMore ==
  ASSUME \A p \in Ports : heard[p] \subseteq heard'[p],
         NEW x, frame'[x] = frame[x], NEW p \in Ports
  PROVE  /\ CameBy(frame[x], p) => CameBy(frame[x], p)'
         /\ LeavesBy(frame[x], p) => LeavesBy(frame[x], p)'
  BY Zenon DEF CameBy, LeavesBy

-----------------------------------------------------------------------------
(* One buffer moves: from the pool to a receive queue, from the hand to a    *)
(* transmit queue, or back to the pool.                                      *)

\* What a buffer must bring along to its new place, so that the others, which
\* stay as they are, find the invariant kept.
Fits(b, r) ==
  /\ \A p \in Ports : r = Rx(p) => CameBy(frame[b], p)' /\ frame'[b].n > arrived
  /\ r # Pool => /\ frame'[b].n <= arrived' /\ frame'[b].pay \in Frames
                 /\ \A c \in Bufs \ Held(Pool) : c # b => frame'[b].n # frame[c].n
  /\ \A o \in Ports : r = Tx(o) =>
       /\ LeavesBy(frame[b], o)'
       /\ \A c \in Held(InHand) \cup Held(Rx(frame'[b].from)) :
            c # b /\ frame[c].from = frame'[b].from => frame'[b].n < frame[c].n

LEMMA MoveKeepsFrames ==
  ASSUME FlowInv, NEW b \in Bufs, NEW r \in Places \ {InHand},
         refs' = [refs EXCEPT ![b] = Only(r)],
         frame'[b] \in FrameRecords, \A x \in Bufs : x # b => frame'[x] = frame[x],
         \A p \in Ports : heard[p] \subseteq heard'[p],
         arrived' \in Nat, arrived <= arrived', UNCHANGED <<stage, taken>>,
         Fits(b, r)
  PROVE  Arrivals' /\ Departures' /\ OrderKept'
<1>1. \A x \in Bufs, q \in Places : x \in Held(q)' <=> IF x = b THEN q = r ELSE x \in Held(q)
  BY Zenon, MoveEffect DEF FlowInv
<1>2. \A q \in Places : \A x \in Held(q)' :
        x \in Bufs /\ IF x = b THEN q = r ELSE x \in Held(q) /\ frame'[x] = frame[x]
  BY Zenon, <1>1, HeldInBufs
<1>3. \A x \in Bufs \ Held(Pool)' : IF x = b THEN r # Pool ELSE x \notin Held(Pool) /\ frame'[x] = frame[x]
  BY Zenon, <1>1, PlaceFacts
<1>4. \A x \in Bufs : frame[x].n \in Nat /\ frame[x].from \in Ports
  BY Zenon, FrameTypes DEF FlowInv
<1>5. frame'[b].n \in Nat /\ frame'[b].from \in Ports
  BY Zenon DEF FrameRecords
<1>6. stage \in Ports /\ arrived \in Nat
  BY Zenon DEF FlowInv, TypeOK
<1>7. \A x \in Bufs \ Held(Pool) : frame[x].n <= arrived
  BY Zenon DEF FlowInv, Arrivals
<1>8. \A q \in Places \ {Pool} : \A x \in Held(q) : x \notin Held(Pool)
  BY Zenon, HeldOnce, HeldInBufs, PlaceFacts DEF FlowInv
<1>9. Arrivals'
  <2>1. ASSUME NEW p \in Ports, NEW x \in Held(Rx(p))' PROVE CameBy(frame[x], p)'
    <3>1. CASE x = b
      BY Zenon, <1>2, <2>1, <3>1, PlaceFacts DEF Fits
    <3>2. CASE x # b
      <4>1. x \in Held(Rx(p)) /\ frame'[x] = frame[x]
        BY Zenon, <1>2, <2>1, <3>2, PlaceFacts
      <4>2. CameBy(frame[x], p)
        BY Zenon, <4>1 DEF FlowInv, Arrivals
      <4> QED
        BY Zenon, <4>1, <4>2, HeardMore
    <3> QED
      BY Zenon, <3>1, <3>2
  <2>2. ASSUME NEW x \in Held(InHand)'
        PROVE  /\ taken' /\ CameBy(frame[x], stage)'
               /\ \A c \in Held(Rx(stage))' : frame'[x].n < frame'[c].n
    <3>1. x \in Bufs /\ x # b /\ x \in Held(InHand) /\ frame'[x] = frame[x]
      BY Zenon, <1>2, <2>2, PlaceFacts
    <3>2. taken /\ CameBy(frame[x], stage) /\ \A c \in Held(Rx(stage)) : frame[x].n < frame[c].n
      BY Zenon, <3>1 DEF FlowInv, Arrivals
    <3>3. CameBy(frame[x], stage)'
      <4>1. CameBy(frame'[x], stage) /\ stage' = stage
        BY Zenon, <3>1, <3>2
      <4> QED
        BY Zenon, <1>6, <4>1 DEF CameBy
    <3>4. ASSUME NEW c \in Held(Rx(stage))' PROVE frame'[x].n < frame'[c].n
      <4>1. CASE c = b
        <5>1. frame'[c].n > arrived
          BY Zenon, <1>2, <1>6, <3>4, <4>1, PlaceFacts DEF Fits
        <5>2. frame[x].n <= arrived
          BY Zenon, <1>7, <1>8, <3>1, PlaceFacts
        <5> QED
          BY SMTT(60), <1>4, <1>5, <1>6, <3>1, <4>1, <5>1, <5>2
      <4>2. CASE c # b
        BY Zenon, <1>2, <1>6, <3>1, <3>2, <3>4, <4>2, PlaceFacts
      <4> QED
        BY Zenon, <4>1, <4>2
    <3> QED
      BY Zenon, <3>2, <3>3, <3>4
  <2>3. ASSUME NEW x \in Bufs \ Held(Pool)' PROVE frame'[x].n <= arrived' /\ frame'[x].pay \in Frames
    <3>1. CASE x = b
      BY Zenon, <1>3, <2>3, <3>1 DEF Fits
    <3>2. CASE x # b
      <4>1. x \in Bufs \ Held(Pool) /\ frame'[x] = frame[x]
        BY Zenon, <1>3, <2>3, <3>2
      <4>2. frame[x].n <= arrived /\ frame[x].pay \in Frames
        BY Zenon, <4>1 DEF FlowInv, Arrivals
      <4> QED
        BY <1>4, <1>6, <4>1, <4>2
    <3> QED
      BY Zenon, <3>1, <3>2
  <2>4. ASSUME NEW x \in Bufs \ Held(Pool)', NEW c \in Bufs \ Held(Pool)', x # c
        PROVE  frame'[x].n # frame'[c].n
    <3>1. CASE x # b /\ c # b
      BY Zenon, <1>3, <2>4, <3>1 DEF FlowInv, Arrivals
    <3>2. CASE x = b \/ c = b
      BY Zenon, <1>3, <2>4, <3>2 DEF Fits
    <3> QED
      BY Zenon, <3>1, <3>2
  <2> QED
    BY Zenon, <2>1, <2>2, <2>3, <2>4 DEF Arrivals
<1>10. Departures'
  <2> SUFFICES ASSUME NEW o \in Ports, NEW x \in Held(Tx(o))' PROVE LeavesBy(frame[x], o)'
    BY Zenon DEF Departures
  <2>1. CASE x = b
    BY Zenon, <1>2, <2>1, PlaceFacts DEF Fits
  <2>2. CASE x # b
    <3>1. x \in Held(Tx(o)) /\ frame'[x] = frame[x]
      BY Zenon, <1>2, <2>2, PlaceFacts
    <3>2. LeavesBy(frame[x], o)
      BY Zenon, <3>1 DEF FlowInv, Departures
    <3> QED
      BY Zenon, <3>1, <3>2, HeardMore
  <2> QED
    BY Zenon, <2>1, <2>2
<1>11. OrderKept'
  <2> SUFFICES ASSUME NEW o \in Ports, NEW x \in Held(Tx(o))',
                      NEW c \in (Held(InHand) \cup Held(Rx(frame[x].from)))',
                      frame'[c].from = frame'[x].from
               PROVE  frame'[x].n < frame'[c].n
    BY Zenon DEF OrderKept
  <2>0. x \in Bufs /\ frame'[x].from \in Ports
    BY Zenon, <1>2, <1>4, <1>5, PlaceFacts
  <2>1. CASE x = b
    <3>1. r = Tx(o)
      BY Zenon, <1>2, <2>1, PlaceFacts
    <3>2. c \in Bufs /\ c # b /\ c \in Held(InHand) \cup Held(Rx(frame'[b].from)) /\ frame'[c] = frame[c]
      BY SMTT(60), <1>2, <2>0, <2>1, <3>1, PlaceFacts
    <3> QED
      BY Zenon, <2>1, <3>1, <3>2 DEF Fits
  <2>2. CASE x # b
    <3>1. x \in Held(Tx(o)) /\ frame'[x] = frame[x] /\ frame[x].n <= arrived
      BY Zenon, <1>2, <1>7, <1>8, <2>0, <2>2, PlaceFacts
    <3>2. CASE c = b
      <4>1. frame'[c].n > arrived
        BY Zenon, <1>2, <2>0, <3>2, PlaceFacts DEF Fits
      <4> QED
        BY SMTT(60), <1>4, <1>5, <1>6, <2>0, <3>1, <3>2, <4>1
    <3>3. CASE c # b
      <4>1. c \in Held(InHand) \cup Held(Rx(frame[x].from)) /\ frame'[c] = frame[c]
        BY Zenon, <1>2, <2>0, <3>1, <3>3, PlaceFacts
      <4> QED
        BY Zenon, <3>1, <4>1 DEF FlowInv, OrderKept
    <3> QED
      BY Zenon, <3>2, <3>3
  <2> QED
    BY Zenon, <2>1, <2>2
<1> QED
  BY Zenon, <1>9, <1>10, <1>11

LEMMA BlankType == Blank \in FrameRecords
  BY DEF Blank, FrameRecords, Ports

LEMMA InitFlowInv == ASSUME Init PROVE FlowInv
<1>1. \A b \in Bufs, q \in Places : b \in Held(q) <=> q = Pool
  BY Zenon, OnlyFacts, PlaceFacts DEF Init, Held
<1>2. TypeOK
  <2>1. frame \in [Bufs -> FrameRecords]
    BY Zenon, BlankType DEF Init
  <2>2. refs \in [Bufs -> [Places -> Nat]]
    BY Zenon, OnlyFacts, PlaceFacts DEF Init
  <2>3. /\ count \in [received : Nat, passed : Nat, dropped : Nat]
        /\ arrived \in Nat
    BY Zenon DEF Init
  <2>4. neighbor \in [Ports -> Macs \cup {Nil}] /\ heard \in [Ports -> SUBSET Macs]
    BY Zenon DEF Init
  <2>5. stage \in Ports /\ taken \in BOOLEAN /\ off \in BOOLEAN
    BY Zenon DEF Init, Ports
  <2> QED
    BY Zenon, <2>1, <2>2, <2>3, <2>4, <2>5 DEF TypeOK
<1>3. OneOwner /\ NeighborsWereHeard
  BY Zenon, PlaceFacts DEF Init, OneOwner, NeighborsWereHeard
<1>4. \A q \in Places \ {Pool} : Held(q) = {}
  BY Zenon, <1>1, HeldInBufs
<1>5. Arrivals /\ Departures /\ OrderKept
  BY <1>1, <1>4, PlaceFacts DEF Arrivals, Departures, OrderKept
<1> QED
  BY Zenon, <1>2, <1>3, <1>5 DEF FlowInv

LEMMA ArriveKeepsFlowInv ==
  ASSUME FlowInv, NEW p \in Ports, Arrive(p)
  PROVE  FlowInv'
<1>0. TypeOK /\ OneOwner
  BY Zenon DEF FlowInv
<1>2. PICK b \in Bufs : b \in Held(Pool) /\ b = CHOOSE x \in Held(Pool) : TRUE
  BY Zenon, HeldInBufs, PlaceFacts DEF Arrive
<1>1. PICK t \in {x \in Traffic : x.port = p} :
        /\ refs' = Moved(b, Pool, Rx(p))
        /\ frame' = [frame EXCEPT ![b] = [src |-> t.src, dst |-> Broadcast, pay |-> t.pay,
                                          ttl |-> t.pay.ttl, n |-> arrived + 1, from |-> p,
                                          off |-> FALSE]]
        /\ heard' = [heard EXCEPT ![p] = @ \cup {t.src}]
  BY ZenonT(60), <1>2 DEF Arrive
<1>3. t.src \in Macs /\ t.pay \in Frames /\ t.pay.ttl \in 0..255
  BY PathAssumption
<1>4. refs' = [refs EXCEPT ![b] = Only(Rx(p))]
  BY Zenon, <1>0, <1>1, <1>2, MoveIsOnly, PlaceFacts
<1>5. OneOwner' /\ refs' \in [Bufs -> [Places -> Nat]]
  BY Zenon, <1>0, <1>2, <1>4, MoveEffect, PlaceFacts
<1>6. frame \in [Bufs -> FrameRecords] /\ heard \in [Ports -> SUBSET Macs] /\ arrived \in Nat
  BY Zenon, <1>0 DEF TypeOK
<1>7. /\ frame'[b] = [src |-> t.src, dst |-> Broadcast, pay |-> t.pay, ttl |-> t.pay.ttl,
                      n |-> arrived + 1, from |-> p, off |-> FALSE]
      /\ \A x \in Bufs : x # b => frame'[x] = frame[x]
  BY ZenonT(60), <1>1, <1>2, <1>6
<1>8. frame'[b] \in FrameRecords
  BY <1>3, <1>6, <1>7 DEF FrameRecords
<1>9. frame' \in [Bufs -> FrameRecords]
  BY Zenon, <1>1, <1>2, <1>6, <1>8
<1>10. heard' \in [Ports -> SUBSET Macs] /\ t.src \in heard'[p]
       /\ \A o \in Ports : heard[o] \subseteq heard'[o]
  BY <1>1, <1>3, <1>6
<1>11. arrived' = arrived + 1 /\ UNCHANGED <<stage, taken, off, neighbor, count>>
  BY Zenon DEF Arrive
<1>a. arrived' \in Nat /\ arrived <= arrived'
  BY <1>6, <1>11
<1>12. TypeOK'
  BY Zenon, <1>0, <1>5, <1>9, <1>10, <1>11, <1>a DEF TypeOK
<1>13. NeighborsWereHeard'
  BY Zenon, <1>10, <1>11 DEF FlowInv, NeighborsWereHeard
<1>14. Fits(b, Rx(p))
  <2>0. /\ frame'[b].from = p /\ frame'[b].src = t.src /\ frame'[b].n = arrived + 1
        /\ frame'[b].pay = t.pay /\ frame'[b].ttl = t.pay.ttl
    BY SMTT(60), <1>7
  <2>1. CameBy(frame[b], p)' /\ frame'[b].n = arrived + 1 /\ frame'[b].pay \in Frames
    BY Zenon, <1>3, <1>10, <2>0 DEF CameBy
  <2>2. \A c \in Bufs \ Held(Pool) : frame[c].n <= arrived /\ frame[c].n \in Nat
    BY Zenon, <1>0, FrameTypes DEF FlowInv, Arrivals
  <2> QED
    BY SMTT(60), <1>6, <1>11, <2>1, <2>2, PlaceFacts DEF Fits
<1>15. Arrivals' /\ Departures' /\ OrderKept'
  <2>1. Rx(p) \in Places \ {InHand}
    BY Zenon, PlaceFacts
  <2> QED
    BY Zenon, <1>2, <1>4, <1>7, <1>8, <1>10, <1>11, <1>a, <1>14, <2>1, MoveKeepsFrames
<1> QED
  BY Zenon, <1>2, <1>5, <1>12, <1>13, <1>15 DEF FlowInv

\* A buffer goes back to the pool.
LEMMA FreeKeepsFrames ==
  ASSUME FlowInv, NEW q \in Places \ {Pool}, NEW b \in Held(q),
         refs' = Moved(b, q, Pool), frame' = [frame EXCEPT ![b] = Blank],
         UNCHANGED <<stage, taken, heard, arrived>>
  PROVE  /\ OneOwner' /\ Arrivals' /\ Departures' /\ OrderKept'
         /\ refs' \in [Bufs -> [Places -> Nat]] /\ frame' \in [Bufs -> FrameRecords]
<1>0. TypeOK /\ OneOwner /\ b \in Bufs
  BY Zenon, HeldInBufs DEF FlowInv
<1>1. refs' = [refs EXCEPT ![b] = Only(Pool)]
  BY Zenon, <1>0, MoveIsOnly, PlaceFacts
<1>2. OneOwner' /\ refs' \in [Bufs -> [Places -> Nat]]
  BY Zenon, <1>0, <1>1, MoveEffect, PlaceFacts
<1>3. frame \in [Bufs -> FrameRecords] /\ arrived \in Nat
  BY Zenon, <1>0 DEF TypeOK
<1>4. /\ frame' \in [Bufs -> FrameRecords] /\ frame'[b] \in FrameRecords
      /\ \A x \in Bufs : x # b => frame'[x] = frame[x]
  BY Zenon, <1>0, <1>3, BlankType
<1>5. Fits(b, Pool)
  BY Zenon, PlaceFacts DEF Fits
<1>6. Arrivals' /\ Departures' /\ OrderKept'
  <2>1. Pool \in Places \ {InHand} /\ arrived' \in Nat /\ arrived <= arrived'
    BY <1>3, PlaceFacts
  <2>2. \A p \in Ports : heard[p] \subseteq heard'[p]
    BY Zenon
  <2> QED
    BY Zenon, <1>0, <1>1, <1>4, <1>5, <2>1, <2>2, MoveKeepsFrames
<1> QED
  BY Zenon, <1>2, <1>4, <1>6

LEMMA TxDoneKeepsFlowInv ==
  ASSUME FlowInv, NEW p \in Ports, TxDone(p)
  PROVE  FlowInv'
<1>1. PICK b \in Held(Tx(p)) : refs' = Moved(b, Tx(p), Pool) /\ frame' = [frame EXCEPT ![b] = Blank]
  BY Zenon DEF TxDone
<1>2. Tx(p) \in Places \ {Pool}
  BY Zenon, PlaceFacts
<1>3. UNCHANGED <<stage, taken, off, neighbor, heard, count, arrived>>
  BY Zenon DEF TxDone
<1>4. /\ OneOwner' /\ Arrivals' /\ Departures' /\ OrderKept'
      /\ refs' \in [Bufs -> [Places -> Nat]] /\ frame' \in [Bufs -> FrameRecords]
  BY Zenon, <1>1, <1>2, <1>3, FreeKeepsFrames
<1>5. TypeOK' /\ NeighborsWereHeard'
  BY Zenon, <1>3, <1>4 DEF FlowInv, TypeOK, NeighborsWereHeard
<1> QED
  BY Zenon, <1>4, <1>5 DEF FlowInv

-----------------------------------------------------------------------------
(* One packet.                                                               *)

\* The neighbour that is learned has been heard on its port and is not the port.
LEMMA LearnKeepsNeighbors ==
  ASSUME FlowInv, NEW b \in Held(InHand), NEW o \in Ports,
         neighbor' = learn_neighbor_mac(b, stage, o), UNCHANGED heard
  PROVE  NeighborsWereHeard' /\ neighbor' \in [Ports -> Macs \cup {Nil}]
<1>0. stage \in Ports /\ neighbor \in [Ports -> Macs \cup {Nil}] /\ heard \in [Ports -> SUBSET Macs]
  BY Zenon DEF FlowInv, TypeOK
<1>1. frame[b].src \in heard[stage] /\ frame[b].src \in Macs
  BY Zenon, <1>0 DEF FlowInv, Arrivals, CameBy
<1>2. \/ neighbor' = neighbor
      \/ neighbor' = [neighbor EXCEPT ![stage] = frame[b].src] /\ frame[b].src # stage
  BY Zenon DEF learn_neighbor_mac
<1> QED
  BY Zenon, <1>0, <1>1, <1>2 DEF FlowInv, NeighborsWereHeard

\* The port a packet of the present burst leaves by.
RightPort(b, o) ==
  stage = "in" => (o = "exc" <=> ~off /\ check_is_exception(parsing_pakage(frame[b].pay).port))

\* A packet in hand is sent on port o: it was the oldest of its burst.
LEMMA SendKeepsFrames ==
  ASSUME FlowInv, NEW b \in Oldest(Held(InHand)), NEW o \in Ports, RightPort(b, o),
         NeighborsWereHeard', neighbor' \in [Ports -> Macs \cup {Nil}],
         TtlChecked(b) => frame[b].ttl > 1,
         refs' = Moved(b, InHand, Tx(o)),
         Rewrite(b, o, IF TtlChecked(b) THEN frame[b].ttl - 1 ELSE frame[b].ttl),
         UNCHANGED <<stage, taken, heard, arrived>>
  PROVE  /\ OneOwner' /\ Arrivals' /\ Departures' /\ OrderKept'
         /\ refs' \in [Bufs -> [Places -> Nat]] /\ frame' \in [Bufs -> FrameRecords]
<1> DEFINE ttl == IF TtlChecked(b) THEN frame[b].ttl - 1 ELSE frame[b].ttl
           dst == IF neighbor'[o] # Nil THEN neighbor'[o] ELSE Broadcast
<1>0. TypeOK /\ OneOwner /\ b \in Held(InHand) /\ b \in Bufs
  BY Zenon, HeldInBufs, PlaceFacts DEF FlowInv, Oldest
<1>1. refs' = [refs EXCEPT ![b] = Only(Tx(o))]
  BY Zenon, <1>0, MoveIsOnly, PlaceFacts
<1>2. OneOwner' /\ refs' \in [Bufs -> [Places -> Nat]]
  BY ZenonT(60), <1>0, <1>1, MoveEffect, PlaceFacts
<1>3. frame \in [Bufs -> FrameRecords] /\ off \in BOOLEAN /\ arrived \in Nat
  BY Zenon, <1>0 DEF TypeOK
<1>4. frame[b].ttl = frame[b].pay.ttl /\ frame[b].from = stage
  BY Zenon, <1>0 DEF FlowInv, Arrivals, CameBy
<1>5. frame[b].ttl \in 0..255 /\ frame[b].n \in Nat /\ frame[b].from \in Ports
      /\ frame[b].pay \in Frames \cup {Nil} /\ frame[b] \in FrameRecords
  BY ZenonT(60), <1>0, FrameTypes
<1>6. ttl \in 0..255 /\ (TtlChecked(b) => ttl > 0 /\ ttl = frame[b].pay.ttl - 1)
      /\ (~TtlChecked(b) => ttl = frame[b].pay.ttl)
  <2>1. CASE TtlChecked(b)
    <3>1. ttl = frame[b].ttl - 1 /\ frame[b].ttl > 1
      BY Zenon, <2>1
    <3>2. frame[b].ttl \in 0..255
      BY ZenonT(60), <1>5
    <3> HIDE DEF ttl
    <3>3. ttl \in 0..255 /\ ttl > 0
      BY SMTT(60), <3>1, <3>2
    <3>4. ttl = frame[b].pay.ttl - 1
      BY Zenon, <1>4, <3>1
    <3> QED
      BY Zenon, <2>1, <3>3, <3>4
  <2>2. CASE ~TtlChecked(b)
    BY Zenon, <1>4, <1>5, <2>2
  <2> QED
    BY Zenon, <2>1, <2>2
<1>7. dst \in Macs \cup {Broadcast} /\ dst \in {Broadcast} \cup (heard[o] \ {o})
  BY Zenon DEF NeighborsWereHeard
<1>8. /\ frame'[b] = [frame[b] EXCEPT !.src = o, !.dst = dst, !.ttl = ttl, !.off = off]
      /\ \A x \in Bufs : x # b => frame'[x] = frame[x]
  BY Zenon, <1>0, <1>3 DEF Rewrite
<1> HIDE DEF ttl, dst
<1>9. frame'[b] = [src |-> o, dst |-> dst, pay |-> frame[b].pay, ttl |-> ttl,
                   n |-> frame[b].n, from |-> frame[b].from, off |-> off]
  BY ZenonT(60), <1>5, <1>8 DEF FrameRecords
<1>10. frame'[b] \in FrameRecords
  BY <1>3, <1>5, <1>6, <1>7, <1>9 DEF FrameRecords, Macs
<1>11. frame' \in [Bufs -> FrameRecords]
  <2>1. PICK v : frame' = [frame EXCEPT ![b] = v]
    BY Zenon DEF Rewrite
  <2> QED
    BY Zenon, <1>0, <1>3, <1>10, <2>1
<1>12. LeavesBy(frame[b], o)'
  BY <1>4, <1>6, <1>7, <1>9 DEF LeavesBy, TtlChecked, RightPort
<1>13. b \notin Held(Pool) /\ \A q \in Places \ {Pool} : \A c \in Held(q) : c \in Bufs \ Held(Pool)
  BY Zenon, <1>0, HeldOnce, HeldInBufs, PlaceFacts
<1>14. \A c \in Bufs \ Held(Pool) : c # b => frame[b].n # frame[c].n /\ frame[c].n \in Nat
  BY ZenonT(60), <1>0, <1>13, FrameTypes DEF FlowInv, Arrivals
<1>15. \A c \in Held(InHand) \cup Held(Rx(stage)) : c # b => frame[b].n < frame[c].n
  <2>1. \A c \in Held(InHand) \cup Held(Rx(stage)) : frame[b].n <= frame[c].n \/ frame[b].n < frame[c].n
    BY Zenon, <1>0 DEF Oldest, FlowInv, Arrivals
  <2>2. Rx(stage) \in Places \ {Pool} /\ InHand \in Places \ {Pool}
    BY Zenon, <1>4, <1>5, PlaceFacts
  <2> QED
    BY SMTT(60), <1>5, <1>13, <1>14, <2>1, <2>2
<1>16. Fits(b, Tx(o))
  <2>1. /\ frame'[b].n = frame[b].n /\ frame'[b].pay = frame[b].pay /\ frame'[b].from = stage
        /\ frame[b].n <= arrived /\ frame[b].pay \in Frames
    <3>1. frame'[b].n = frame[b].n /\ frame'[b].pay = frame[b].pay /\ frame'[b].from = frame[b].from
      BY <1>9
    <3> QED
      BY ZenonT(60), <1>0, <1>4, <1>13, <3>1 DEF FlowInv, Arrivals
  <2> QED
    BY Zenon, <1>12, <1>14, <1>15, <2>1, PlaceFacts DEF Fits
<1>17. Arrivals' /\ Departures' /\ OrderKept'
  <2>1. Tx(o) \in Places \ {InHand} /\ arrived' \in Nat /\ arrived <= arrived'
    BY SMTT(60), <1>3, PlaceFacts
  <2>2. \A p \in Ports : heard[p] \subseteq heard'[p]
    BY Zenon
  <2> QED
    BY Zenon, <1>0, <1>1, <1>8, <1>10, <1>16, <2>1, <2>2, MoveKeepsFrames
<1> QED
  BY Zenon, <1>2, <1>11, <1>17

Counts == [received : Nat, passed : Nat, dropped : Nat]
LEMMA DecisionKeepsFlowInv ==
  ASSUME FlowInv, NEW b \in Oldest(Held(InHand)), NEW o \in Ports, RightPort(b, o),
         NEW c \in Counts, NEW send \in BOOLEAN,
         package_sending_decision(send, b, stage, o, c),
         UNCHANGED <<stage, taken, off, heard, arrived>>
  PROVE  FlowInv'
<1>1. b \in Held(InHand) /\ InHand \in Places \ {Pool}
  BY Zenon, PlaceFacts DEF Oldest
<1>2. NeighborsWereHeard' /\ neighbor' \in [Ports -> Macs \cup {Nil}]
  <2>1. neighbor' = neighbor \/ neighbor' = learn_neighbor_mac(b, stage, o)
    BY Zenon DEF package_sending_decision, forward_packet_with_rewrite
  <2>2. neighbor' = neighbor => NeighborsWereHeard' /\ neighbor' \in [Ports -> Macs \cup {Nil}]
    BY Zenon DEF FlowInv, NeighborsWereHeard, TypeOK
  <2> QED
    BY Zenon, <1>1, <2>1, <2>2, LearnKeepsNeighbors
<1> DEFINE Kept ==
      /\ OneOwner' /\ Arrivals' /\ Departures' /\ OrderKept'
      /\ refs' \in [Bufs -> [Places -> Nat]] /\ frame' \in [Bufs -> FrameRecords]
           ttl == IF TtlChecked(b) THEN frame[b].ttl - 1 ELSE frame[b].ttl
<1>3. Free(b) => Kept
  BY Zenon, <1>1, FreeKeepsFrames DEF Free
<1>4. (TtlChecked(b) => frame[b].ttl > 1) /\ refs' = Moved(b, InHand, Tx(o)) /\ Rewrite(b, o, ttl)
        => Kept
  BY Zenon, <1>2, SendKeepsFrames
<1>5. \/ Free(b)
      \/ (TtlChecked(b) => frame[b].ttl > 1) /\ refs' = Moved(b, InHand, Tx(o)) /\ Rewrite(b, o, ttl)
  BY Zenon DEF package_sending_decision, forward_packet_with_rewrite
<1> HIDE DEF Kept, ttl
<1>6. Kept
  BY Zenon, <1>3, <1>4, <1>5
<1>7. count' \in Counts
  <2>1. \/ count' = c
        \/ count' = [c EXCEPT !.passed = @ + 1]
        \/ count' = [c EXCEPT !.passed = @ + 1, !.dropped = @ + 1]
        \/ count' = [c EXCEPT !.dropped = @ + 1]
    BY Zenon DEF package_sending_decision, forward_packet_with_rewrite
  <2>2. /\ c.passed + 1 \in Nat /\ c.dropped + 1 \in Nat
        /\ c = [received |-> c.received, passed |-> c.passed, dropped |-> c.dropped]
    BY DEF Counts
  <2>3. CASE count' = [c EXCEPT !.passed = @ + 1, !.dropped = @ + 1]
    BY Zenon, <2>2, <2>3 DEF Counts
  <2> QED
    BY Zenon, <2>1, <2>2, <2>3 DEF Counts
<1>8. TypeOK'
  BY Zenon, <1>2, <1>6, <1>7 DEF Kept, FlowInv, TypeOK, Counts
<1> QED
  BY Zenon, <1>2, <1>6, <1>8 DEF Kept, FlowInv

-----------------------------------------------------------------------------
(* MainLoop.                                                                 *)

LEMMA PacketKeepsFlowInv ==
  ASSUME FlowInv, ForwardToOut \/ ProcessPacket
  PROVE  FlowInv'
<1>1. count \in Counts /\ [count EXCEPT !.received = @ + 1] \in Counts
  BY DEF FlowInv, TypeOK, Counts
<1>2. CASE ForwardToOut
  <2>1. PICK b \in Oldest(Held(InHand)) : forward_packet_with_rewrite(b, stage, "in", count)
    BY Zenon, <1>2 DEF ForwardToOut
  <2>2. package_sending_decision(TRUE, b, stage, "in", count)
    BY Zenon, <2>1 DEF package_sending_decision
  <2>3. RightPort(b, "in") /\ "in" \in Ports /\ UNCHANGED <<stage, taken, off, heard, arrived>>
    BY Zenon, <1>2 DEF ForwardToOut, RightPort, Ports
  <2> QED
    BY Zenon, <1>1, <2>2, <2>3, DecisionKeepsFlowInv
<1>3. CASE ProcessPacket
  <2> DEFINE c == [count EXCEPT !.received = @ + 1]
  <2>1. PICK b \in Oldest(Held(InHand)) :
          LET x == check_is_exception(parsing_pakage(frame[b].pay).port) IN
          \/ off /\ package_sending_decision(TRUE, b, stage, "out", c)
          \/ ~off /\ x /\ package_sending_decision(TRUE, b, stage, "exc", c)
          \/ /\ ~off /\ ~x
             /\ \E send \in BOOLEAN : package_sending_decision(send, b, stage, "out", c)
    BY Zenon, <1>3 DEF ProcessPacket
  <2>2. c \in Counts
    BY Zenon, <1>1
  <2> HIDE DEF c
  <2>3. PICK o \in Ports, send \in BOOLEAN :
          RightPort(b, o) /\ package_sending_decision(send, b, stage, o, c)
    BY Zenon, <2>1 DEF RightPort, Ports
  <2>4. UNCHANGED <<stage, taken, off, heard, arrived>>
    BY Zenon, <1>3 DEF ProcessPacket
  <2> QED
    BY ZenonT(60), <2>2, <2>3, <2>4, DecisionKeepsFlowInv
<1> QED
  BY Zenon, <1>2, <1>3

LEMMA BurstKeepsFlowInv ==
  ASSUME FlowInv, ReceiveBurst
  PROVE  FlowInv'
<1>0. TypeOK /\ OneOwner /\ stage \in Ports /\ refs \in [Bufs -> [Places -> Nat]]
  BY Zenon DEF FlowInv, TypeOK
<1>1. PICK K \in SUBSET Held(Rx(stage)) :
        /\ \A b \in K, c \in Held(Rx(stage)) \ K : frame[b].n < frame[c].n
        /\ refs' = [b \in Bufs |-> IF b \in K THEN Moved(b, Rx(stage), InHand)[b] ELSE refs[b]]
  BY Zenon DEF ReceiveBurst
<1>2. K \subseteq Bufs
  BY Zenon, <1>0, HeldInBufs, PlaceFacts
<1>3. \A b \in K : Moved(b, Rx(stage), InHand)[b] = Only(InHand)
  <2> SUFFICES ASSUME NEW b \in K PROVE Moved(b, Rx(stage), InHand)[b] = Only(InHand)
    BY Zenon
  <2>1. Moved(b, Rx(stage), InHand) = [refs EXCEPT ![b] = Only(InHand)]
    BY Zenon, <1>0, MoveIsOnly, PlaceFacts
  <2> QED
    BY Zenon, <1>0, <1>2, <2>1
<1>4. refs' = [b \in Bufs |-> IF b \in K THEN Only(InHand) ELSE refs[b]]
  BY Zenon, <1>1, <1>3
<1>5. OneOwner' /\ refs' \in [Bufs -> [Places -> Nat]]
  BY <1>0, <1>4, OnlyFacts, PlaceFacts DEF OneOwner
<1>6. \A x \in Bufs, q \in Places :
         x \in Held(q)' <=> IF x \in K THEN q = InHand ELSE x \in Held(q)
  BY Zenon, <1>4, OnlyFacts, PlaceFacts DEF Held
<1>7. ~taken /\ taken' /\ UNCHANGED <<frame, stage, neighbor, heard, count, arrived>>
  BY Zenon DEF ReceiveBurst
<1>8. Held(InHand) = {}
  BY Zenon, <1>7 DEF FlowInv, Arrivals
<1>9. TypeOK' /\ NeighborsWereHeard'
  <2>1. off' \in BOOLEAN /\ taken' \in BOOLEAN
    BY Zenon DEF ReceiveBurst
  <2> QED
    BY Zenon, <1>0, <1>5, <1>7, <2>1 DEF FlowInv, TypeOK, NeighborsWereHeard
<1>10. \A x \in Held(InHand)' : x \in K
  BY Zenon, <1>6, <1>8, HeldInBufs, PlaceFacts
<1>11. \A p \in Ports : \A x \in Held(Rx(p))' : x \in Held(Rx(p)) /\ x \notin K
  BY SMTT(60), <1>6, HeldInBufs, PlaceFacts
<1>12. \A x \in Bufs : x \in Held(Pool)' <=> x \in Held(Pool)
  BY Zenon, <1>0, <1>2, <1>6, PlaceFacts, HeldOnce
<1>13. \A o \in Ports : \A x \in Held(Tx(o))' : x \in Held(Tx(o))
  BY SMTT(60), <1>6, HeldInBufs, PlaceFacts
<1>14. \A x : \A p : (CameBy(frame[x], p) <=> CameBy(frame[x], p)')
                     /\ (LeavesBy(frame[x], p) <=> LeavesBy(frame[x], p)')
  BY SMTT(60), <1>7 DEF CameBy, LeavesBy
<1>15. Arrivals'
  <2>1. \A p \in Ports : \A b \in Held(Rx(p))' : CameBy(frame[b], p)'
    BY Zenon, <1>11, <1>14 DEF FlowInv, Arrivals
  <2>2. \A b \in Held(InHand)' :
          CameBy(frame[b], stage)' /\ \A c \in Held(Rx(stage))' : frame[b].n < frame[c].n
    <3>1. \A b \in K : CameBy(frame[b], stage)
      BY Zenon, <1>0 DEF FlowInv, Arrivals
    <3>2. \A b \in K : CameBy(frame[b], stage)'
      BY Zenon, <1>7, <3>1 DEF CameBy
    <3> QED
      BY Zenon, <1>0, <1>1, <1>7, <1>10, <1>11, <3>2
  <2>3. \A b \in Bufs \ Held(Pool)' : frame[b].n <= arrived /\ frame[b].pay \in Frames
    BY Zenon, <1>12 DEF FlowInv, Arrivals
  <2>4. \A b, c \in Bufs \ Held(Pool)' : b # c => frame[b].n # frame[c].n
    BY Zenon, <1>12 DEF FlowInv, Arrivals
  <2> QED
    BY Zenon, <1>7, <2>1, <2>2, <2>3, <2>4 DEF Arrivals
<1>16. Departures'
  BY Zenon, <1>13, <1>14 DEF FlowInv, Departures
<1>17. OrderKept'
  <2> SUFFICES ASSUME NEW o \in Ports, NEW x \in Held(Tx(o))',
                      NEW c \in (Held(InHand) \cup Held(Rx(frame[x].from)))',
                      frame[c].from = frame[x].from
               PROVE  frame[x].n < frame[c].n
    BY Zenon, <1>7 DEF OrderKept
  <2>1. x \in Bufs /\ x \in Held(Tx(o)) /\ frame[x].from \in Ports
    BY SMTT(60), <1>0, <1>13, HeldInBufs, PlaceFacts, FrameTypes
  <2>2. CASE c \in Held(InHand)'
    <3>1. c \in Held(Rx(stage)) /\ frame[c].from = stage
      BY Zenon, <1>0, <1>10, <2>2 DEF FlowInv, Arrivals, CameBy
    <3> QED
      BY Zenon, <2>1, <3>1 DEF FlowInv, OrderKept
  <2>3. CASE c \in Held(Rx(frame[x].from))'
    BY Zenon, <1>7, <1>11, <2>1, <2>3 DEF FlowInv, OrderKept
  <2> QED
    BY Zenon, <2>2, <2>3
<1> QED
  BY Zenon, <1>5, <1>7, <1>9, <1>15, <1>16, <1>17 DEF FlowInv

\* A step that leaves the buffers and the frames alone, with nothing in hand if it
\* goes on to another port.
LEMMA QuietKeepsFlowInv ==
  ASSUME FlowInv, UNCHANGED <<refs, frame, neighbor, heard, count, arrived>>,
         UNCHANGED <<stage, taken, off>> \/ NextBurst
  PROVE  FlowInv'
<1>1. stage' \in Ports /\ taken' \in BOOLEAN /\ off' \in BOOLEAN
  BY Zenon DEF FlowInv, TypeOK, NextBurst, Ports
<1>2. UNCHANGED <<stage, taken>> \/ Held(InHand) = {}
  BY Zenon DEF NextBurst
<1>3. \A q : Held(q)' = Held(q)
  BY Zenon DEF Held
<1>4. TypeOK' /\ OneOwner' /\ NeighborsWereHeard'
  BY Zenon, <1>1 DEF FlowInv, TypeOK, OneOwner, NeighborsWereHeard
<1>5. Arrivals'
  BY <1>2, <1>3 DEF FlowInv, Arrivals, CameBy
<1>6. Departures'
  BY <1>3 DEF FlowInv, Departures, LeavesBy
<1>7. OrderKept'
  BY Zenon, <1>3 DEF FlowInv, OrderKept
<1> QED
  BY Zenon, <1>4, <1>5, <1>6, <1>7 DEF FlowInv

LEMMA NextKeepsFlowInv == ASSUME FlowInv, [Next]_vars PROVE FlowInv'
  BY Zenon, ArriveKeepsFlowInv, TxDoneKeepsFlowInv, PacketKeepsFlowInv, BurstKeepsFlowInv,
     QuietKeepsFlowInv
     DEF Next, MainLoop, NextBurst, vars

\* The invariant of the buffers and frames holds for any traffic.
THEOREM Flow == Spec => []FlowInv
<1>1. Init => FlowInv
  BY Zenon, InitFlowInv
<1>2. FlowInv /\ [Next]_vars => FlowInv'
  BY Zenon, NextKeepsFlowInv
<1> QED
  BY <1>1, <1>2, PTL DEF Spec

\* No packet buffer is freed twice, sent after it was freed, or forgotten
\* (proc_packets.c:61, 76, 90, 216).
THEOREM BuffersHaveOneOwner == Spec => []OneOwner
<1>1. FlowInv => OneOwner
  BY Zenon DEF FlowInv
<1> QED
  BY <1>1, Flow, PTL

\* What is sent carries the port's address, a neighbour's or everybody's, and an
\* IPv4 lifetime one less and above zero (proc_packets.c:43-63).
THEOREM FramesLeaveRewritten == Spec => []SentFramesAreRewritten
<1>1. FlowInv => SentFramesAreRewritten
  BY DEF FlowInv, Departures, LeavesBy, SentFramesAreRewritten
<1> QED
  BY <1>1, Flow, PTL

\* Packets of one port are dealt with in the order they came in.
THEOREM FramesLeaveInOrder == Spec => []OrderKept
<1>1. FlowInv => OrderKept
  BY Zenon DEF FlowInv
<1> QED
  BY <1>1, Flow, PTL

-----------------------------------------------------------------------------
(* What the parser makes of a frame.                                         *)

LEMMA PairFacts ==
  ASSUME NEW S, NEW T, NEW d \in S \X T
  PROVE  d[1] \in S /\ d[2] \in T /\ d = <<d[1], d[2]>>
  OBVIOUS

LEMMA FlagFacts ==
  /\ \A x \in {0, 1, 2, 3, 4} : /\ Has(x, 1) <=> x \in {1, 3}
                                /\ Has(x, 2) <=> x \in {2, 3}
                                /\ Has(x, 4) <=> x = 4
  BY DEF Has

\* Loading two bytes and turning them round gives the number the network means.
LEMMA PortFacts ==
  ASSUME NEW d \in (0..255) \X (0..255)
  PROVE  Swap16(Load16(d)) = 256 * d[1] + d[2]
<1>0. PICK hi, lo : hi = d[1] /\ lo = d[2] /\ hi \in 0..255 /\ lo \in 0..255
  BY ZenonT(60), PairFacts
<1> DEFINE x == hi + 256 * lo
<1>1. Load16(d) = x
  BY ZenonT(60), <1>0 DEF Load16
<1>2. x % 256 = hi /\ x \div 256 = lo
  BY <1>0
<1> HIDE DEF x
<1>3. Swap16(x) = hi * 256 + lo
  BY ZenonT(60), <1>2 DEF Swap16
<1>4. hi * 256 + lo = 256 * hi + lo
  BY <1>0
<1> QED
  BY ZenonT(60), <1>0, <1>1, <1>3, <1>4

\* The layers the packet type names, from the flags tested one at a time.
LEMMA LayerFacts ==
  ASSUME NEW f \in Frames
  PROVE  /\ Has(rte_net_get_ptype(f).l3, RTE_PTYPE_L3_IPV4) <=> f.ip = 4
         /\ Has(rte_net_get_ptype(f).l3, RTE_PTYPE_L3_IPV6) <=> f.ip = 6
         /\ f.frag = "no" =>
              /\ Has(rte_net_get_ptype(f).l4, RTE_PTYPE_L4_TCP) <=> f.ip # 0 /\ f.proto = "tcp"
              /\ Has(rte_net_get_ptype(f).l4, RTE_PTYPE_L4_UDP) <=> f.ip # 0 /\ f.proto = "udp"
<1> DEFINE l3 == rte_net_get_ptype(f).l3
           l4 == rte_net_get_ptype(f).l4
<1>1. f.ip \in {0, 4, 6}
  BY PathAssumption
<1>2. l3 = IF f.ip = 4 THEN 1 ELSE IF f.ip = 6 THEN 4 ELSE 0
  BY Zenon DEF rte_net_get_ptype, RTE_PTYPE_L3_IPV4, RTE_PTYPE_L3_IPV6
<1>3. l4 = IF f.ip = 0 THEN 0 ELSE IF f.frag # "no" THEN 3
           ELSE CASE f.proto = "tcp" -> 1 [] f.proto = "udp" -> 2 [] f.proto = "sctp" -> 4
                  [] OTHER -> 0
  BY Zenon DEF rte_net_get_ptype, RTE_PTYPE_L4_TCP, RTE_PTYPE_L4_UDP, RTE_PTYPE_L4_FRAG,
               RTE_PTYPE_L4_SCTP
<1> HIDE DEF l3, l4
<1>4. (Has(l3, 1) <=> f.ip = 4) /\ (Has(l3, 4) <=> f.ip = 6)
  BY <1>1, <1>2, FlagFacts
<1>5. ASSUME f.frag = "no"
      PROVE  /\ Has(l4, 1) <=> f.ip # 0 /\ f.proto = "tcp"
             /\ Has(l4, 2) <=> f.ip # 0 /\ f.proto = "udp"
  BY <1>3, <1>5, FlagFacts
<1> QED
  BY Zenon, <1>4, <1>5 DEF l3, l4, RTE_PTYPE_L3_IPV4, RTE_PTYPE_L3_IPV6, RTE_PTYPE_L4_TCP,
                           RTE_PTYPE_L4_UDP

\* Version and destination of every frame, and the port of one that is whole.
LEMMA ParsedFields ==
  ASSUME NEW f \in Frames
  PROVE  /\ parsing_pakage(f).ip = f.ip
         /\ parsing_pakage(f).dist = (IF f.ip = 0 THEN 0 ELSE f.dst)
         /\ f.frag = "no" =>
              parsing_pakage(f).port = IF HasPort(f) THEN Load16(f.dport) ELSE 0
<1> DEFINE t == rte_net_get_ptype(f)
           v == IF Has(t.l3, RTE_PTYPE_L3_IPV4) THEN 4
                ELSE IF Has(t.l3, RTE_PTYPE_L3_IPV6) THEN 6 ELSE 0
<1>1. parsing_pakage(f).ip = v /\ parsing_pakage(f).dist = (IF v = 0 THEN 0 ELSE f.dst)
      /\ parsing_pakage(f).port =
           IF v # 0 /\ (Has(t.l4, RTE_PTYPE_L4_TCP) \/ Has(t.l4, RTE_PTYPE_L4_UDP))
           THEN Load16(f.dport) ELSE 0
  BY Zenon DEF parsing_pakage
<1>2. f.ip \in {0, 4, 6}
  BY PathAssumption
<1>3. v = f.ip
  BY <1>2, LayerFacts
<1> HIDE DEF v
<1>4. ASSUME f.frag = "no"
      PROVE  v # 0 /\ (Has(t.l4, RTE_PTYPE_L4_TCP) \/ Has(t.l4, RTE_PTYPE_L4_UDP)) <=> HasPort(f)
  BY <1>3, <1>4, LayerFacts DEF HasPort
<1> QED
  BY Zenon, <1>1, <1>3, <1>4

\* The exception test finds the packets to an exception port and no others.
LEMMA ExceptionPort ==
  ASSUME NEW f \in Frames, f.frag = "no"
  PROVE  check_is_exception(parsing_pakage(f).port) <=> \E x \in LIST_EXCEPTION_PORTS : IsTo(f, x)
<1>1. CASE HasPort(f)
  <2>1. f.dport \in (0..255) \X (0..255)
    BY ZenonT(60), PathAssumption
  <2>2. Swap16(Load16(f.dport)) = 256 * f.dport[1] + f.dport[2]
    BY ZenonT(60), <2>1, PortFacts
  <2> QED
    BY <1>1, <2>2, ParsedFields DEF check_is_exception, IsTo, LIST_EXCEPTION_PORTS
<1>2. CASE ~HasPort(f)
  <2>1. Swap16(0) = 0
    BY DEF Swap16
  <2> QED
    BY <1>2, <2>1, ParsedFields DEF check_is_exception, IsTo, LIST_EXCEPTION_PORTS
<1> QED
  BY Zenon, <1>1, <1>2

\* Packets of port_in to an exception port, and no others, leave by the exception
\* port, whatever the setting was for other bursts (proc_packets.c:115, 137, 222).
THEOREM ExceptionsLeaveByTheirPort == Spec => []ExceptionTraffic
<1>1. ASSUME FlowInv PROVE ExceptionTraffic
  <2> SUFFICES ASSUME NEW o \in Ports, NEW b \in Held(Tx(o)),
                      frame[b].from = "in", frame[b].pay.frag = "no"
               PROVE  o = "exc" <=> ~frame[b].off
                                    /\ \E x \in LIST_EXCEPTION_PORTS : IsTo(frame[b].pay, x)
    BY Zenon DEF ExceptionTraffic
  <2>1. LeavesBy(frame[b], o)
    BY Zenon, <1>1 DEF FlowInv, Departures
  <2>2. frame[b].pay \in Frames
    BY Zenon, <1>1, HeldOnce, HeldInBufs, PlaceFacts DEF FlowInv, Arrivals
  <2> QED
    BY Zenon, <2>1, <2>2, ExceptionPort DEF LeavesBy
<1> QED
  BY <1>1, Flow, PTL

\* What the parser reads of a frame, but for the name a query asks for, which is
\* left as what ExtractDomain makes of the bytes.
ReadAsItIs(f) ==
  LET i == parsing_pakage(f) IN
  /\ i.ip = f.ip /\ i.dist = (IF f.ip = 0 THEN 0 ELSE f.dst)
  /\ f.frag = "no" =>
    /\ \A x \in {22, 53, 80} : i.port = Swap16(x) <=> IsTo(f, x)
    /\ i.domain = IF IsQuery(f) /\ f.query # <<>> THEN ExtractDomain(f.query) ELSE <<>>

\* A port read from the frame is compared in network byte order.
LEMMA PortCompared ==
  ASSUME NEW d \in (0..255) \X (0..255)
  PROVE  \A x \in {22, 53, 80} : Load16(d) = Swap16(x) <=> 256 * d[1] + d[2] = x
<1>0. PICK hi, lo : hi = d[1] /\ lo = d[2] /\ hi \in 0..255 /\ lo \in 0..255
  BY Zenon, PairFacts
<1>1. Load16(d) = hi + 256 * lo /\ 256 * d[1] + d[2] = 256 * hi + lo
  BY Zenon, <1>0 DEF Load16
<1>2. ASSUME NEW x \in 0..255 PROVE hi + 256 * lo = x * 256 <=> 256 * hi + lo = x
  <2>1. ASSUME hi + 256 * lo = x * 256 PROVE hi = 0 /\ lo = x
    BY SMTT(60), <1>0, <2>1
  <2>2. ASSUME 256 * hi + lo = x PROVE hi = 0 /\ lo = x
    <3>1. hi \in Nat /\ lo \in Nat /\ x \in Nat /\ x <= 255
      BY <1>0
    <3>2. ~(1 <= hi)
      BY <2>2, <3>1
    <3> QED
      BY <2>2, <3>1, <3>2
  <2>3. 0 + 256 * x = x * 256 /\ 256 * 0 + x = x
    OBVIOUS
  <2> QED
    BY ZenonT(60), <2>1, <2>2, <2>3
<1>3. ASSUME NEW x \in {22, 53, 80} PROVE x \in 0..255 /\ Swap16(x) = x * 256
  BY DEF Swap16
<1> QED
  <2> TAKE x \in {22, 53, 80}
  <2>1. x \in 0..255 /\ Swap16(x) = x * 256
    BY ZenonT(60), <1>3
  <2>2. hi + 256 * lo = x * 256 <=> 256 * hi + lo = x
    BY ZenonT(60), <1>2, <2>1
  <2>3. Load16(d) = Swap16(x) <=> hi + 256 * lo = x * 256
    BY ZenonT(60), <1>1, <2>1
  <2>4. 256 * d[1] + d[2] = x <=> 256 * hi + lo = x
    BY ZenonT(60), <1>1
  <2> QED
    BY Zenon, <2>2, <2>3, <2>4

LEMMA FrameIsReadAsItIs ==
  ASSUME NEW f \in Frames
  PROVE  ReadAsItIs(f)
<1> DEFINE i == parsing_pakage(f)
           t == rte_net_get_ptype(f)
<1>1. i.ip = f.ip /\ i.dist = (IF f.ip = 0 THEN 0 ELSE f.dst)
  BY Zenon, ParsedFields
<1>2. ASSUME f.frag = "no" PROVE \A x \in {22, 53, 80} : i.port = Swap16(x) <=> IsTo(f, x)
  <2>1. f.dport \in (0..255) \X (0..255)
    BY ZenonT(60), PathAssumption
  <2>2. ASSUME NEW x \in {22, 53, 80} PROVE Swap16(x) # 0
    BY DEF Swap16
  <2>3. i.port = IF HasPort(f) THEN Load16(f.dport) ELSE 0
    BY Zenon, <1>2, ParsedFields
  <2>4. ASSUME NEW x \in {22, 53, 80} PROVE i.port = Swap16(x) <=> IsTo(f, x)
    <3>1. Load16(f.dport) = Swap16(x) <=> 256 * f.dport[1] + f.dport[2] = x
      <4>1. PICK d : d = f.dport /\ d \in (0..255) \X (0..255)
        BY Zenon, <2>1
      <4>2. \A y \in {22, 53, 80} : Load16(d) = Swap16(y) <=> 256 * d[1] + d[2] = y
        BY ZenonT(60), <4>1, PortCompared
      <4> QED
        BY ZenonT(60), <4>1, <4>2
    <3> HIDE DEF i
    <3> QED
      BY ZenonT(60), <2>2, <2>3, <3>1 DEF IsTo
  <2> QED
    BY Zenon, <2>4
<1>3. ASSUME f.frag = "no"
      PROVE  i.domain = IF IsQuery(f) /\ f.query # <<>> THEN ExtractDomain(f.query) ELSE <<>>
  <2>1. i.domain = IF Has(t.l4, RTE_PTYPE_L4_UDP) /\ i.port = Swap16(53) /\ f.query # <<>>
                   THEN ExtractDomain(f.query) ELSE <<>>
    BY Zenon, <1>3 DEF parsing_pakage
  <2>2. Has(t.l4, RTE_PTYPE_L4_UDP) <=> f.ip # 0 /\ f.proto = "udp"
    BY Zenon, <1>3, LayerFacts
  <2>3. i.port = Swap16(53) <=> IsTo(f, 53)
    BY Zenon, <1>2, <1>3
  <2> QED
    BY Zenon, <2>1, <2>2, <2>3 DEF IsQuery, IsTo, HasPort
<1> QED
  BY Zenon, <1>1, <1>2, <1>3 DEF ReadAsItIs

-----------------------------------------------------------------------------
(* The name in a DNS query.                                                  *)

N == INSTANCE PacketParserProofs

LEMMA SameNames ==
  \A l : N!Wire(l) = Wire(l) /\ N!Text(l) = Text(l) /\ N!ExtractDomain(l) = ExtractDomain(l)
  BY Zenon DEF N!Wire, Wire, N!Text, Text, N!Dot, Dot, N!ExtractDomain, ExtractDomain,
       N!NameEnd, NameEnd, N!CopyLabels, CopyLabels, N!NextLabel, NextLabel

LEMMA QueryIsRead ==
  ASSUME NEW f \in Frames, IsQuery(f)
  PROVE  Text(f.labels) = IF f.query # <<>> THEN ExtractDomain(f.query) ELSE <<>>
<1>1. PICK l, s : l = f.labels /\ s = f.query
  BY Zenon
<1>2. /\ l \in Seq(Seq(Nat)) /\ \A i \in 1..Len(l) : l[i] # <<>>
      /\ s = Wire(l) \/ (s = <<>> /\ l = <<>>)
      /\ Len(s) <= MaxName /\ MaxName \in Nat
  <2>1. IsWellFormed(f) /\ MaxName \in Nat
    BY ZenonT(60), PathAssumption
  <2>2. /\ f.labels \in Seq(Seq(Nat)) /\ \A i \in 1..Len(f.labels) : f.labels[i] # <<>>
        /\ f.query = Wire(f.labels) \/ (f.query = <<>> /\ f.labels = <<>>)
        /\ Len(f.query) <= MaxName
    BY ZenonT(60), <2>1 DEF IsWellFormed
  <2> QED
    BY ZenonT(60), <1>1, <2>1, <2>2
<1>3. CASE s = Wire(l)
  <2>1. s = N!Wire(l)
    BY ZenonT(60), <1>3, SameNames
  <2>2. N!ExtractDomain(s) = N!Text(l)
    BY ZenonT(60), <1>2, <2>1, N!NameIsRead
  <2>3. s # <<>>
    BY ZenonT(60), <1>2, <2>1, N!WireIsNotEmpty
  <2> QED
    BY ZenonT(60), <1>1, <2>2, <2>3, SameNames
<1>4. CASE s = <<>> /\ l = <<>>
  BY ZenonT(60), <1>1, <1>4, SameNames, N!NoText
<1> QED
  BY ZenonT(60), <1>2, <1>3, <1>4

\* Whatever packet is in hand, the decision is taken by its own address, its own
\* port and, of a whole DNS query and nothing else, the name in it as text
\* (pars_packets.c:26-105).
THEOREM PacketsAreReadAsTheyAre == Spec => []PacketsAreDecidedByWhatTheyAre
<1>1. FlowInv => PacketsAreDecidedByWhatTheyAre
  <2> SUFFICES ASSUME FlowInv, NEW b \in Held(InHand), NEW f, f = frame[b].pay, NEW i, i = parsing_pakage(f)
               PROVE  /\ i.ip = f.ip /\ i.dist = (IF f.ip = 0 THEN 0 ELSE f.dst)
                      /\ f.frag = "no" =>
                        /\ \A x \in {22, 53, 80} : i.port = Swap16(x) <=> IsTo(f, x)
                        /\ i.domain = IF IsQuery(f) THEN Text(f.labels) ELSE <<>>
    BY ZenonT(60) DEF PacketsAreDecidedByWhatTheyAre
  <2>1. f \in Frames
    BY Zenon, HeldOnce, HeldInBufs, PlaceFacts DEF FlowInv, Arrivals
  <2>2. ReadAsItIs(f)
    BY ZenonT(60), <2>1, FrameIsReadAsItIs
  <2>3. /\ i.ip = f.ip /\ i.dist = (IF f.ip = 0 THEN 0 ELSE f.dst)
        /\ f.frag = "no" =>
          /\ \A x \in {22, 53, 80} : i.port = Swap16(x) <=> IsTo(f, x)
          /\ i.domain = IF IsQuery(f) /\ f.query # <<>> THEN ExtractDomain(f.query) ELSE <<>>
    BY ZenonT(60), <2>2 DEF ReadAsItIs
  <2>4. IsQuery(f) => Text(f.labels) = IF f.query # <<>> THEN ExtractDomain(f.query) ELSE <<>>
    BY ZenonT(60), <2>1, QueryIsRead
  <2>5. (IF IsQuery(f) /\ f.query # <<>> THEN ExtractDomain(f.query) ELSE <<>>)
          = IF IsQuery(f) THEN Text(f.labels) ELSE <<>>
    BY Zenon, <2>4
  <2> QED
    BY ZenonT(60), <2>3, <2>5
<1> QED
  BY <1>1, Flow, PTL
=============================================================================
