------------------------- MODULE PacketParserProofs -------------------------
(***************************************************************************)
(* Proofs for PacketParser: the loops of the parser read the name a DNS      *)
(* query was made of, for any labels that make a name no longer than the     *)
(* parser allows.                                                            *)
(***************************************************************************)
EXTENDS PacketParser, Integers, TLAPS

W == INSTANCE WellFoundedInduction

LEMMA Least ==
  ASSUME NEW T, T \subseteq Nat, T # {}
  PROVE  \E m \in T : \A y \in T : m <= y
<1> DEFINE R == W!OpToRel(<, Nat)
<1>1. W!IsWellFoundedOn(R, Nat)
  BY Zenon, W!NatLessThanWellFounded
<1>2. PICK m \in T : \A y \in T : ~(<<y, m>> \in R)
  BY Zenon, <1>1, W!WFMin
<1>3. ASSUME NEW y \in T PROVE m <= y
  <2>1. m \in Nat /\ y \in Nat
    BY Zenon
  <2>2. y < m => <<y, m>> \in R
    BY <2>1 DEF W!OpToRel
  <2>3. ~(y < m)
    BY Zenon, <1>2, <2>2
  <2> QED
    BY <2>1, <2>3
<1> QED
  BY Zenon, <1>3

\* Induction on the natural numbers, for a set that holds 0 and every successor.
LEMMA SetInduction ==
  ASSUME NEW S, 0 \in S, \A n \in Nat : n \in S => n + 1 \in S
  PROVE  Nat \subseteq S
<1> DEFINE T == Nat \ S
<1>1. SUFFICES ASSUME T # {} PROVE FALSE
  BY Zenon
<1>2. PICK m \in T : \A y \in T : m <= y
  BY Zenon, <1>1, Least
<1>3. m \in Nat /\ m # 0
  BY Zenon
<1>4. m - 1 \in Nat /\ ~(m <= m - 1) /\ (m - 1) + 1 = m
  BY <1>3
<1>5. m - 1 \in S
  BY Zenon, <1>2, <1>4
<1> QED
  BY Zenon, <1>4, <1>5

\* One step of the measuring and of the copying loop; what lies ahead is in g.
EndStep(g, s, p) ==
  IF p > Len(s) \/ p > MaxName THEN p
  ELSE IF s[p] = 0 THEN p ELSE g[NextLabel(s, p)]

CopyStep(g, s, p) ==
  IF p > Len(s) THEN <<>>
  ELSE IF s[p] = 0 THEN <<>>
  ELSE (IF p = 1 THEN <<>> ELSE <<Dot>>) \o (SubSeq(s, p + 1, p + s[p]) \o g[NextLabel(s, p)])

LoopStep(kind, g, s, p) == IF kind = "end" THEN EndStep(g, s, p) ELSE CopyStep(g, s, p)

\* The results of a loop from position k on.
IsLoopFrom(kind, g, s, k) == g = [p \in k..(Len(s) + 1) |-> LoopStep(kind, g, s, p)]

LEMMA StepLooksAhead ==
  ASSUME NEW kind, NEW s, NEW p, NEW g, NEW h,
         ~(p > Len(s)) => g[NextLabel(s, p)] = h[NextLabel(s, p)]
  PROVE  LoopStep(kind, g, s, p) = LoopStep(kind, h, s, p)
<1>1. CASE p > Len(s)
  BY Zenon, <1>1 DEF LoopStep, EndStep, CopyStep
<1>2. CASE ~(p > Len(s))
  BY Zenon, <1>2 DEF LoopStep, EndStep, CopyStep
<1> QED
  BY Zenon, <1>1, <1>2

LEMMA LoopExists ==
  ASSUME NEW kind, NEW s \in Seq(Nat)
  PROVE  \E g : IsLoopFrom(kind, g, s, 1)
<1>1. PICK N : N = Len(s) + 1 /\ N \in Nat /\ N >= 1 /\ Len(s) = N - 1 /\ Len(s) \in Nat
  OBVIOUS
<1>2. ASSUME NEW p \in 1..N, ~(p > Len(s))
      PROVE  NextLabel(s, p) \in (p + 1)..N
  <2>1. p \in 1..Len(s)
    BY <1>1, <1>2
  <2>2. s[p] \in Nat
    BY <2>1
  <2> QED
    BY SMTT(60), <1>1, <2>1, <2>2 DEF NextLabel
<1> DEFINE T == {n \in Nat : n < N => \E g : IsLoopFrom(kind, g, s, N - n)}
<1>3. 0 \in T
  <2> DEFINE g == [p \in N..N |-> LoopStep(kind, <<>>, s, p)]
  <2>1. ASSUME NEW p \in N..N PROVE LoopStep(kind, <<>>, s, p) = LoopStep(kind, g, s, p)
    <3>1. p > Len(s)
      BY <1>1
    <3> QED
      BY Zenon, <3>1, StepLooksAhead
  <2>2. g = [p \in N..N |-> LoopStep(kind, g, s, p)]
    BY Zenon, <2>1
  <2>3. N - 0 = N
    BY <1>1
  <2> QED
    BY Zenon, <1>1, <2>2, <2>3 DEF IsLoopFrom
<1>4. ASSUME NEW n \in Nat, n \in T PROVE n + 1 \in T
  <2>0. n + 1 \in Nat
    OBVIOUS
  <2> SUFFICES ASSUME n + 1 < N PROVE \E g : IsLoopFrom(kind, g, s, N - (n + 1))
    BY Zenon, <2>0
  <2>1. PICK k : k = N - n /\ k \in 2..N /\ N - (n + 1) = k - 1 /\ n < N
    BY <1>1
  <2>2. PICK g : g = [p \in k..N |-> LoopStep(kind, g, s, p)]
    BY Zenon, <1>1, <1>4, <2>1 DEF IsLoopFrom
  <2> DEFINE h == [p \in (k - 1)..N |-> IF p = k - 1 THEN LoopStep(kind, g, s, p) ELSE g[p]]
  <2>3. ASSUME NEW p \in (k - 1)..N PROVE h[p] = LoopStep(kind, h, s, p)
    <3>0. N \in Nat /\ k \in Nat /\ k >= 2
      BY <1>1, <2>1
    <3>1. p \in 1..N /\ (p # k - 1 => p \in k..N)
      BY <3>0
    <3>2. h[p] = LoopStep(kind, g, s, p)
      <4>1. CASE p = k - 1
        BY Zenon, <4>1
      <4>2. CASE p # k - 1
        <5>1. g[p] = LoopStep(kind, g, s, p)
          BY Zenon, <2>2, <3>1, <4>2
        <5> QED
          BY Zenon, <4>2, <5>1
      <4> QED
        BY Zenon, <4>1, <4>2
    <3>3. ASSUME ~(p > Len(s)) PROVE g[NextLabel(s, p)] = h[NextLabel(s, p)]
      <4>1. PICK q : q = NextLabel(s, p) /\ q \in (p + 1)..N
        BY Zenon, <1>2, <3>1, <3>3
      <4>2. q \in (k - 1)..N /\ q # k - 1
        BY SMTT(60), <1>1, <2>1, <4>1
      <4> QED
        BY Zenon, <4>1, <4>2
    <3> HIDE DEF h
    <3> QED
      BY Zenon, <3>2, <3>3, StepLooksAhead
  <2>4. h = [p \in (k - 1)..N |-> LoopStep(kind, h, s, p)]
    <3>1. h = [p \in (k - 1)..N |-> h[p]]
      BY Zenon
    <3> HIDE DEF h
    <3> QED
      BY Zenon, <2>3, <3>1
  <2> QED
    BY Zenon, <1>1, <2>1, <2>4 DEF IsLoopFrom
<1>5. PICK n : n = N - 1 /\ n \in Nat /\ n < N /\ N - n = 1
  BY <1>1
<1> QED
  BY ZenonT(60), <1>3, <1>4, <1>5, SetInduction

\* The loops of the parser.
IsEndLoop(g, s) == g = [p \in 1..(Len(s) + 1) |-> EndStep(g, s, p)]
IsCopyLoop(g, s) == g = [p \in 1..(Len(s) + 1) |-> CopyStep(g, s, p)]

LEMMA LoopsAre ==
  ASSUME NEW s \in Seq(Nat)
  PROVE  /\ \E g : NameEnd(s) = g[1] /\ IsEndLoop(g, s)
         /\ \E g : CopyLabels(s) = g[1] /\ IsCopyLoop(g, s)
<1> DEFINE E == CHOOSE g : IsEndLoop(g, s)
           C == CHOOSE g : IsCopyLoop(g, s)
<1>1. IsEndLoop(E, s)
  <2>1. PICK g : IsLoopFrom("end", g, s, 1)
    BY Zenon, LoopExists
  <2>2. IsEndLoop(g, s)
    BY Zenon, <2>1 DEF IsLoopFrom, LoopStep, IsEndLoop
  <2> QED
    BY Zenon, <2>2
<1>2. IsCopyLoop(C, s)
  <2>1. PICK g : IsLoopFrom("copy", g, s, 1)
    BY Zenon, LoopExists
  <2>2. IsCopyLoop(g, s)
    BY Zenon, <2>1 DEF IsLoopFrom, LoopStep, IsCopyLoop
  <2> QED
    BY Zenon, <2>2
<1>3. NameEnd(s) = E[1]
  BY Zenon DEF NameEnd, IsEndLoop, EndStep
<1>4. CopyLabels(s) = C[1]
  BY Zenon DEF CopyLabels, IsCopyLoop, CopyStep
<1> QED
  BY Zenon, <1>1, <1>2, <1>3, <1>4

\* The bytes and the text of a name, label by label.
WireStep(g, l, n) == IF n = 0 THEN <<>> ELSE g[n - 1] \o <<Len(l[n])>> \o l[n]

TextStep(g, l, n) ==
  IF n = 0 THEN <<>> ELSE IF n = 1 THEN l[1] ELSE g[n - 1] \o <<Dot>> \o l[n]

NameStep(kind, g, l, n) == IF kind = "wire" THEN WireStep(g, l, n) ELSE TextStep(g, l, n)

IsNameUpTo(kind, g, l, n) == g = [k \in 0..n |-> NameStep(kind, g, l, k)]

LEMMA NameExists ==
  ASSUME NEW kind, NEW l
  PROVE  \A n \in Nat : \E g : IsNameUpTo(kind, g, l, n)
<1> DEFINE T == {n \in Nat : \E g : IsNameUpTo(kind, g, l, n)}
<1>0. ASSUME NEW k, NEW g, NEW h, k # 0 => g[k - 1] = h[k - 1]
      PROVE  NameStep(kind, g, l, k) = NameStep(kind, h, l, k)
  <2>1. CASE k = 0
    BY Zenon, <2>1 DEF NameStep, WireStep, TextStep
  <2>2. CASE k # 0
    BY Zenon, <1>0, <2>2 DEF NameStep, WireStep, TextStep
  <2> QED
    BY Zenon, <2>1, <2>2
<1>1. 0 \in T
  <2> DEFINE g == [k \in 0..0 |-> NameStep(kind, <<>>, l, k)]
  <2>1. ASSUME NEW k \in 0..0 PROVE NameStep(kind, <<>>, l, k) = NameStep(kind, g, l, k)
    <3>1. k = 0
      OBVIOUS
    <3> QED
      BY Zenon, <1>0, <3>1
  <2>2. g = [k \in 0..0 |-> NameStep(kind, g, l, k)]
    BY Zenon, <2>1
  <2>3. 0 \in Nat
    OBVIOUS
  <2> QED
    BY Zenon, <2>2, <2>3 DEF IsNameUpTo
<1>2. ASSUME NEW n \in Nat, n \in T PROVE n + 1 \in T
  <2>1. PICK g : g = [k \in 0..n |-> NameStep(kind, g, l, k)]
    BY Zenon, <1>2 DEF IsNameUpTo
  <2> DEFINE h == [k \in 0..(n + 1) |-> IF k = n + 1 THEN NameStep(kind, g, l, k) ELSE g[k]]
  <2>2. ASSUME NEW k \in 0..(n + 1) PROVE h[k] = NameStep(kind, h, l, k)
    <3>1. /\ k # n + 1 => k \in 0..n
          /\ k # 0 => k - 1 \in 0..(n + 1) /\ k - 1 # n + 1
      OBVIOUS
    <3>2. h[k] = NameStep(kind, g, l, k)
      <4>1. CASE k = n + 1
        BY Zenon, <4>1
      <4>2. CASE k # n + 1
        <5>1. g[k] = NameStep(kind, g, l, k)
          BY Zenon, <2>1, <3>1, <4>2
        <5> QED
          BY Zenon, <4>2, <5>1
      <4> QED
        BY Zenon, <4>1, <4>2
    <3>3. k # 0 => g[k - 1] = h[k - 1]
      BY Zenon, <3>1
    <3> HIDE DEF h
    <3> QED
      BY Zenon, <1>0, <3>2, <3>3
  <2>3. h = [k \in 0..(n + 1) |-> NameStep(kind, h, l, k)]
    <3>1. h = [k \in 0..(n + 1) |-> h[k]]
      BY Zenon
    <3> HIDE DEF h
    <3> QED
      BY Zenon, <2>2, <3>1
  <2>4. n + 1 \in Nat
    OBVIOUS
  <2> QED
    BY Zenon, <2>3, <2>4 DEF IsNameUpTo
<1> QED
  BY Zenon, <1>1, <1>2, SetInduction

IsWire(g, l) == g = [n \in 0..Len(l) |-> WireStep(g, l, n)]
IsText(g, l) == g = [n \in 0..Len(l) |-> TextStep(g, l, n)]

LEMMA NamesAre ==
  ASSUME NEW X, NEW l \in Seq(X)
  PROVE  /\ \E g : Wire(l) = g[Len(l)] \o <<0>> /\ IsWire(g, l)
         /\ \E g : Text(l) = g[Len(l)] /\ IsText(g, l)
<1> DEFINE U == CHOOSE g : IsWire(g, l)
           V == CHOOSE g : IsText(g, l)
<1>0. Len(l) \in Nat
  OBVIOUS
<1>1. IsWire(U, l)
  <2>1. PICK g : IsNameUpTo("wire", g, l, Len(l))
    BY Zenon, <1>0, NameExists
  <2>2. IsWire(g, l)
    BY Zenon, <2>1 DEF IsNameUpTo, NameStep, IsWire
  <2> QED
    BY Zenon, <2>2
<1>2. IsText(V, l)
  <2>1. PICK g : IsNameUpTo("text", g, l, Len(l))
    BY Zenon, <1>0, NameExists
  <2>2. IsText(g, l)
    BY Zenon, <2>1 DEF IsNameUpTo, NameStep, IsText
  <2> QED
    BY Zenon, <2>2
<1>3. Wire(l) = U[Len(l)] \o <<0>>
  BY Zenon DEF Wire, IsWire, WireStep
<1>4. Text(l) = V[Len(l)]
  BY Zenon DEF Text, IsText, TextStep
<1> QED
  BY Zenon, <1>1, <1>2, <1>3, <1>4

IsPre(u, v) == Len(u) <= Len(v) /\ \A j \in 1..Len(u) : v[j] = u[j]

AddsLabel(u, x, v) ==
  /\ Len(v) = Len(u) + 1 + Len(x)
  /\ v[Len(u) + 1] = Len(x) /\ \A j \in 1..Len(x) : v[Len(u) + 1 + j] = x[j]

IsConcat(w, x, v) ==
  /\ v \in Seq(Nat) /\ Len(v) = Len(w) + Len(x)
  /\ \A j \in 1..Len(w) : v[j] = w[j]
  /\ \A j \in 1..Len(x) : v[Len(w) + j] = x[j]

LEMMA ConcatFacts ==
  ASSUME NEW w \in Seq(Nat), NEW x \in Seq(Nat)
  PROVE  IsConcat(w, x, w \o x)
BY DEF IsConcat

\* What a label adds to a name.
LEMMA LabelFacts ==
  ASSUME NEW u \in Seq(Nat), NEW x \in Seq(Nat), NEW v, v = u \o <<Len(x)>> \o x
  PROVE  v \in Seq(Nat) /\ IsPre(u, v) /\ AddsLabel(u, x, v)
<1>1. PICK w : w = u \o <<Len(x)>>
  BY Zenon
<1>2. /\ w \in Seq(Nat) /\ Len(w) = Len(u) + 1 /\ w[Len(u) + 1] = Len(x)
      /\ \A j \in 1..Len(u) : w[j] = u[j]
  <2>1. PICK k : k = Len(x) /\ k \in Nat
    OBVIOUS
  <2>2. w = u \o <<k>>
    BY Zenon, <1>1, <2>1
  <2>3. /\ w \in Seq(Nat) /\ Len(w) = Len(u) + 1 /\ w[Len(u) + 1] = k
        /\ \A j \in 1..Len(u) : w[j] = u[j]
    BY <2>1, <2>2
  <2> QED
    BY Zenon, <2>1, <2>3
<1>3. /\ v \in Seq(Nat) /\ Len(v) = Len(w) + Len(x) /\ Len(u) \in Nat /\ Len(x) \in Nat
      /\ \A j \in 1..Len(w) : v[j] = w[j]
      /\ \A j \in 1..Len(x) : v[Len(w) + j] = x[j]
  <2>1. v = w \o x /\ w \in Seq(Nat)
    BY Zenon, <1>1, <1>2
  <2>2. Len(u) \in Nat /\ Len(x) \in Nat
    OBVIOUS
  <2>3. IsConcat(w, x, v)
    BY Zenon, <2>1, ConcatFacts
  <2> QED
    BY Zenon, <2>2, <2>3 DEF IsConcat
<1>4. /\ Len(v) = Len(u) + 1 + Len(x) /\ Len(u) <= Len(v)
      /\ Len(u) + 1 \in 1..Len(w) /\ \A j \in 1..Len(u) : j \in 1..Len(w)
  BY <1>2, <1>3
<1>5. /\ Len(v) = Len(u) + 1 + Len(x)
      /\ v[Len(u) + 1] = Len(x) /\ \A j \in 1..Len(x) : v[Len(u) + 1 + j] = x[j]
  BY Zenon, <1>2, <1>3, <1>4
<1> QED
  BY Zenon, <1>2, <1>3, <1>4, <1>5 DEF IsPre, AddsLabel

\* A part of a sequence that reads as another is the other.
LEMMA PartIs ==
  ASSUME NEW s \in Seq(Nat), NEW a \in Nat, NEW x \in Seq(Nat), NEW b, b = Len(x), a + b <= Len(s),
         \A j \in 1..b : s[a + j] = x[j]
  PROVE  SubSeq(s, a + 1, a + b) = x
<1>1. PICK n : n = Len(s) /\ n \in Nat /\ b \in Nat
  OBVIOUS
<1>2. PICK y : y = SubSeq(s, a + 1, a + b)
  BY Zenon
<1>3. PICK m, k : m = a + 1 /\ k = a + b
  BY Zenon
<1>4. m \in Int /\ k \in Int /\ k - m + 1 = b /\ (m <= k \/ b = 0) /\ (~(m <= k) => b = 0)
  BY <1>1, <1>3
<1>5. \A i \in m..k : s[i] \in Nat
  <2>1. \A i \in m..k : i \in 1..n
    BY <1>1, <1>3
  <2>2. \A i \in 1..n : s[i] \in Nat
    BY <1>1
  <2> QED
    BY Zenon, <2>1, <2>2
<1>6. /\ y \in Seq(Nat) /\ Len(y) = IF m <= k THEN k - m + 1 ELSE 0
      /\ \A j \in 1..(k - m + 1) : y[j] = s[m + j - 1]
  <2>1. y = SubSeq(s, m, k)
    BY Zenon, <1>2, <1>3
  <2>2. /\ SubSeq(s, m, k) \in Seq(Nat)
        /\ Len(SubSeq(s, m, k)) = IF m <= k THEN k - m + 1 ELSE 0
        /\ \A j \in 1..(k - m + 1) : SubSeq(s, m, k)[j] = s[m + j - 1]
    BY SMTT(60), <1>1, <1>3
  <2> QED
    BY Zenon, <2>1, <2>2
<1>7. Len(y) = b /\ \A j \in 1..b : y[j] = s[m + j - 1]
  BY Zenon, <1>4, <1>6
<1>8. \A j \in 1..b : m + j - 1 = a + j
  BY <1>1, <1>3
<1>9. \A j \in 1..b : y[j] = x[j]
  BY Zenon, <1>7, <1>8
<1>10. x = [j \in 1..b |-> x[j]] /\ y = [j \in 1..b |-> y[j]]
  BY SMTT(60), <1>6, <1>7
<1> QED
  BY Zenon, <1>2, <1>9, <1>10

\* Where the labels of a name are: at[i] is the place of the length of label i + 1,
\* at[Len(l)] that of the zero.
IsNamed(s, l, at, n) ==
  /\ at[0] = 1 /\ at[n] = Len(s) /\ s[at[n]] = 0
  /\ \A i \in 0..(n - 1) : /\ at[i] \in 1..Len(s) /\ s[at[i]] = Len(l[i + 1])
                          /\ at[i + 1] = at[i] + Len(l[i + 1]) + 1 /\ at[i + 1] <= Len(s)
                          /\ SubSeq(s, at[i] + 1, at[i] + s[at[i]]) = l[i + 1]

LEMMA WireIsNamed ==
  ASSUME NEW l \in Seq(Seq(Nat)), NEW s, s = Wire(l), NEW n, n = Len(l)
  PROVE  s \in Seq(Nat) /\ \E at : IsNamed(s, l, at, n)
<1>1. PICK g : s = g[n] \o <<0>> /\ g = [k \in 0..n |-> WireStep(g, l, k)]
  BY Zenon, NamesAre DEF IsWire
<1>2. n \in Nat /\ \A i \in 0..(n - 1) : l[i + 1] \in Seq(Nat)
  OBVIOUS
<1>3. g[0] = <<>>
  <2>1. 0 \in 0..n
    BY <1>2
  <2> QED
    BY Zenon, <1>1, <2>1 DEF WireStep
<1>4. ASSUME NEW i \in 0..(n - 1)
      PROVE  g[i + 1] = g[i] \o <<Len(l[i + 1])>> \o l[i + 1]
  <2>1. i + 1 \in 0..n /\ i + 1 # 0 /\ (i + 1) - 1 = i
    BY <1>2
  <2>2. g[i + 1] = g[(i + 1) - 1] \o <<Len(l[i + 1])>> \o l[i + 1]
    BY Zenon, <1>1, <2>1 DEF WireStep
  <2> QED
    BY Zenon, <2>1, <2>2
<1> DEFINE Good(m) == g[m] \in Seq(Nat) /\ \A i \in 0..m : IsPre(g[i], g[m]) /\ Len(g[i]) \in Nat
           T == {m \in Nat : m <= n => Good(m)}
<1>5. 0 \in T
  <2>1. Good(0)
    BY <1>3 DEF IsPre
  <2>2. 0 \in Nat
    OBVIOUS
  <2> QED
    BY Zenon, <2>1, <2>2
<1>6. ASSUME NEW m \in Nat, m \in T PROVE m + 1 \in T
  <2>0. m + 1 \in Nat
    OBVIOUS
  <2> SUFFICES ASSUME m + 1 <= n PROVE Good(m + 1)
    BY Zenon, <2>0
  <2>1. m \in 0..(n - 1) /\ m <= n /\ m \in 0..m
    BY <1>2
  <2>2. Good(m) /\ l[m + 1] \in Seq(Nat)
    BY Zenon, <1>2, <1>6, <2>1
  <2>3. g[m + 1] = g[m] \o <<Len(l[m + 1])>> \o l[m + 1]
    BY Zenon, <1>4, <2>1
  <2>4. PICK u, v, x : u = g[m] /\ v = g[m + 1] /\ x = l[m + 1]
    BY Zenon
  <2>5. u \in Seq(Nat) /\ x \in Seq(Nat) /\ v = u \o <<Len(x)>> \o x
    BY Zenon, <2>2, <2>3, <2>4
  <2>6. v \in Seq(Nat) /\ IsPre(u, v)
    BY Zenon, <2>5, LabelFacts
  <2>7. ASSUME NEW i \in 0..(m + 1) PROVE IsPre(g[i], v) /\ Len(g[i]) \in Nat
    <3>1. CASE i = m + 1
      <4>1. Len(v) \in Nat /\ Len(v) <= Len(v)
        BY <2>6
      <4> QED
        BY Zenon, <2>4, <3>1, <4>1 DEF IsPre
    <3>2. CASE i # m + 1
      <4>1. i \in 0..m
        BY <3>2
      <4>2. IsPre(g[i], u) /\ Len(g[i]) \in Nat
        BY Zenon, <2>2, <2>4, <4>1
      <4>3. PICK a, b, c : a = Len(g[i]) /\ b = Len(u) /\ c = Len(v)
        BY Zenon
      <4>4. a \in Nat /\ b \in Nat /\ c \in Nat /\ a <= b /\ b <= c
        <5>1. b \in Nat /\ c \in Nat
          BY <2>5, <2>6, <4>3
        <5> QED
          BY Zenon, <2>6, <4>2, <4>3, <5>1 DEF IsPre
      <4>5. a <= c /\ \A j \in 1..a : j \in 1..b
        BY <4>4
      <4> QED
        BY Zenon, <2>6, <4>2, <4>3, <4>5 DEF IsPre
    <3> QED
      BY Zenon, <3>1, <3>2
  <2> QED
    BY Zenon, <2>4, <2>6, <2>7
<1>7. \A m \in 0..n : Good(m)
  <2>1. \A m \in 0..n : m \in Nat /\ m <= n
    BY <1>2
  <2> HIDE DEF Good
  <2> QED
    BY Zenon, <1>5, <1>6, <2>1, SetInduction
<1>8. PICK t : t = g[n] /\ t \in Seq(Nat) /\ \A i \in 0..n : IsPre(g[i], t) /\ Len(g[i]) \in Nat
  <2>1. n \in 0..n
    BY <1>2
  <2> QED
    BY Zenon, <1>7, <2>1
<1>9. /\ s \in Seq(Nat) /\ Len(s) = Len(t) + 1 /\ s[Len(t) + 1] = 0 /\ Len(t) \in Nat
      /\ \A j \in 1..Len(t) : s[j] = t[j]
  BY <1>1, <1>8
<1> DEFINE at == [i \in 0..n |-> Len(g[i]) + 1]
<1>10. at[0] = 1 /\ at[n] = Len(s) /\ s[at[n]] = 0
  <2>1. 0 \in 0..n /\ n \in 0..n
    BY <1>2
  <2>2. Len(g[0]) + 1 = 1
    BY <1>3
  <2> QED
    BY Zenon, <1>8, <1>9, <2>1, <2>2
<1>11. ASSUME NEW i \in 0..(n - 1)
       PROVE  /\ at[i] \in 1..Len(s) /\ s[at[i]] = Len(l[i + 1])
              /\ at[i + 1] = at[i] + Len(l[i + 1]) + 1 /\ at[i + 1] <= Len(s)
              /\ SubSeq(s, at[i] + 1, at[i] + s[at[i]]) = l[i + 1]
  <2>1. i \in 0..n /\ i + 1 \in 0..n
    BY <1>2
  <2>2. PICK u, v, x : u = g[i] /\ v = g[i + 1] /\ x = l[i + 1]
    BY Zenon
  <2>3. i \in 0..i
    BY <1>2
  <2>4. u \in Seq(Nat) /\ x \in Seq(Nat) /\ v = u \o <<Len(x)>> \o x
    BY Zenon, <1>2, <1>4, <1>7, <2>1, <2>2
  <2>5. /\ v \in Seq(Nat) /\ Len(v) = Len(u) + 1 + Len(x)
        /\ v[Len(u) + 1] = Len(x) /\ \A j \in 1..Len(x) : v[Len(u) + 1 + j] = x[j]
    <3>1. v \in Seq(Nat) /\ AddsLabel(u, x, v)
      BY Zenon, <2>4, LabelFacts
    <3> QED
      BY Zenon, <3>1 DEF AddsLabel
  <2>6. Len(v) <= Len(t) /\ \A j \in 1..Len(v) : t[j] = v[j]
    BY Zenon, <1>8, <2>1, <2>2 DEF IsPre
  <2>7. PICK a, b, c, d : a = Len(u) /\ b = Len(x) /\ c = Len(t) /\ d = Len(v)
    BY Zenon
  <2>8. /\ a \in Nat /\ b \in Nat /\ c \in Nat /\ d = a + 1 + b /\ d <= c
    <3>1. a \in Nat /\ b \in Nat
      BY <2>4, <2>7
    <3> QED
      BY Zenon, <1>9, <2>5, <2>6, <2>7, <3>1
  <2>9. /\ a + 1 \in 1..d /\ a + 1 \in 1..c /\ a + 1 \in 1..(c + 1) /\ d + 1 = (a + 1) + b + 1
        /\ d + 1 <= c + 1
        /\ \A j \in 1..b : a + 1 + j \in 1..d /\ a + 1 + j \in 1..c
    BY <2>8
  <2>10. /\ at[i] = a + 1 /\ at[i + 1] = d + 1 /\ Len(s) = c + 1
    BY Zenon, <1>9, <2>1, <2>2, <2>7
  <2>11. s[a + 1] = b /\ \A j \in 1..b : s[a + 1 + j] = x[j]
    BY Zenon, <1>9, <2>5, <2>6, <2>7, <2>9
  <2>12. SubSeq(s, a + 1 + 1, a + 1 + b) = x
    <3>1. PICK e : e = a + 1
      BY Zenon
    <3>2. e \in Nat /\ e + b <= Len(s)
      BY <2>8, <2>10, <3>1
    <3>3. \A j \in 1..b : s[e + j] = x[j]
      BY Zenon, <2>11, <3>1
    <3>4. SubSeq(s, e + 1, e + b) = x
      BY ZenonT(60), <1>9, <2>4, <2>7, <3>2, <3>3, PartIs
    <3> QED
      BY Zenon, <3>1, <3>4
  <2> HIDE DEF at
  <2> QED
    BY Zenon, <2>2, <2>7, <2>9, <2>10, <2>11, <2>12
<1> QED
  BY ZenonT(60), <1>9, <1>10, <1>11 DEF IsNamed

\* How both loops go from one label to the next.
Goes(s, l, at, n) ==
  /\ at[0] = 1 /\ at[n] = Len(s) /\ s[at[n]] = 0 /\ at[n] \in 1..Len(s) /\ (n # 0 => Len(s) > 1)
  /\ \A i \in 0..(n - 1) : /\ at[i] \in 1..Len(s) /\ s[at[i]] # 0
                          /\ NextLabel(s, at[i]) = at[i + 1] /\ at[i + 1] # 1
                          /\ SubSeq(s, at[i] + 1, at[i] + s[at[i]]) = l[i + 1]

LEMMA NameGoes ==
  ASSUME NEW s \in Seq(Nat), NEW l \in Seq(Seq(Nat)), NEW n, n = Len(l), NEW at,
         IsNamed(s, l, at, n), \A i \in 1..n : l[i] # <<>>
  PROVE  Goes(s, l, at, n)
<1>0. n \in Nat /\ \A i \in 0..(n - 1) : i + 1 \in 1..n
  OBVIOUS
<1>1. /\ at[0] = 1 /\ at[n] = Len(s) /\ s[at[n]] = 0
      /\ \A i \in 0..(n - 1) : /\ at[i] \in 1..Len(s) /\ s[at[i]] = Len(l[i + 1])
                              /\ at[i + 1] = at[i] + Len(l[i + 1]) + 1 /\ at[i + 1] <= Len(s)
                              /\ SubSeq(s, at[i] + 1, at[i] + s[at[i]]) = l[i + 1]
  BY Zenon DEF IsNamed
<1>2. ASSUME NEW i \in 0..(n - 1)
      PROVE  /\ s[at[i]] # 0 /\ NextLabel(s, at[i]) = at[i + 1] /\ at[i + 1] # 1
             /\ at[i + 1] \in 1..Len(s) /\ Len(s) > 1
  <2>1. PICK a, b, c, d : a = at[i] /\ b = Len(l[i + 1]) /\ c = at[i + 1] /\ d = Len(s)
    BY Zenon
  <2>2. b \in Nat /\ b # 0
    <3>1. PICK x : x = l[i + 1] /\ x # <<>> /\ x \in Seq(Nat)
      <4>1. l[i + 1] # <<>>
        BY Zenon, <1>0
      <4>2. l[i + 1] \in Seq(Nat)
        BY <1>0
      <4> QED
        BY Zenon, <4>1, <4>2
    <3>2. Len(x) \in Nat /\ Len(x) # 0
      BY <3>1
    <3> QED
      BY Zenon, <2>1, <3>1, <3>2
  <2>3. d \in Nat
    BY <2>1
  <2>4. a \in 1..d /\ c = a + b + 1 /\ c <= d /\ s[a] = b
    BY Zenon, <1>1, <2>1
  <2>5. c # 1 /\ c \in 1..d /\ d > 1
    BY <2>2, <2>3, <2>4
  <2>6. NextLabel(s, a) = c
    BY Zenon, <2>1, <2>4 DEF NextLabel
  <2> QED
    BY Zenon, <2>1, <2>2, <2>4, <2>5, <2>6
<1>3. at[n] \in 1..Len(s)
  <2>1. CASE n = 0
    <3>1. Len(s) = 1
      BY Zenon, <1>1, <2>1
    <3> QED
      BY <1>1, <3>1
  <2>2. CASE n # 0
    <3>1. n - 1 \in 0..(n - 1) /\ (n - 1) + 1 = n
      BY <1>0, <2>2
    <3> QED
      BY Zenon, <1>2, <3>1
  <2> QED
    BY Zenon, <2>1, <2>2
<1>4. n # 0 => Len(s) > 1
  <2>1. n # 0 => 0 \in 0..(n - 1)
    BY <1>0
  <2> QED
    BY Zenon, <1>2, <2>1
<1> QED
  BY ZenonT(60), <1>1, <1>2, <1>3, <1>4 DEF Goes

\* The measuring loop stops at the zero.
LEMMA EndOfName ==
  ASSUME NEW s \in Seq(Nat), NEW l, NEW n \in Nat, NEW at, Goes(s, l, at, n),
         MaxName \in Nat, Len(s) <= MaxName
  PROVE  NameEnd(s) = Len(s) /\ s[Len(s)] = 0
<1>1. /\ at[0] = 1 /\ at[n] = Len(s) /\ s[at[n]] = 0 /\ at[n] \in 1..Len(s)
      /\ \A i \in 0..(n - 1) : /\ at[i] \in 1..Len(s) /\ s[at[i]] # 0
                              /\ NextLabel(s, at[i]) = at[i + 1]
  BY Zenon DEF Goes
<1>2. PICK g : NameEnd(s) = g[1] /\ g = [p \in 1..(Len(s) + 1) |-> EndStep(g, s, p)]
  BY Zenon, LoopsAre DEF IsEndLoop
<1>3. \A p \in 1..Len(s) : p \in 1..(Len(s) + 1) /\ ~(p > Len(s)) /\ ~(p > MaxName)
  <2>1. PICK d : d = Len(s) /\ d \in Nat /\ d <= MaxName
    OBVIOUS
  <2>2. \A p \in 1..d : p \in 1..(d + 1) /\ ~(p > d) /\ ~(p > MaxName)
    BY <2>1
  <2> QED
    BY Zenon, <2>1, <2>2
<1>4. g[at[n]] = Len(s)
  BY Zenon, <1>1, <1>2, <1>3 DEF EndStep
<1>5. ASSUME NEW i \in 0..(n - 1) PROVE g[at[i]] = g[at[i + 1]]
  <2>1. PICK p : p = at[i] /\ p \in 1..Len(s) /\ s[p] # 0 /\ NextLabel(s, p) = at[i + 1]
    BY Zenon, <1>1
  <2>2. g[p] = g[NextLabel(s, p)]
    BY Zenon, <1>2, <1>3, <2>1 DEF EndStep
  <2> QED
    BY Zenon, <2>1, <2>2
<1> DEFINE T == {k \in Nat : k <= n => g[at[n - k]] = Len(s)}
<1>6. 0 \in T
  <2>1. n - 0 = n /\ 0 \in Nat
    OBVIOUS
  <2> QED
    BY Zenon, <1>4, <2>1
<1>7. ASSUME NEW k \in Nat, k \in T PROVE k + 1 \in T
  <2>1. k + 1 \in Nat /\ (k + 1 <= n => k <= n /\ n - (k + 1) \in 0..(n - 1) /\ (n - (k + 1)) + 1 = n - k)
    OBVIOUS
  <2> QED
    BY Zenon, <1>5, <1>7, <2>1
<1>8. n \in T
  BY Zenon, <1>6, <1>7, SetInduction
<1>9. n <= n /\ n - n = 0
  OBVIOUS
<1> QED
  BY Zenon, <1>1, <1>2, <1>8, <1>9
LEMMA SameSeq ==
  ASSUME NEW x \in Seq(Nat), NEW y \in Seq(Nat), Len(x) = Len(y),
         \A j \in 1..Len(x) : x[j] = y[j]
  PROVE  x = y
<1>1. x = [j \in 1..Len(x) |-> x[j]] /\ y = [j \in 1..Len(x) |-> y[j]]
  OBVIOUS
<1> QED
  BY Zenon, <1>1

LEMMA ConcatEmpty ==
  ASSUME NEW x \in Seq(Nat)
  PROVE  <<>> \o x = x /\ x \o <<>> = x
<1>1. \A y : y = <<>> \o x \/ y = x \o <<>> => y \in Seq(Nat) /\ Len(x) = Len(y) /\ \A j \in 1..Len(x) : x[j] = y[j]
  OBVIOUS
<1> QED
  BY Zenon, <1>1, SameSeq

Associates(x, y, z) == (x \o y) \o z = x \o (y \o z)

LEMMA ConcatAssoc ==
  ASSUME NEW x \in Seq(Nat), NEW y \in Seq(Nat), NEW z \in Seq(Nat)
  PROVE  Associates(x, y, z)
<1>1. PICK u, v, w, t : u = x \o y /\ v = y \o z /\ w = u \o z /\ t = x \o v
  BY Zenon
<1>2. IsConcat(x, y, u) /\ IsConcat(y, z, v)
  BY Zenon, <1>1, ConcatFacts
<1>3. u \in Seq(Nat) /\ v \in Seq(Nat)
  BY Zenon, <1>2 DEF IsConcat
<1>4. IsConcat(u, z, w) /\ IsConcat(x, v, t)
  BY Zenon, <1>1, <1>3, ConcatFacts
<1>5. PICK a, b, c : a = Len(x) /\ b = Len(y) /\ c = Len(z) /\ a \in Nat /\ b \in Nat /\ c \in Nat
  <2>1. Len(x) \in Nat /\ Len(y) \in Nat /\ Len(z) \in Nat
    OBVIOUS
  <2> QED
    BY Zenon, <2>1
<1>6. /\ w \in Seq(Nat) /\ Len(w) = (a + b) + c /\ t \in Seq(Nat) /\ Len(t) = a + (b + c)
      /\ \A j \in 1..a : u[j] = x[j] /\ t[j] = x[j]
      /\ \A j \in 1..b : u[a + j] = y[j] /\ v[j] = y[j]
      /\ \A j \in 1..c : v[b + j] = z[j] /\ w[(a + b) + j] = z[j]
      /\ \A j \in 1..(a + b) : w[j] = u[j]
      /\ \A j \in 1..(b + c) : t[a + j] = v[j]
  BY ZenonT(60), <1>2, <1>4, <1>5 DEF IsConcat
<1>7. (a + b) + c = a + (b + c)
  BY <1>5
<1>8. ASSUME NEW j \in 1..((a + b) + c) PROVE w[j] = t[j]
  <2>1. CASE j <= a
    <3>1. j \in 1..a /\ j \in 1..(a + b)
      BY <1>5, <2>1
    <3> QED
      BY Zenon, <1>6, <3>1
  <2>2. CASE ~(j <= a) /\ j <= a + b
    <3>1. PICK k : k = j - a
      BY Zenon
    <3>2. k \in 1..b /\ k \in 1..(b + c) /\ a + k = j /\ j \in 1..(a + b)
      BY <1>5, <2>2, <3>1
    <3>3. w[j] = y[k] /\ t[j] = y[k]
      BY Zenon, <1>6, <3>2
    <3> QED
      BY Zenon, <3>3
  <2>3. CASE ~(j <= a + b)
    <3>1. PICK k, m : k = j - (a + b) /\ m = b + k
      BY Zenon
    <3>2. k \in 1..c /\ m \in 1..(b + c) /\ a + m = j /\ (a + b) + k = j
      BY <1>5, <2>3, <3>1
    <3>3. w[j] = z[k]
      BY Zenon, <1>6, <3>2
    <3>4. t[j] = v[m] /\ v[m] = z[k]
      BY Zenon, <1>6, <3>1, <3>2
    <3> QED
      BY Zenon, <3>3, <3>4
  <2> QED
    BY Zenon, <2>1, <2>2, <2>3
<1>9. w = t
  BY ZenonT(60), <1>6, <1>7, <1>8, SameSeq
<1> QED
  BY Zenon, <1>1, <1>9 DEF Associates

\* The copying loop leaves the text of the labels.
LEMMA CopyOfName ==
  ASSUME NEW s \in Seq(Nat), NEW l \in Seq(Seq(Nat)), NEW n, n = Len(l), n # 0, NEW at, Goes(s, l, at, n)
  PROVE  CopyLabels(s) = Text(l)
<1>0. n \in Nat /\ \A i \in 0..(n - 1) : l[i + 1] \in Seq(Nat)
  OBVIOUS
<1>1. at[0] = 1 /\ at[n] = Len(s) /\ s[at[n]] = 0 /\ at[n] \in 1..Len(s)
  BY Zenon DEF Goes
<1>1a. ASSUME NEW i \in 0..(n - 1)
       PROVE  /\ at[i] \in 1..Len(s) /\ s[at[i]] # 0
              /\ NextLabel(s, at[i]) = at[i + 1] /\ at[i + 1] # 1
              /\ SubSeq(s, at[i] + 1, at[i] + s[at[i]]) = l[i + 1]
  BY Zenon DEF Goes
<1>2. PICK g : CopyLabels(s) = g[1] /\ g = [p \in 1..(Len(s) + 1) |-> CopyStep(g, s, p)]
  BY Zenon, LoopsAre DEF IsCopyLoop
<1>3. PICK V : Text(l) = V[n] /\ V = [k \in 0..n |-> TextStep(V, l, k)]
  BY Zenon, NamesAre DEF IsText
<1>4. \A p \in 1..Len(s) : p \in 1..(Len(s) + 1) /\ ~(p > Len(s))
  <2>1. PICK d : d = Len(s) /\ d \in Nat
    OBVIOUS
  <2>2. \A p \in 1..d : p \in 1..(d + 1) /\ ~(p > d)
    BY SMTT(60), <2>1
  <2> QED
    BY Zenon, <2>1, <2>2
<1>5. g[at[n]] = <<>>
  BY Zenon, <1>1, <1>2, <1>4 DEF CopyStep
<1>6. ASSUME NEW i \in 0..(n - 1)
      PROVE  g[at[i]] = (IF at[i] = 1 THEN <<>> ELSE <<Dot>>) \o (l[i + 1] \o g[at[i + 1]])
  <2>1. PICK p, q, x : /\ p = at[i] /\ q = at[i + 1] /\ x = l[i + 1] /\ p \in 1..Len(s) /\ s[p] # 0
                       /\ NextLabel(s, p) = q /\ SubSeq(s, p + 1, p + s[p]) = x
    BY Zenon, <1>1a
  <2>2. g[p] = (IF p = 1 THEN <<>> ELSE <<Dot>>) \o (x \o g[q])
    BY Zenon, <1>2, <1>4, <2>1 DEF CopyStep
  <2> QED
    BY Zenon, <2>1, <2>2
<1>7. g[at[0]] = <<>> \o (l[1] \o g[at[1]])
  <2>1. 0 \in 0..(n - 1) /\ 0 + 1 = 1
    BY <1>0
  <2>2. g[at[0]] = (IF at[0] = 1 THEN <<>> ELSE <<Dot>>) \o (l[0 + 1] \o g[at[0 + 1]])
    BY Zenon, <1>6, <2>1
  <2>3. (IF at[0] = 1 THEN <<>> ELSE <<Dot>>) = <<>>
    BY Zenon, <1>1
  <2> QED
    BY Zenon, <2>1, <2>2, <2>3
<1>8. ASSUME NEW i \in 1..(n - 1)
      PROVE  g[at[i]] = <<Dot>> \o (l[i + 1] \o g[at[i + 1]])
  <2>1. i - 1 \in 0..(n - 1) /\ (i - 1) + 1 = i /\ i \in 0..(n - 1)
    BY <1>0
  <2>2. at[i] # 1
    BY Zenon, <1>1a, <2>1
  <2>3. (IF at[i] = 1 THEN <<>> ELSE <<Dot>>) = <<Dot>>
    BY Zenon, <2>2
  <2>4. g[at[i]] = (IF at[i] = 1 THEN <<>> ELSE <<Dot>>) \o (l[i + 1] \o g[at[i + 1]])
    BY Zenon, <1>6, <2>1
  <2> QED
    BY Zenon, <2>3, <2>4
<1>9. <<Dot>> \in Seq(Nat) /\ <<>> \in Seq(Nat)
  BY DEF Dot
<1>10. \A x, y \in Seq(Nat) : x \o y \in Seq(Nat)
  OBVIOUS
<1> DEFINE T == {k \in Nat : k <= n => g[at[n - k]] \in Seq(Nat)}
<1>11. 0 \in T
  <2>1. n - 0 = n /\ 0 \in Nat
    BY <1>0
  <2> QED
    BY Zenon, <1>5, <1>9, <2>1
<1>12. ASSUME NEW k \in Nat, k \in T PROVE k + 1 \in T
  <2>1. k + 1 \in Nat /\ (k + 1 <= n => k <= n /\ n - (k + 1) \in 0..(n - 1) /\ (n - (k + 1)) + 1 = n - k)
    BY <1>0
  <2> SUFFICES ASSUME k + 1 <= n PROVE g[at[n - (k + 1)]] \in Seq(Nat)
    BY Zenon, <2>1
  <2>2. PICK i : i = n - (k + 1) /\ i \in 0..(n - 1) /\ i + 1 = n - k
    BY Zenon, <2>1
  <2>3. PICK x, y, d : x = l[i + 1] /\ y = g[at[i + 1]] /\ d = IF at[i] = 1 THEN <<>> ELSE <<Dot>>
    BY Zenon
  <2>4. x \in Seq(Nat) /\ y \in Seq(Nat) /\ d \in Seq(Nat)
    BY Zenon, <1>0, <1>9, <1>12, <2>1, <2>2, <2>3
  <2>5. g[at[i]] = d \o (x \o y)
    BY Zenon, <1>6, <2>2, <2>3
  <2> QED
    BY Zenon, <1>10, <2>2, <2>4, <2>5
<1>13. \A i \in 0..n : g[at[i]] \in Seq(Nat)
  <2>1. ASSUME NEW i \in 0..n PROVE n - i \in Nat /\ n - i <= n /\ n - (n - i) = i
    BY <1>0
  <2> QED
    BY Zenon, <1>11, <1>12, <2>1, SetInduction
<1> DEFINE U == {k \in Nat : k + 1 <= n => V[k + 1] \in Seq(Nat) /\ V[k + 1] \o g[at[k + 1]] = g[at[0]]}
<1>14. 0 \in U
  <2>1. 0 \in Nat /\ 0 + 1 = 1 /\ 1 # 0 /\ 1 \in 0..n /\ 0 \in 0..(n - 1)
    BY <1>0
  <2>2. PICK x, y : x = l[1] /\ y = g[at[1]] /\ x \in Seq(Nat) /\ y \in Seq(Nat)
    BY Zenon, <1>0, <1>13, <2>1
  <2>3. V[1] = x
    BY Zenon, <1>3, <2>1, <2>2 DEF TextStep
  <2>4. g[at[0]] = x \o y
    <3>1. <<>> \o (x \o y) = x \o y
      BY Zenon, <1>10, <2>2, ConcatEmpty
    <3> QED
      BY Zenon, <1>7, <2>2, <3>1
  <2> QED
    BY Zenon, <2>1, <2>2, <2>3, <2>4
<1>15. ASSUME NEW k \in Nat, k \in U PROVE k + 1 \in U
  <2>0. k + 1 \in Nat
    OBVIOUS
  <2> SUFFICES ASSUME (k + 1) + 1 <= n
               PROVE  V[(k + 1) + 1] \in Seq(Nat) /\ V[(k + 1) + 1] \o g[at[(k + 1) + 1]] = g[at[0]]
    BY Zenon, <2>0
  <2>1. PICK i, m : i = k + 1 /\ m = i + 1
    BY Zenon
  <2>2. /\ k + 1 <= n /\ i \in 1..(n - 1) /\ i \in 0..(n - 1) /\ m \in 0..n /\ i \in 0..n
        /\ m # 0 /\ m # 1 /\ m - 1 = i
    BY <1>0, <2>1
  <2>3. PICK u, x, y : u = V[i] /\ x = l[m] /\ y = g[at[m]]
    BY Zenon
  <2>4. u \in Seq(Nat) /\ x \in Seq(Nat) /\ y \in Seq(Nat) /\ u \o g[at[i]] = g[at[0]]
    BY Zenon, <1>0, <1>13, <1>15, <2>1, <2>2, <2>3
  <2>5. V[m] = (u \o <<Dot>>) \o x
    BY Zenon, <1>3, <2>2, <2>3 DEF TextStep
  <2>6. g[at[i]] = <<Dot>> \o (x \o y)
    BY Zenon, <1>8, <2>1, <2>2, <2>3
  <2>7. PICK d, w, z : d = <<Dot>> /\ w = u \o d /\ z = x \o y
    BY Zenon
  <2>8. d \in Seq(Nat) /\ w \in Seq(Nat) /\ z \in Seq(Nat)
    BY Zenon, <1>9, <1>10, <2>4, <2>7
  <2>9. V[m] = w \o x /\ V[m] \in Seq(Nat) /\ g[at[i]] = d \o z
    BY ZenonT(60), <1>10, <2>4, <2>5, <2>6, <2>7, <2>8
  <2>10. (w \o x) \o y = w \o (x \o y) /\ (u \o d) \o z = u \o (d \o z)
    <3>1. d \in Seq(Nat) /\ w \in Seq(Nat) /\ z \in Seq(Nat) /\ u \in Seq(Nat) /\ x \in Seq(Nat) /\ y \in Seq(Nat)
      BY Zenon, <2>4, <2>8
    <3>2. Associates(w, x, y) /\ Associates(u, d, z)
      BY Zenon, <3>1, ConcatAssoc
    <3> QED
      BY Zenon, <3>2 DEF Associates
  <2>11. V[m] \o y = g[at[0]]
    <3>1. V[m] \o y = w \o z
      BY Zenon, <2>7, <2>9, <2>10
    <3>2. w \o z = u \o g[at[i]]
      BY Zenon, <2>7, <2>9, <2>10
    <3> QED
      BY Zenon, <2>4, <3>1, <3>2
  <2> QED
    BY Zenon, <2>1, <2>3, <2>9, <2>11
<1>16. n - 1 \in Nat /\ (n - 1) + 1 = n /\ n <= n
  BY <1>0
<1>17. V[n] \in Seq(Nat) /\ V[n] \o g[at[n]] = g[at[0]]
  <2>1. n - 1 \in U
    BY Zenon, <1>14, <1>15, <1>16, SetInduction
  <2> QED
    BY Zenon, <1>16, <2>1
<1>18. V[n] \o <<>> = V[n]
  BY Zenon, <1>17, ConcatEmpty
<1>19. V[n] = g[at[0]]
  BY Zenon, <1>5, <1>17, <1>18
<1> QED
  BY Zenon, <1>1, <1>2, <1>3, <1>19

\* The domain extracted from the bytes of a name (pars_packets.c:84-105) is the
\* text of its labels, each but the first behind a dot: the measuring loop stops
\* at the zero and the copying loop passes over every label once.
THEOREM NameIsRead ==
  ASSUME NEW l \in Seq(Seq(Nat)), \A i \in 1..Len(l) : l[i] # <<>>, NEW s, s = Wire(l),
         MaxName \in Nat, Len(s) <= MaxName
  PROVE  ExtractDomain(s) = Text(l)
<1>1. PICK n : n = Len(l) /\ n \in Nat
  OBVIOUS
<1>2. PICK at : s \in Seq(Nat) /\ IsNamed(s, l, at, n)
  BY Zenon, <1>1, WireIsNamed
<1>3. \A i \in 1..n : l[i] # <<>>
  BY Zenon, <1>1
<1>4. Goes(s, l, at, n)
  BY Zenon, <1>1, <1>2, <1>3, NameGoes
<1>5. NameEnd(s) = Len(s) /\ s[Len(s)] = 0
  BY Zenon, <1>1, <1>2, <1>4, EndOfName
<1>6. Len(s) \in Nat /\ Len(s) <= Len(s)
  BY <1>2
<1>7. CASE n # 0
  <2>1. CopyLabels(s) = Text(l)
    BY Zenon, <1>1, <1>2, <1>4, <1>7, CopyOfName
  <2>2. Len(s) > 1
    BY Zenon, <1>4, <1>7 DEF Goes
  <2> QED
    BY Zenon, <1>5, <1>6, <2>1, <2>2 DEF ExtractDomain
<1>8. CASE n = 0
  <2>1. Len(s) = 1 /\ ~(1 > 1)
    <3>1. Len(s) = 1
      BY Zenon, <1>2, <1>8 DEF IsNamed
    <3> QED
      BY <3>1
  <2>2. ExtractDomain(s) = <<>>
    BY Zenon, <1>5, <2>1 DEF ExtractDomain
  <2>3. PICK V : Text(l) = V[n] /\ V = [k \in 0..n |-> TextStep(V, l, k)]
    BY ZenonT(60), <1>1, NamesAre DEF IsText
  <2>4. 0 \in 0..n
    BY <1>8
  <2>5. V[0] = <<>>
    BY Zenon, <2>3, <2>4 DEF TextStep
  <2> QED
    BY Zenon, <1>8, <2>2, <2>3, <2>5
<1> QED
  BY Zenon, <1>7, <1>8
\* There is something to read.
LEMMA WireIsNotEmpty ==
  ASSUME NEW l \in Seq(Seq(Nat))
  PROVE  Wire(l) # <<>>
<1>1. PICK s, n : s = Wire(l) /\ n = Len(l)
  BY Zenon
<1>2. n \in Nat
  BY <1>1
<1>3. PICK at : s \in Seq(Nat) /\ IsNamed(s, l, at, n)
  BY Zenon, <1>1, WireIsNamed
<1>4. PICK d : d = Len(s) /\ d \in Nat
  <2>1. Len(s) \in Nat
    BY <1>3
  <2> QED
    BY Zenon, <2>1
<1>5. at[0] = 1 /\ at[n] = d /\ (0 \in 0..(n - 1) => at[0] \in 1..d)
  BY Zenon, <1>3, <1>4 DEF IsNamed
<1>6. d # 0
  <2>1. CASE n = 0
    BY <1>5, <2>1
  <2>2. CASE n # 0
    <3>1. 0 \in 0..(n - 1)
      BY <1>2, <2>2
    <3>2. 1 \in 1..d
      BY Zenon, <1>5, <3>1
    <3> QED
      BY <1>4, <3>2
  <2> QED
    BY Zenon, <2>1, <2>2
<1>7. s # <<>>
  BY <1>4, <1>6
<1> QED
  BY Zenon, <1>1, <1>7

\* No labels, no text.
LEMMA NoText == Text(<<>>) = <<>>
<1>0. <<>> \in Seq(Seq(Nat)) /\ Len(<<>>) = 0 /\ 0 \in 0..0
  OBVIOUS
<1>1. PICK l : l = <<>> /\ l \in Seq(Seq(Nat)) /\ Len(l) = 0
  <2>1. \A l : l = <<>> => l \in Seq(Seq(Nat)) /\ Len(l) = 0
    OBVIOUS
  <2> QED
    BY Zenon, <2>1
<1>2. PICK V : Text(l) = V[Len(l)] /\ IsText(V, l)
  <2>1. l \in Seq(Seq(Nat))
    BY Zenon, <1>1
  <2> QED
    BY Zenon, <2>1, NamesAre
<1>3. V[0] = <<>>
  BY Zenon, <1>0, <1>1, <1>2 DEF IsText, TextStep
<1> QED
  BY Zenon, <1>1, <1>2, <1>3
=============================================================================
