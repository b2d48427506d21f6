------------------------- MODULE ClassifyPathProofs -------------------------
(***************************************************************************)
(* Proofs about the rules and their verdict (PolicyFilter), the service      *)
(* (Classifier) and the path of a miss through both (ClassifyPath).          *)
(***************************************************************************)
EXTENDS ClassifyPath, TLAPS

-----------------------------------------------------------------------------
(* Sequences.                                                                *)

W == INSTANCE WellFoundedInduction

LEMMA Least ==
  ASSUME NEW T, T \subseteq Nat, T # {}
  PROVE  \E m \in T : \A y \in T : m <= y
<1> DEFINE R == W!OpToRel(<, Nat)
<1>1. W!IsWellFoundedOn(R, Nat)
  BY Zenon, W!NatLessThanWellFounded
<1>2. PICK m \in T : \A y \in T : ~(<<y, m>> \in R)
  BY Zenon, <1>1, W!WFMin
<1>3. ASSUME NEW y \in T PROVE m <= y
  <2>1. m \in Nat /\ y \in Nat
    BY Zenon
  <2>2. y < m => <<y, m>> \in R
    BY <2>1 DEF W!OpToRel
  <2>3. ~(y < m)
    BY Zenon, <1>2, <2>2
  <2> QED
    BY <2>1, <2>3
<1> QED
  BY Zenon, <1>3

\* Induction on the natural numbers, for a set that holds 0 and every successor:
\* a number outside it would have a least one.
LEMMA SetInduction ==
  ASSUME NEW S, 0 \in S, \A n \in Nat : n \in S => n + 1 \in S
  PROVE  Nat \subseteq S
<1> DEFINE T == Nat \ S
<1>1. SUFFICES ASSUME T # {} PROVE FALSE
  BY Zenon
<1>2. PICK m \in T : \A y \in T : m <= y
  BY Zenon, <1>1, Least
<1>3. m \in Nat /\ m # 0
  BY Zenon
<1>4. m - 1 \in Nat /\ ~(m <= m - 1) /\ (m - 1) + 1 = m
  BY <1>3
<1>5. m - 1 \in S
  BY Zenon, <1>2, <1>4
<1> QED
  BY Zenon, <1>4, <1>5

\* The loop of Filtered: one step, and all its intermediate results.
LoopStep(g, s, S, n) ==
  IF n = 0 THEN <<>> ELSE IF s[n] \in S THEN Append(g[n - 1], s[n]) ELSE g[n - 1]

IsLoop(g, s, S, n) == g = [k \in 0..n |-> LoopStep(g, s, S, k)]

\* There are such results, for any number of steps.
LEMMA LoopExists ==
  ASSUME NEW s, NEW S
  PROVE  \A n \in Nat : \E g : IsLoop(g, s, S, n)
<1> DEFINE T == {n \in Nat : \E g : IsLoop(g, s, S, n)}
<1>1. 0 \in T
  <2> DEFINE g == [k \in 0..0 |-> <<>>]
  <2>1. g = [k \in 0..0 |-> LoopStep(g, s, S, k)]
    BY DEF LoopStep
  <2> QED
    BY Zenon, <2>1 DEF IsLoop
<1>2. ASSUME NEW n \in Nat, n \in T PROVE n + 1 \in T
  <2>1. PICK g : g = [k \in 0..n |-> LoopStep(g, s, S, k)]
    BY Zenon, <1>2 DEF IsLoop
  <2> DEFINE h == [k \in 0..n + 1 |-> IF k = n + 1 THEN LoopStep(g, s, S, k) ELSE g[k]]
  <2>2. ASSUME NEW k \in 0..n + 1 PROVE h[k] = LoopStep(h, s, S, k)
    <3>1. k # 0 => k - 1 \in 0..n /\ h[k - 1] = g[k - 1]
      OBVIOUS
    <3>2. h[k] = LoopStep(g, s, S, k)
      <4>1. CASE k = n + 1
        BY <4>1
      <4>2. CASE k # n + 1
        <5>1. k \in 0..n
          BY <4>2
        <5>2. g[k] = LoopStep(g, s, S, k)
          BY Zenon, <5>1, <2>1
        <5> QED
          BY Zenon, <4>2, <5>2
      <4> QED
        BY Zenon, <4>1, <4>2
    <3> HIDE DEF h
    <3> QED
      BY Zenon, <3>1, <3>2 DEF LoopStep
  <2>3. h = [k \in 0..n + 1 |-> LoopStep(h, s, S, k)]
    <3>1. h = [k \in 0..n + 1 |-> h[k]]
      BY Zenon
    <3> HIDE DEF h
    <3> QED
      BY Zenon, <2>2, <3>1
  <2>4. n + 1 \in Nat
    OBVIOUS
  <2> QED
    BY Zenon, <2>3, <2>4 DEF IsLoop
<1> QED
  BY Zenon, <1>1, <1>2, SetInduction

LEMMA FilteredIs ==
  ASSUME NEW X, NEW s \in Seq(X), NEW S
  PROVE  \E g : Filtered(s, S) = g[Len(s)] /\ IsLoop(g, s, S, Len(s))
<1> DEFINE G == CHOOSE g : IsLoop(g, s, S, Len(s))
<1>1. Len(s) \in Nat
  OBVIOUS
<1>2. IsLoop(G, s, S, Len(s))
  BY Zenon, <1>1, LoopExists
<1>3. Filtered(s, S) = G[Len(s)]
  BY Zenon DEF Filtered, IsLoop, LoopStep
<1> QED
  BY Zenon, <1>2, <1>3

\* Filtered keeps the elements that are in S, and no others.
LEMMA FilteredFacts ==
  ASSUME NEW X, NEW s \in Seq(X), NEW S
  PROVE  /\ Filtered(s, S) \in Seq(X)
         /\ Len(Filtered(s, S)) <= Len(s)
         /\ Elems(Filtered(s, S)) = Elems(s) \cap S
<1>0. PICK g : Filtered(s, S) = g[Len(s)] /\ IsLoop(g, s, S, Len(s))
  BY Zenon, FilteredIs
<1>1. Filtered(s, S) = g[Len(s)] /\ g = [k \in 0..Len(s) |-> LoopStep(g, s, S, k)]
  BY Zenon, <1>0 DEF IsLoop
<1> DEFINE Good(n) == /\ g[n] \in Seq(X) /\ Len(g[n]) <= n
                      /\ Elems(g[n]) = {s[i] : i \in 1..n} \cap S
           T == {n \in Nat : n <= Len(s) => Good(n)}
<1>2. 0 \in T
  <2>1. g[0] = <<>>
    BY <1>1 DEF LoopStep
  <2>2. Elems(<<>>) = {} /\ <<>> \in Seq(X) /\ Len(<<>>) <= 0 /\ 1..0 = {}
    BY DEF Elems
  <2> QED
    BY Zenon, <2>1, <2>2
<1>3. ASSUME NEW n \in Nat, n \in T PROVE n + 1 \in T
  <2>0. n + 1 \in Nat
    OBVIOUS
  <2> SUFFICES ASSUME n + 1 <= Len(s) PROVE Good(n + 1)
    BY Zenon, <2>0
  <2>1. n + 1 \in 0..Len(s) /\ n + 1 # 0 /\ (n + 1) - 1 = n /\ n <= Len(s)
    OBVIOUS
  <2>2. g[n + 1] = IF s[n + 1] \in S THEN Append(g[n], s[n + 1]) ELSE g[n]
    BY Zenon, <1>1, <2>1 DEF LoopStep
  <2>3. Good(n)
    BY Zenon, <1>3, <2>1
  <2>4. s[n + 1] \in X
    BY <2>1
  <2>5. {s[i] : i \in 1..n + 1} = {s[i] : i \in 1..n} \cup {s[n + 1]}
    <3>1. 1..n + 1 = 1..n \cup {n + 1}
      OBVIOUS
    <3> QED
      BY Zenon, <3>1
  <2>6. ASSUME NEW t \in Seq(X), NEW x \in X
        PROVE  /\ Append(t, x) \in Seq(X) /\ Len(Append(t, x)) = Len(t) + 1
               /\ Elems(Append(t, x)) = Elems(t) \cup {x}
    <3>1. /\ Append(t, x) \in Seq(X) /\ Len(Append(t, x)) = Len(t) + 1
          /\ DOMAIN Append(t, x) = DOMAIN t \cup {Len(t) + 1}
          /\ \A i \in DOMAIN t : Append(t, x)[i] = t[i]
          /\ Append(t, x)[Len(t) + 1] = x
      OBVIOUS
    <3> QED
      BY ZenonT(60), <3>1 DEF Elems
  <2>7. CASE s[n + 1] \in S
    BY <2>2, <2>3, <2>4, <2>5, <2>6, <2>7
  <2>8. CASE s[n + 1] \notin S
    BY <2>2, <2>3, <2>4, <2>5, <2>8
  <2> QED
    BY Zenon, <2>7, <2>8
<1>4. Len(s) \in Nat /\ Len(s) <= Len(s) /\ 1..Len(s) = DOMAIN s
  OBVIOUS
<1>5. Len(s) \in T
  BY Zenon, <1>2, <1>3, <1>4, SetInduction
<1> QED
  BY ZenonT(60), <1>1, <1>4, <1>5 DEF Elems

\* Of two lists put together every element is there, and no other.
LEMMA AppendFacts ==
  ASSUME NEW X, NEW s \in Seq(X), NEW t \in Seq(X)
  PROVE  Append2(s, t) \in Seq(X) /\ Elems(Append2(s, t)) = Elems(s) \cup Elems(t)
<1> DEFINE u == Filtered(t, Elems(t) \ Elems(s))
<1>1. u \in Seq(X) /\ Elems(u) = Elems(t) \ Elems(s)
  <2>1. Elems(t) \cap (Elems(t) \ Elems(s)) = Elems(t) \ Elems(s)
    BY Zenon
  <2> QED
    BY Zenon, <2>1, FilteredFacts
<1> HIDE DEF u
<1>2. /\ s \o u \in Seq(X) /\ DOMAIN (s \o u) = 1..(Len(s) + Len(u))
      /\ \A i \in 1..Len(s) : (s \o u)[i] = s[i]
      /\ \A i \in 1..Len(u) : (s \o u)[Len(s) + i] = u[i]
  BY <1>1
<1>3. /\ DOMAIN s = 1..Len(s) /\ DOMAIN u = 1..Len(u) /\ Len(s) \in Nat /\ Len(u) \in Nat
  BY <1>1
<1>4. ASSUME NEW i \in 1..(Len(s) + Len(u))
      PROVE  i \in 1..Len(s) \/ \E j \in 1..Len(u) : i = Len(s) + j
  <2>1. CASE i <= Len(s)
    BY <1>3, <2>1
  <2>2. CASE i > Len(s)
    <3>1. i - Len(s) \in 1..Len(u) /\ i = Len(s) + (i - Len(s))
      BY <1>3, <2>2
    <3> QED
      BY Zenon, <3>1
  <2> QED
    BY <1>3, <2>1, <2>2
<1>5. ASSUME NEW j \in 1..Len(u) PROVE Len(s) + j \in 1..(Len(s) + Len(u))
  BY <1>3
<1>6. ASSUME NEW j \in 1..Len(s) PROVE j \in 1..(Len(s) + Len(u))
  BY <1>3
<1>7. Elems(s \o u) = Elems(s) \cup Elems(u)
  <2> DEFINE w == s \o u
  <2>0. DOMAIN w = 1..(Len(s) + Len(u))
    BY Zenon, <1>2
  <2>1. ASSUME NEW x \in Elems(w) PROVE x \in Elems(s) \cup Elems(u)
    <3>1. PICK i \in 1..(Len(s) + Len(u)) : x = w[i]
      BY Zenon, <2>0 DEF Elems
    <3>2. CASE i \in 1..Len(s)
      BY Zenon, <1>2, <1>3, <3>1, <3>2 DEF Elems
    <3>3. CASE \E j \in 1..Len(u) : i = Len(s) + j
      <4>1. PICK j \in 1..Len(u) : i = Len(s) + j
        BY Zenon, <3>3
      <4>2. x = u[j]
        BY Zenon, <1>2, <3>1, <4>1
      <4> QED
        BY Zenon, <1>3, <4>2 DEF Elems
    <3> QED
      BY Zenon, <1>4, <3>2, <3>3
  <2>2. ASSUME NEW x \in Elems(s) PROVE x \in Elems(w)
    <3>1. PICK i \in 1..Len(s) : x = s[i]
      BY Zenon, <1>3 DEF Elems
    <3>2. x = w[i] /\ i \in DOMAIN w
      BY Zenon, <1>2, <1>6, <2>0, <3>1
    <3> QED
      BY Zenon, <3>2 DEF Elems
  <2>3. ASSUME NEW x \in Elems(u) PROVE x \in Elems(w)
    <3>1. PICK j \in 1..Len(u) : x = u[j]
      BY Zenon, <1>3 DEF Elems
    <3>2. x = w[Len(s) + j] /\ Len(s) + j \in DOMAIN w
      BY Zenon, <1>2, <1>5, <2>0, <3>1
    <3> QED
      BY Zenon, <3>2 DEF Elems
  <2> HIDE DEF w
  <2>4. Elems(w) = Elems(s) \cup Elems(u)
    BY Zenon, <2>1, <2>2, <2>3
  <2> QED
    BY Zenon, <2>4 DEF w
<1>8. Append2(s, t) = s \o u
  BY Zenon DEF Append2, u
<1> QED
  BY Zenon, <1>1, <1>2, <1>7, <1>8

\* Where an element is first.
LEMMA FirstFacts ==
  ASSUME NEW X, NEW s \in Seq(X), NEW x \in Elems(s)
  PROVE  /\ First(x, s) \in 1..Len(s) /\ s[First(x, s)] = x
         /\ \A j \in 1..Len(s) : s[j] = x => First(x, s) <= j
<1>1. DOMAIN s = 1..Len(s) /\ Len(s) \in Nat
  OBVIOUS
<1> DEFINE T == {i \in 1..Len(s) : s[i] = x}
<1>2. T \subseteq Nat
  BY <1>1
<1>3. T # {}
  BY Zenon, <1>1 DEF Elems
<1>4. PICK m \in T : \A y \in T : m <= y
  BY Zenon, <1>2, <1>3, Least
<1>5. ASSUME NEW j \in 1..(m - 1) PROVE s[j] # x
  <2>1. j \in 1..Len(s) /\ ~(m <= j)
    BY <1>1, <1>2
  <2> QED
    BY Zenon, <1>4, <2>1
<1>6. \E i \in DOMAIN s : s[i] = x /\ \A j \in 1..(i - 1) : s[j] # x
  BY Zenon, <1>1, <1>5
<1>7. First(x, s) \in DOMAIN s /\ s[First(x, s)] = x /\ \A j \in 1..(First(x, s) - 1) : s[j] # x
  BY Zenon, <1>6 DEF First
<1>8. ASSUME NEW j \in 1..Len(s), s[j] = x PROVE First(x, s) <= j
  <2>1. First(x, s) \in Nat /\ j \in Nat /\ 1 <= j
    BY <1>1, <1>7
  <2>2. ~(First(x, s) <= j) => j \in 1..(First(x, s) - 1)
    BY <2>1
  <2> QED
    BY Zenon, <1>7, <1>8, <2>2
<1> QED
  BY Zenon, <1>1, <1>7, <1>8

-----------------------------------------------------------------------------
(* Tables.                                                                   *)

\* The entries of a table up to the first one that is in E.
Reached(table, E) == {table[i] : i \in {j \in DOMAIN table : \A h \in 1..j : table[h] \notin E}}

\* A table of n entries: those of the list l, and z where the list has ended.
Holds(table, n, l, z) ==
  DOMAIN table = 1..n /\ \A i \in 1..n : table[i] = IF i <= Len(l) THEN l[i] ELSE z

\* The same, with the rest of the list b, from entry n + 1 on, behind l.
HoldsRest(table, n, l, b) ==
  DOMAIN table = 1..n
  /\ \A i \in 1..n : table[i] = IF i <= Len(l) THEN l[i]
                                 ELSE IF n + i <= Len(b) THEN b[n + i] ELSE ""

LEMMA SeqFacts == ASSUME NEW X, NEW s \in Seq(X) PROVE DOMAIN s = 1..Len(s) /\ Len(s) \in Nat
  OBVIOUS

\* An entry in reach of a table that begins with the list is found in it.
LEMMA InReachIsFound ==
  ASSUME NEW X, NEW l \in Seq(X), NEW n \in Nat, NEW E, NEW d \in Elems(l),
         NEW table, DOMAIN table = 1..n, \A i \in 1..n : i <= Len(l) => table[i] = l[i],
         First(d, l) <= n, \A i \in 1..First(d, l) : l[i] \notin E
  PROVE  d \in Reached(table, E)
<1> DEFINE f == First(d, l)
<1>1. f \in 1..Len(l) /\ l[f] = d
  BY Zenon, FirstFacts
<1>2. Len(l) \in Nat
  OBVIOUS
<1> HIDE DEF f
<1>3. ASSUME NEW i \in 1..f PROVE i \in 1..n /\ i <= Len(l)
  BY <1>1, <1>2 DEF f
<1>4. f \in 1..f
  BY <1>1, <1>2
<1>5. \A i \in 1..f : table[i] = l[i]
  BY Zenon, <1>3
<1>6. f \in DOMAIN table /\ table[f] = d /\ \A h \in 1..f : table[h] \notin E
  BY Zenon, <1>1, <1>3, <1>4, <1>5 DEF f
<1> QED
  BY Zenon, <1>6 DEF Reached

\* If the table ends with the list, nothing else is found.
LEMMA Lookup ==
  ASSUME NEW X, NEW l \in Seq(X), NEW n \in Nat, NEW E, NEW d, NEW z \in E,
         NEW table, Holds(table, n, l, z)
  PROVE  d \in Reached(table, E) <=>
           d \in Elems(l) /\ First(d, l) <= n /\ \A i \in 1..First(d, l) : l[i] \notin E
<1>0. DOMAIN table = 1..n /\ \A i \in 1..n : IF i <= Len(l) THEN table[i] = l[i] ELSE table[i] \in E
  BY Zenon DEF Holds
<1>1. ASSUME d \in Reached(table, E)
      PROVE  d \in Elems(l) /\ First(d, l) <= n /\ \A i \in 1..First(d, l) : l[i] \notin E
  <2>1. PICK j \in 1..n : table[j] = d /\ \A h \in 1..j : table[h] \notin E
    BY Zenon, <1>0, <1>1 DEF Reached
  <2>2. j \in 1..j /\ j \in Nat /\ j >= 1 /\ Len(l) \in Nat /\ DOMAIN l = 1..Len(l)
    OBVIOUS
  <2>3. j <= Len(l) /\ l[j] = d
    BY Zenon, <1>0, <2>1, <2>2
  <2>4. j \in 1..Len(l)
    BY <2>2, <2>3
  <2>5. d \in Elems(l)
    BY Zenon, <2>2, <2>3, <2>4 DEF Elems
  <2>6. First(d, l) \in 1..Len(l) /\ First(d, l) <= j
    BY Zenon, <2>3, <2>4, <2>5, FirstFacts
  <2>7. ASSUME NEW i \in 1..First(d, l) PROVE i \in 1..j /\ i \in 1..n /\ i <= Len(l)
    BY <2>2, <2>3, <2>6
  <2>8. First(d, l) <= n
    BY <2>1, <2>2, <2>6
  <2> QED
    BY Zenon, <1>0, <2>1, <2>5, <2>7, <2>8
<1> QED
  BY Zenon, <1>0, <1>1, InReachIsFound

LEMMA SizeFacts ==
  /\ MAX_CATEGORIES \in Nat /\ MAX_CATEGORIES >= 1
  /\ MAX_DOMAINS \in Nat /\ MAX_DOMAINS >= 1 /\ MAX_IP \in Nat /\ MAX_IP >= 1
  /\ MAX_CATEGORIES_BY_TRUST_LVL \in Nat /\ MAX_CATEGORIES_BY_TRUST_LVL >= 1
  BY FilterAssumption

\* The tables of blocked and allowed domains: the lists, as far as they go, and
\* behind the allowed domains what ran over from the blocked ones.
LEMMA DomainTableFacts ==
  ASSUME NEW p, NEW b \in Seq(STRING), b = p.block_domains, NEW a \in Seq(STRING), a = p.allow_domains,
         NEW pol, NEW K, pol = BasePolicy(p, K), NEW n, n = MAX_DOMAINS
  PROVE  /\ Holds(pol.block_domains, n, b, "")
         /\ HoldsRest(pol.allow_domains, n, a, b)
<1> DEFINE v == DomainTables(p)
<1>1. n \in Nat /\ n >= 1
  BY Zenon, SizeFacts
<1>2. /\ v = [i \in 1..2 * n |-> IF i - n \in DOMAIN a THEN a[i - n] ELSE Zeroed(b, 2 * n, "")[i]]
      /\ Zeroed(b, 2 * n, "") = [i \in 1..2 * n |-> IF i <= Len(b) THEN b[i] ELSE ""]
  BY Zenon DEF DomainTables, Zeroed
<1>3. pol.block_domains = SubSeq(v, 1, n) /\ pol.allow_domains = SubSeq(v, n + 1, 2 * n)
  BY Zenon DEF BasePolicy
<1> HIDE DEF v
<1>4. DOMAIN a = 1..Len(a) /\ Len(a) \in Nat /\ Len(b) \in Nat
  OBVIOUS
<1>5. ASSUME NEW i \in 1..2 * n
      PROVE  v[i] = IF i > n /\ i - n <= Len(a) THEN a[i - n] ELSE IF i <= Len(b) THEN b[i] ELSE ""
  <2>1. i - n \in DOMAIN a <=> i > n /\ i - n <= Len(a)
    BY <1>1, <1>4
  <2> QED
    BY Zenon, <1>2, <2>1
<1>6. PICK m, X : m = 2 * n /\ v \in [1..m -> X]
  <2>1. v \in [1..2 * n -> {v[i] : i \in 1..2 * n}]
    BY Zenon, <1>2
  <2> QED
    BY Zenon, <2>1
<1>7. m \in Nat /\ n <= m /\ m = n + n
  BY <1>1, <1>6
<1>8. v \in Seq(X) /\ Len(v) = m
  BY <1>6, <1>7
<1>9. DOMAIN SubSeq(v, 1, n) = 1..n /\ \A i \in 1..n : SubSeq(v, 1, n)[i] = v[i]
  BY <1>1, <1>7, <1>8
<1>10. /\ DOMAIN SubSeq(v, n + 1, 2 * n) = 1..n
       /\ \A i \in 1..n : SubSeq(v, n + 1, 2 * n)[i] = v[n + i]
  <2>1. DOMAIN SubSeq(v, n + 1, m) = 1..n
    BY <1>1, <1>7, <1>8
  <2>2. ASSUME NEW i \in 1..n PROVE SubSeq(v, n + 1, m)[i] = v[n + i]
    <3>1. i \in 1..(m - (n + 1) + 1) /\ (n + 1) + i - 1 = n + i
      BY <1>1, <1>7
    <3>2. SubSeq(v, n + 1, m)[i] = v[(n + 1) + i - 1]
      BY <1>1, <1>7, <1>8, <3>1
    <3> QED
      BY Zenon, <3>1, <3>2
  <2> QED
    BY Zenon, <1>6, <2>1, <2>2
<1>11. ASSUME NEW i \in 1..n
       PROVE  /\ pol.block_domains[i] = IF i <= Len(b) THEN b[i] ELSE ""
              /\ pol.allow_domains[i] = IF i <= Len(a) THEN a[i]
                                        ELSE IF n + i <= Len(b) THEN b[n + i] ELSE ""
  <2>1. PICK j : j = n + i
    BY Zenon
  <2>2. /\ i \in 1..2 * n /\ j \in 1..2 * n
        /\ ~(i > n) /\ j > n /\ j - n = i
    BY <1>1, <2>1
  <2>3. pol.block_domains[i] = v[i] /\ pol.allow_domains[i] = v[j]
    BY Zenon, <1>3, <1>9, <1>10, <2>1, <2>2
  <2>4. v[i] = IF i <= Len(b) THEN b[i] ELSE ""
    BY Zenon, <1>5, <2>2
  <2>5. v[j] = IF j > n /\ j - n <= Len(a) THEN a[j - n] ELSE IF j <= Len(b) THEN b[j] ELSE ""
    BY Zenon, <1>5, <2>2
  <2>6. v[j] = IF i <= Len(a) THEN a[i] ELSE IF j <= Len(b) THEN b[j] ELSE ""
    BY Zenon, <2>2, <2>5
  <2> QED
    BY Zenon, <2>1, <2>3, <2>4, <2>6
<1>12. DOMAIN pol.block_domains = 1..n /\ DOMAIN pol.allow_domains = 1..n
  BY Zenon, <1>3, <1>9, <1>10
<1> QED
  BY Zenon, <1>11, <1>12 DEF Holds, HoldsRest

\* The table of addresses of one version.
LEMMA IpTableFacts ==
  ASSUME NEW s \in Seq(Addresses), NEW v \in {4, 6}, NEW l, l = OfVersion(s, v), NEW n, n = MAX_IP
  PROVE  /\ l \in Seq(Addresses) /\ Elems(l) = {x \in Elems(s) : x.ver = v}
         /\ Holds(IpTable(s, v), n, l, NoIp(v))
<1>1. l \in Seq(Addresses) /\ Elems(l) = {x \in Elems(s) : x.ver = v}
  <2>1. Elems(s) \cap {x \in Elems(s) : x.ver = v} = {x \in Elems(s) : x.ver = v}
    BY Zenon
  <2> QED
    BY Zenon, <2>1, FilteredFacts DEF OfVersion
<1>2. n \in Nat /\ Len(l) \in Nat
  BY <1>1, SizeFacts
<1> DEFINE m == Min2(Len(l), n)
           u == SubSeq(l, 1, m)
<1>3. m \in Nat /\ m <= Len(l) /\ m <= n /\ (m = Len(l) \/ m = n)
  BY <1>2 DEF Min2
<1>4. IpTable(s, v) = [i \in 1..n |-> IF i <= Len(u) THEN u[i] ELSE NoIp(v)]
  BY Zenon DEF IpTable, Zeroed
<1> HIDE DEF m
<1>5. Len(u) = m /\ \A i \in 1..m : u[i] = l[i]
  BY <1>1, <1>2, <1>3
<1> HIDE DEF u
<1>6. ASSUME NEW i \in 1..n
      PROVE  IpTable(s, v)[i] = IF i <= Len(l) THEN l[i] ELSE NoIp(v)
  <2>1. /\ i <= Len(u) <=> i <= Len(l)
        /\ i <= Len(u) => i \in 1..m
    BY <1>2, <1>3, <1>5
  <2>2. IpTable(s, v)[i] = IF i <= Len(u) THEN u[i] ELSE NoIp(v)
    BY Zenon, <1>4
  <2> QED
    BY Zenon, <1>5, <2>1, <2>2
<1>7. DOMAIN IpTable(s, v) = 1..n
  BY Zenon, <1>4
<1> QED
  BY Zenon, <1>1, <1>6, <1>7 DEF Holds

\* The entries that end a table of addresses of version v.
EndMarks(v) == {x \in Addresses : x.first = 0 /\ (v = 6 \/ x.rest = 0)}

IpTables(s) == [v \in {4, 6} |-> IpTable(s, v)]

\* An address is in the first entries of a list, and none of them ends it.
ReachesIp(a, l) ==
  /\ First(a, l) <= MAX_IP
  /\ \A i \in 1..First(a, l) : l[i].first # 0 \/ (a.ver = 4 /\ l[i].rest # 0)

LEMMA IpFound ==
  ASSUME NEW s \in Seq(Addresses), NEW tables, tables = IpTables(s),
         NEW a \in Addresses, a.ver # 0, NEW l, l = OfVersion(s, a.ver)
  PROVE  IpIn(a, tables) <=> a \in Elems(s) /\ ReachesIp(a, l)
<1>1. PICK v \in {4, 6} : v = a.ver
  BY DEF Addresses
<1>2. PICK n, t : n = MAX_IP /\ t = IpTable(s, v)
  BY Zenon
<1>3. n \in Nat /\ t = tables[v]
  BY Zenon, <1>2, SizeFacts DEF IpTables
<1>4. l \in Seq(Addresses) /\ Elems(l) = {x \in Elems(s) : x.ver = v} /\ Holds(t, n, l, NoIp(v))
  <2>1. l = OfVersion(s, v)
    BY Zenon, <1>1
  <2>2. /\ l \in Seq(Addresses) /\ Elems(l) = {x \in Elems(s) : x.ver = v}
        /\ Holds(IpTable(s, v), n, l, NoIp(v))
    BY ZenonT(60), <1>2, <2>1, IpTableFacts
  <2> QED
    BY Zenon, <1>2, <2>2
<1>5. NoIp(v) \in Addresses /\ NoIp(v) \in EndMarks(v)
  BY DEF NoIp, Addresses, EndMarks
<1>6. \A i \in 1..Len(l) : l[i] \in Addresses
  BY <1>4
<1>7. ASSUME NEW i \in 1..n PROVE t[i] \in Addresses
  <2>1. i <= Len(l) => i \in 1..Len(l)
    BY <1>3, <1>4
  <2> QED
    BY Zenon, <1>4, <1>5, <1>6, <2>1 DEF Holds
<1>8. ASSUME NEW x \in Addresses
      PROVE  /\ x \notin EndMarks(v) <=> ~(x.first = 0 /\ (v = 6 \/ x.rest = 0))
             /\ x \notin EndMarks(v) <=> x.first # 0 \/ (v = 4 /\ x.rest # 0)
  BY DEF EndMarks
<1>9. IpIn(a, tables) <=> a \in Reached(t, EndMarks(v))
  <2>1. ASSUME NEW j \in 1..n
        PROVE  (\A h \in 1..j : t[h] \notin EndMarks(v)) <=>
               \A h \in 1..j : ~(t[h].first = 0 /\ (v = 6 \/ t[h].rest = 0))
    <3>1. \A h \in 1..j : h \in 1..n
      BY <1>3
    <3> QED
      BY Zenon, <1>7, <1>8, <3>1
  <2>2. IpIn(a, tables) <=>
          \E j \in 1..n : a = t[j] /\ \A h \in 1..j : ~(t[h].first = 0 /\ (v = 6 \/ t[h].rest = 0))
    BY ZenonT(60), <1>1, <1>3, <1>4 DEF IpIn, Listed, Holds
  <2> QED
    BY Zenon, <1>4, <2>1, <2>2 DEF Reached, Holds
<1>10. a \in Reached(t, EndMarks(v)) <=>
         a \in Elems(l) /\ First(a, l) <= n /\ \A i \in 1..First(a, l) : l[i] \notin EndMarks(v)
  <2>1. /\ l \in Seq(Addresses) /\ n \in Nat /\ NoIp(v) \in EndMarks(v)
        /\ Holds(t, n, l, NoIp(v))
    BY Zenon, <1>3, <1>4, <1>5
  <2> QED
    BY Zenon, <2>1, Lookup
<1>11. a \in Elems(l) <=> a \in Elems(s)
  BY Zenon, <1>1, <1>4
<1>12. ASSUME a \in Elems(l)
       PROVE  (\A i \in 1..First(a, l) : l[i] \notin EndMarks(v)) <=>
              \A i \in 1..First(a, l) : l[i].first # 0 \/ (a.ver = 4 /\ l[i].rest # 0)
  <2>1. First(a, l) \in 1..Len(l) /\ Len(l) \in Nat
    BY <1>4, <1>12, FirstFacts
  <2>2. \A i \in 1..First(a, l) : i \in 1..Len(l)
    BY <2>1
  <2> QED
    BY Zenon, <1>1, <1>6, <1>8, <2>2
<1> QED
  BY Zenon, <1>2, <1>9, <1>10, <1>11, <1>12 DEF ReachesIp

-----------------------------------------------------------------------------
(* The rules in force.                                                       *)

Rules == \E s \in Sections : global = s[1] /\ filter = s[2]

NameLists == {"BlockCategories", "BlockDomains", "AllowDomains"}
IpLists == {"BlockIps", "AllowIps"}

\* The merged lists hold what either section lists.
LEMMA ListFacts ==
  ASSUME Rules
  PROVE  /\ \A fd \in NameLists : Both(fd) \in Seq(STRING)
         /\ \A fd \in IpLists : Both(fd) \in Seq(Addresses)
         /\ \A fd \in NameLists \cup IpLists : \A x : InList(fd, x) <=> x \in Elems(Both(fd))
<1>1. IsSection(global) /\ IsSection(filter)
  BY Zenon, InputAssumption DEF Rules
<1>2. ASSUME NEW r, IsSection(r)
      PROVE  /\ \A fd \in NameLists : r[fd] \in Seq(STRING)
             /\ \A fd \in IpLists : r[fd] \in Seq(Addresses)
  BY Zenon, <1>2 DEF IsSection, NameLists, IpLists
<1>3. ASSUME NEW fd, NEW X, global[fd] \in Seq(X), filter[fd] \in Seq(X)
      PROVE  Both(fd) \in Seq(X) /\ \A x : InList(fd, x) <=> x \in Elems(Both(fd))
  BY Zenon, <1>3, AppendFacts DEF Both, InList
<1> QED
  BY Zenon, <1>1, <1>2, <1>3

\* What a policy is made of.
LEMMA ProtoFacts ==
  ASSUME NEW p, p = GetWorkerPolicyProto(global, filter)
  PROVE  /\ p.block_categories = Both("BlockCategories")
         /\ p.block_domains = Both("BlockDomains") /\ p.allow_domains = Both("AllowDomains")
         /\ p.block_ips = Both("BlockIps") /\ p.allow_ips = Both("AllowIps")
         /\ p.block_by_trust = MergeTrust(global.BlockByTrust, filter.BlockByTrust)
         /\ p.min_trust_level = Value(MinTrust)
  BY Zenon DEF GetWorkerPolicyProto, Both, MinTrust, Override

\* Domain names are looked up to the first empty one.
LEMMA DomainInIs ==
  ASSUME NEW d, NEW table
  PROVE  DomainIn(d, table) <=> d \in Reached(table, {""})
<1>1. DomainIn(d, table) <=>
        \E j \in DOMAIN table : d = table[j] /\ \A h \in 1..j : ~(table[h] = "")
  BY Zenon DEF DomainIn, Listed
<1>2. d \in Reached(table, {""}) <=>
        \E j \in DOMAIN table : d = table[j] /\ \A h \in 1..j : table[h] \notin {""}
  BY Zenon DEF Reached
<1> QED
  BY Zenon, <1>1, <1>2

LEMMA BlockedDomains ==
  ASSUME Rules, NEW pol, NEW K, pol = BasePolicy(GetWorkerPolicyProto(global, filter), K), NEW d
  PROVE  DomainIn(d, pol.block_domains) <=>
           InList("BlockDomains", d) /\ DomainInReach("BlockDomains", d)
<1>1. PICK b, a, n, p : /\ b = Both("BlockDomains") /\ a = Both("AllowDomains") /\ n = MAX_DOMAINS
                        /\ p = GetWorkerPolicyProto(global, filter)
  BY Zenon
<1>2. b \in Seq(STRING) /\ a \in Seq(STRING) /\ n \in Nat
  BY Zenon, <1>1, ListFacts, SizeFacts DEF NameLists
<1>3. b = p.block_domains /\ a = p.allow_domains /\ pol = BasePolicy(p, K)
  BY Zenon, <1>1, ProtoFacts
<1>4. Holds(pol.block_domains, n, b, "")
  BY Zenon, <1>1, <1>2, <1>3, DomainTableFacts
<1>5. "" \in {""}
  BY Zenon
<1>6. d \in Reached(pol.block_domains, {""}) <=>
        d \in Elems(b) /\ First(d, b) <= n /\ \A i \in 1..First(d, b) : b[i] \notin {""}
  BY Zenon, <1>2, <1>4, <1>5, Lookup
<1>7. d \in Elems(b) <=> InList("BlockDomains", d)
  BY Zenon, <1>1, ListFacts DEF NameLists
<1>8. (\A i \in 1..First(d, b) : b[i] \notin {""}) <=> \A i \in 1..First(d, b) : b[i] # ""
  BY Zenon
<1> QED
  BY Zenon, <1>1, <1>6, <1>7, <1>8, DomainInIs DEF DomainInReach

Blank(d) == d = ""

LEMMA AllowedDomains ==
  ASSUME Rules, NEW pol, NEW K, pol = BasePolicy(GetWorkerPolicyProto(global, filter), K), NEW d, ~Blank(d)
  PROVE  /\ InList("AllowDomains", d) /\ DomainInReach("AllowDomains", d) =>
              DomainIn(d, pol.allow_domains)
         /\ DomainIn(d, pol.allow_domains) => InList("AllowDomains", d) \/ Overruns("BlockDomains", d)
<1>1. PICK b, a, n, p : /\ b = Both("BlockDomains") /\ a = Both("AllowDomains") /\ n = MAX_DOMAINS
                        /\ p = GetWorkerPolicyProto(global, filter)
  BY Zenon
<1>2. b \in Seq(STRING) /\ a \in Seq(STRING) /\ n \in Nat /\ n >= 1
  BY Zenon, <1>1, ListFacts, SizeFacts DEF NameLists
<1>3. b = p.block_domains /\ a = p.allow_domains /\ pol = BasePolicy(p, K)
  BY Zenon, <1>1, ProtoFacts
<1>4. PICK t : t = pol.allow_domains
  BY Zenon
<1>5. HoldsRest(t, n, a, b)
  BY Zenon, <1>1, <1>2, <1>3, <1>4, DomainTableFacts
<1>6. d \in Elems(a) <=> InList("AllowDomains", d)
  BY Zenon, <1>1, ListFacts DEF NameLists
<1>7. ASSUME InList("AllowDomains", d), DomainInReach("AllowDomains", d)
      PROVE  DomainIn(d, t)
  <2>1. /\ d \in Elems(a) /\ First(d, a) <= n /\ \A i \in 1..First(d, a) : a[i] \notin {""}
    BY Zenon, <1>1, <1>6, <1>7 DEF DomainInReach
  <2>2. DOMAIN t = 1..n /\ \A i \in 1..n : i <= Len(a) => t[i] = a[i]
    BY Zenon, <1>5 DEF HoldsRest
  <2>3. d \in Reached(t, {""})
    BY Zenon, <1>2, <2>1, <2>2, InReachIsFound
  <2> QED
    BY Zenon, <2>3, DomainInIs
<1>8. ASSUME DomainIn(d, t), ~InList("AllowDomains", d)
      PROVE  Overruns("BlockDomains", d)
  <2>1. PICK j \in 1..n : d = t[j]
    BY Zenon, <1>5, <1>8, DomainInIs DEF Reached, HoldsRest
  <2>2. DOMAIN a = 1..Len(a) /\ DOMAIN b = 1..Len(b) /\ Len(a) \in Nat /\ Len(b) \in Nat
    BY Zenon, <1>2, SeqFacts
  <2>3. ~(j <= Len(a))
    <3>1. j <= Len(a) => j \in DOMAIN a
      BY <1>2, <2>2
    <3>2. j <= Len(a) => d = a[j]
      BY Zenon, <1>5, <2>1 DEF HoldsRest
    <3> QED
      BY Zenon, <1>6, <1>8, <3>1, <3>2 DEF Elems
  <2>4. n + j <= Len(b) /\ d = b[n + j]
    BY Zenon, <1>5, <2>1, <2>3 DEF HoldsRest, Blank
  <2>5. n + j \in DOMAIN b /\ n + j > n
    BY <1>2, <2>2, <2>4
  <2> QED
    BY Zenon, <1>1, <2>4, <2>5 DEF Overruns
<1> QED
  BY Zenon, <1>4, <1>7, <1>8

LEMMA ListedIps ==
  ASSUME Rules, NEW pol, NEW K, pol = BasePolicy(GetWorkerPolicyProto(global, filter), K),
         NEW a \in Addresses, a.ver # 0
  PROVE  /\ IpIn(a, pol.block_ip) <=> InList("BlockIps", a) /\ IpInReach("BlockIps", a)
         /\ IpIn(a, pol.allow_ip) <=> InList("AllowIps", a) /\ IpInReach("AllowIps", a)
<1>1. ASSUME NEW fd \in IpLists, NEW tables, tables = IpTables(Both(fd))
      PROVE  IpIn(a, tables) <=> InList(fd, a) /\ IpInReach(fd, a)
  <2>1. PICK s, l : s = Both(fd) /\ l = OfVersion(s, a.ver)
    BY Zenon
  <2>2. s \in Seq(Addresses) /\ tables = IpTables(s)
    BY Zenon, <1>1, <2>1, ListFacts
  <2>3. IpIn(a, tables) <=> a \in Elems(s) /\ ReachesIp(a, l)
    BY Zenon, <2>1, <2>2, IpFound
  <2>4. a \in Elems(s) <=> InList(fd, a)
    BY Zenon, <2>1, ListFacts
  <2> QED
    BY Zenon, <2>1, <2>3, <2>4 DEF IpInReach, ReachesIp
<1>2. pol.block_ip = IpTables(Both("BlockIps")) /\ pol.allow_ip = IpTables(Both("AllowIps"))
  <2>1. PICK p : p = GetWorkerPolicyProto(global, filter)
    BY Zenon
  <2>2. p.block_ips = Both("BlockIps") /\ p.allow_ips = Both("AllowIps")
    BY Zenon, <2>1, ProtoFacts
  <2>3. pol.block_ip = IpTables(p.block_ips) /\ pol.allow_ip = IpTables(p.allow_ips)
    BY Zenon, <2>1 DEF BasePolicy, IpTables
  <2> QED
    BY Zenon, <2>2, <2>3
<1> QED
  BY Zenon, <1>1, <1>2 DEF IpLists

\* The blocked categories, which fit in their table.
LEMMA LockedCategories ==
  ASSUME Rules, NEW pol, NEW K, pol = BasePolicy(GetWorkerPolicyProto(global, filter), K),
         NEW c, InList("BlockCategories", c)
  PROVE  \E j \in DOMAIN pol.locked_categories : pol.locked_categories[j] = c
<1>1. PICK b, n, p : b = Both("BlockCategories") /\ n = MAX_CATEGORIES
                     /\ p = GetWorkerPolicyProto(global, filter)
  BY Zenon
<1>2. b \in Seq(STRING) /\ c \in Elems(b) /\ n \in Nat
  BY Zenon, <1>1, ListFacts, SizeFacts DEF NameLists
<1>3. b = p.block_categories /\ Len(b) <= n
  BY Zenon, <1>1, ProtoFacts, InputAssumption DEF Rules, Fits
<1>4. pol.locked_categories = [i \in 1..n |-> IF i <= Len(b) THEN b[i] ELSE ""]
  BY Zenon, <1>1, <1>3 DEF BasePolicy, Zeroed
<1>5. PICK j \in 1..Len(b) : b[j] = c
  <2>1. DOMAIN b = 1..Len(b)
    BY <1>2
  <2> QED
    BY Zenon, <1>2, <2>1 DEF Elems
<1>6. j \in 1..n /\ j <= Len(b)
  BY <1>2, <1>3
<1> QED
  BY Zenon, <1>4, <1>5, <1>6

\* The lists come first: what is blocked is not sent, what is allowed and not
\* blocked is sent, and the categories decide the rest.
LEMMA ListsFirst ==
  ASSUME Rules, NEW K, policy = BasePolicy(GetWorkerPolicyProto(global, filter), K), info \in Packets, InReach,
         NEW req, NEW beyond
  PROVE  /\ OnBlockList => ~Verdict(req, policy, info, beyond)
         /\ OnAllowList /\ ~OnBlockList => Verdict(req, policy, info, beyond)
         /\ ~OnBlockList /\ ~OnAllowList =>
              (Verdict(req, policy, info, beyond) <=>
                 check_categories_and_trust_level(req, policy, beyond))
<1>1. CASE info.domain = ""
  <2>1. info.ip \in Addresses /\ info.ip.ver # 0
    BY Zenon, InputAssumption
  <2>2. /\ IpIn(info.ip, policy.block_ip) <=> OnBlockList
        /\ IpIn(info.ip, policy.allow_ip) <=> OnAllowList
    BY Zenon, <1>1, <2>1, ListedIps DEF InReach, OnBlockList, OnAllowList
  <2> QED
    BY Zenon, <1>1, <2>2 DEF Verdict, main_filtring_by_ip
<1>2. CASE info.domain # ""
  <2>1. DomainIn(info.domain, policy.block_domains) <=> OnBlockList
    BY Zenon, <1>2, BlockedDomains DEF InReach, OnBlockList
  <2>2. OnAllowList => DomainIn(info.domain, policy.allow_domains)
    BY Zenon, <1>2, AllowedDomains DEF InReach, OnAllowList, Blank
  <2>3. Overruns("BlockDomains", info.domain) => OnBlockList
    BY Zenon, <1>2, ListFacts DEF Overruns, OnBlockList, Elems, NameLists
  <2>4. DomainIn(info.domain, policy.allow_domains) => OnAllowList \/ OnBlockList
    BY Zenon, <1>2, <2>3, AllowedDomains DEF OnAllowList, Blank
  <2> QED
    BY Zenon, <1>2, <2>1, <2>2, <2>4 DEF Verdict, main_filtring_by_domain
<1> QED
  BY Zenon, <1>1, <1>2

-----------------------------------------------------------------------------
(* PolicyFilter.                                                             *)

\* The policy in force is the one the sections make.
RulesInv ==
  /\ Rules
  /\ pc # "loaded" => proto = GetWorkerPolicyProto(global, filter)
  /\ pc \notin {"loaded", "merged"} =>
       \E K \in Kept(proto.block_by_trust) : policy = BasePolicy(proto, K)

\* The verdict is one on the packet and its classification.
VerdictInv ==
  pc = "decided" =>
    /\ info \in Packets /\ resp \in Responses
    /\ \E req \in Requests(resp), beyond \in BOOLEAN : sent = Verdict(req, policy, info, beyond)

FilterInv == RulesInv /\ pc \in {"loaded", "merged", "installed", "decided"} /\ VerdictInv

LEMMA FilterInvariance == Spec => []FilterInv
<1>1. Init => FilterInv
  BY Zenon DEF Init, FilterInv, RulesInv, Rules, VerdictInv
<1>2. FilterInv /\ [Next]_vars => FilterInv'
  <2> SUFFICES ASSUME FilterInv, [Next]_vars PROVE FilterInv'
    BY Zenon
  <2>1. CASE Merge
    BY Zenon, <2>1 DEF Merge, FilterInv, RulesInv, Rules, VerdictInv
  <2>2. CASE Install
    BY Zenon, <2>2 DEF Install, FilterInv, RulesInv, Rules, VerdictInv
  <2>3. CASE Decide
    BY Zenon, <2>3 DEF Decide, FilterInv, RulesInv, Rules, VerdictInv
  <2>4. CASE UNCHANGED vars
    BY Zenon, <2>4 DEF vars, FilterInv, RulesInv, Rules, VerdictInv
  <2> QED
    BY Zenon, <2>1, <2>2, <2>3, <2>4 DEF Next
<1> QED
  BY <1>1, <1>2, PTL DEF Spec

\* What an allow list names and no block list is sent, whatever its classification
\* (filtr_packets.c:161-193), for every two sections that fit in the tables.
THEOREM AllowedIsAlwaysSent == Spec => []AllowedIsSent
<1>1. FilterInv => AllowedIsSent
  BY Zenon, ListsFirst DEF FilterInv, RulesInv, VerdictInv, AllowedIsSent
<1> QED
  BY <1>1, FilterInvariance, PTL

-----------------------------------------------------------------------------
(* The handlers.                                                             *)

HandlerRecords == [pc : {"none", "asking", "returned", "lost"}, type : {"domain", "ip"},
                   todo : SUBSET Providers, foundIDs : {{}}, open : {0}]

ServiceTypeOK ==
  /\ handler \in [Calls -> HandlerRecords]
  /\ client \in [Calls -> {"none", "waiting", "failed", "answered"}]
  /\ asked \in [Calls -> [Providers -> Nat]]
  /\ reply \in [Calls -> {Unknown}]

\* How often a provider has been asked in a call that has these left.
TimesAsked(h, p) == IF p \notin h.todo /\ <<p, h.type>> \in Endpoints THEN 1 ELSE 0

\* One call: nothing is asked before it is made, each provider at most once, and
\* all of them before it returns; an answer is the handler's.
CallInv(c) ==
  /\ client[c] = "none" => handler[c].pc = "none"
  /\ client[c] = "answered" => handler[c].pc = "returned"
  /\ handler[c].pc = "none" => \A p \in Providers : asked[c][p] = 0
  /\ handler[c].pc \in {"asking", "returned"} =>
       \A p \in Providers : asked[c][p] = TimesAsked(handler[c], p)
  /\ handler[c].pc = "returned" => handler[c].todo = {}

ServiceInv == ServiceTypeOK /\ \A c \in Calls : CallInv(c)

DoneWith(h, p) == [h EXCEPT !.todo = @ \ {p}]

\* The body is closed before it is decoded: no answer of a provider adds a
\* category.
LEMMA NothingIsFound ==
  ASSUME NEW h \in HandlerRecords, NEW p, NEW ok \in BOOLEAN, NEW data
  PROVE  TakeResponse(h, p, ok, data) = DoneWith(h, p)
<1>1. PICK g : g = [h EXCEPT !.todo = @ \ {p}]
  BY Zenon
<1>2. g \in HandlerRecords
  BY <1>1 DEF HandlerRecords
<1>3. [h EXCEPT !.todo = @ \ {p}, !.open = 0] = g
  BY ZenonT(60), <1>1 DEF HandlerRecords
<1>4. Decode(g.open, data) = {}
  BY <1>2 DEF Decode, HandlerRecords
<1>5. Matching(p, {}) = {}
  BY Zenon DEF Matching, hasIntersection
<1>6. [g EXCEPT !.foundIDs = @ \cup {}] = g
  BY <1>2 DEF HandlerRecords
<1> QED
  BY Zenon, <1>1, <1>3, <1>4, <1>5, <1>6 DEF TakeResponse, DoneWith

\* A provider is done with: it has been asked, if it can be.
LEMMA ProviderDone ==
  ASSUME ServiceInv, NEW c \in Calls, handler[c].pc = "asking",
         NEW p \in Providers, p \in handler[c].todo,
         handler' = [handler EXCEPT ![c].todo = @ \ {p}],
         asked' = IF Supported(c, p) THEN [asked EXCEPT ![c][p] = @ + 1] ELSE asked,
         client' = client, reply' = reply
  PROVE  ServiceInv'
<1>1. handler[c] \in HandlerRecords /\ asked[c] \in [Providers -> Nat]
  BY Zenon DEF ServiceInv, ServiceTypeOK
<1>2. PICK h : h = [handler[c] EXCEPT !.todo = @ \ {p}]
  BY Zenon
<1>3. /\ h \in HandlerRecords /\ h.pc = "asking" /\ h.type = handler[c].type
      /\ h.todo = handler[c].todo \ {p}
  BY <1>1, <1>2 DEF HandlerRecords
<1>4. handler' = [handler EXCEPT ![c] = h] /\ handler'[c] = h
  <2>1. handler \in [Calls -> HandlerRecords]
    BY Zenon DEF ServiceInv, ServiceTypeOK
  <2> QED
    BY <1>2, <2>1
<1>5. asked[c][p] = 0 /\ \A q \in Providers : asked[c][q] = TimesAsked(handler[c], q)
  BY Zenon DEF ServiceInv, CallInv, TimesAsked
<1>6. /\ asked' \in [Calls -> [Providers -> Nat]]
      /\ \A d \in Calls \ {c} : asked'[d] = asked[d]
      /\ \A q \in Providers : asked'[c][q] = IF q = p /\ Supported(c, p) THEN 1 ELSE asked[c][q]
  <2>1. CASE Supported(c, p)
    <3>1. asked' = [asked EXCEPT ![c] = [asked[c] EXCEPT ![p] = 1]]
      BY <1>1, <1>5, <2>1 DEF ServiceInv, ServiceTypeOK
    <3>2. [asked[c] EXCEPT ![p] = 1] \in [Providers -> Nat]
      BY <1>1
    <3> QED
      BY <1>1, <2>1, <3>1, <3>2 DEF ServiceInv, ServiceTypeOK
  <2>2. CASE ~Supported(c, p)
    BY Zenon, <2>2 DEF ServiceInv, ServiceTypeOK
  <2> QED
    BY Zenon, <2>1, <2>2
<1>7. \A q \in Providers : asked'[c][q] = TimesAsked(h, q)
  <2> TAKE q \in Providers
  <2>1. asked[c][q] = TimesAsked(handler[c], q)
    BY Zenon, <1>5
  <2>2. CASE q = p
    BY Zenon, <1>3, <1>5, <1>6, <2>2 DEF TimesAsked, Supported
  <2>3. CASE q # p
    BY Zenon, <1>3, <1>6, <2>1, <2>3 DEF TimesAsked
  <2> QED
    BY Zenon, <2>2, <2>3
<1>8. ServiceTypeOK'
  <2>1. handler \in [Calls -> HandlerRecords]
    BY Zenon DEF ServiceInv, ServiceTypeOK
  <2>2. handler' \in [Calls -> HandlerRecords]
    BY <1>3, <1>4, <2>1
  <2> QED
    BY Zenon, <1>6, <2>2 DEF ServiceInv, ServiceTypeOK
<1>9. ASSUME NEW d \in Calls PROVE CallInv(d)'
  <2>1. CASE d = c
    <3>1. client[c] # "none" /\ client[c] # "answered"
      BY Zenon DEF ServiceInv, CallInv
    <3> QED
      BY ZenonT(60), <1>3, <1>4, <1>7, <2>1, <3>1 DEF CallInv
  <2>2. CASE d # c
    <3>1. handler'[d] = handler[d]
      BY Zenon, <1>4, <2>2 DEF ServiceInv, ServiceTypeOK
    <3> QED
      BY ZenonT(60), <1>6, <2>2, <3>1 DEF ServiceInv, CallInv
  <2> QED
    BY Zenon, <2>1, <2>2
<1> QED
  BY Zenon, <1>8, <1>9 DEF ServiceInv

\* Only one call changes, and it keeps the types and its invariant.
LEMMA OneCall ==
  ASSUME ServiceInv, NEW c \in Calls, NEW h \in HandlerRecords,
         NEW k \in {"none", "waiting", "failed", "answered"},
         handler' = [handler EXCEPT ![c] = h], client' = [client EXCEPT ![c] = k],
         asked' = asked, reply' = reply, CallInv(c)'
  PROVE  ServiceInv'
<1>1. /\ handler \in [Calls -> HandlerRecords]
      /\ client \in [Calls -> {"none", "waiting", "failed", "answered"}]
  BY Zenon DEF ServiceInv, ServiceTypeOK
<1>2. /\ handler' \in [Calls -> HandlerRecords]
      /\ client' \in [Calls -> {"none", "waiting", "failed", "answered"}]
      /\ \A d \in Calls \ {c} : handler'[d] = handler[d] /\ client'[d] = client[d]
  BY <1>1
<1>3. ServiceTypeOK'
  BY Zenon, <1>2 DEF ServiceInv, ServiceTypeOK
<1>4. ASSUME NEW d \in Calls, d # c PROVE CallInv(d)'
  <2>1. handler'[d] = handler[d] /\ client'[d] = client[d] /\ CallInv(d)
    BY Zenon, <1>2, <1>4 DEF ServiceInv
  <2> QED
    BY Zenon, <2>1 DEF CallInv
<1> QED
  BY Zenon, <1>3, <1>4 DEF ServiceInv

\* A function is itself with one of its values put back.
LEMMA Same ==
  ASSUME NEW S, NEW T, NEW f \in [S -> T], NEW x \in S
  PROVE  f = [f EXCEPT ![x] = f[x]]
  OBVIOUS

LEMMA ServiceTyped ==
  ASSUME ServiceInv, NEW c \in Calls
  PROVE  /\ handler \in [Calls -> HandlerRecords] /\ handler[c] \in HandlerRecords
         /\ client \in [Calls -> {"none", "waiting", "failed", "answered"}]
         /\ client[c] \in {"none", "waiting", "failed", "answered"}
         /\ asked[c] \in [Providers -> Nat]
         /\ handler = [handler EXCEPT ![c] = handler[c]]
<1>1. /\ handler \in [Calls -> HandlerRecords]
      /\ client \in [Calls -> {"none", "waiting", "failed", "answered"}]
      /\ asked[c] \in [Providers -> Nat]
  BY Zenon DEF ServiceInv, ServiceTypeOK
<1>2. handler = [handler EXCEPT ![c] = handler[c]]
  BY <1>1
<1> QED
  BY Zenon, <1>1, <1>2

\* What the worker does with a call.
LEMMA ClientKeeps ==
  ASSUME ServiceInv, NEW c \in Calls, ClientStep(c)
  PROVE  ServiceInv'
<1>1. PICK k \in {"failed", "answered"} :
        /\ client[c] = "waiting" /\ client' = [client EXCEPT ![c] = k]
        /\ k = "answered" => handler[c].pc = "returned"
        /\ UNCHANGED <<handler, reply, asked>>
  BY Zenon DEF ClientStep, Deadline, Deliver
<1>2. client'[c] = k
  BY <1>1, ServiceTyped
<1>3. CallInv(c)'
  BY Zenon, <1>1, <1>2 DEF ServiceInv, CallInv
<1>4. handler' = [handler EXCEPT ![c] = handler[c]]
  BY Zenon, <1>1, ServiceTyped
<1> QED
  BY Zenon, <1>1, <1>3, <1>4, ServiceTyped, OneCall

LEMMA AskKeeps ==
  ASSUME ServiceInv, NEW c \in Calls, NEW type \in {"domain", "ip"}, Ask(c, type)
  PROVE  ServiceInv'
<1>1. client[c] = "none" /\ handler[c].pc = "none" /\ \A p \in Providers : asked[c][p] = 0
  BY Zenon DEF Ask, ServiceInv, CallInv
<1>2. CASE down
  <2>1. /\ client' = [client EXCEPT ![c] = "failed"] /\ UNCHANGED <<handler, reply, asked>>
        /\ client'[c] = "failed"
    BY <1>2, ServiceTyped DEF Ask
  <2>2. CallInv(c)'
    BY Zenon, <1>1, <2>1 DEF CallInv
  <2>3. handler' = [handler EXCEPT ![c] = handler[c]]
    BY Zenon, <2>1, ServiceTyped
  <2> QED
    BY Zenon, <2>1, <2>2, <2>3, ServiceTyped, OneCall
<1>3. CASE ~down
  <2>1. PICK h : h = [Idle EXCEPT !.pc = "asking", !.type = type, !.todo = Providers]
    BY Zenon
  <2>2. h \in HandlerRecords /\ h.pc = "asking" /\ h.todo = Providers
    BY ZenonT(60), <2>1 DEF Idle, HandlerRecords
  <2>3. /\ client' = [client EXCEPT ![c] = "waiting"] /\ UNCHANGED <<reply, asked>>
        /\ handler' = [handler EXCEPT ![c] = h]
    BY Zenon, <1>3, <2>1 DEF Ask
  <2>4. client'[c] = "waiting" /\ handler'[c] = h
    BY <2>3, ServiceTyped
  <2>5. CallInv(c)'
    BY Zenon, <1>1, <2>2, <2>3, <2>4 DEF CallInv, TimesAsked
  <2> QED
    BY Zenon, <2>2, <2>3, <2>5, OneCall
<1> QED
  BY Zenon, <1>2, <1>3

LEMMA HandlerKeeps ==
  ASSUME ServiceInv, NEW c \in Calls, HandlerStep(c)
  PROVE  ServiceInv' /\ client' = client
<1>1. ASSUME NEW p \in Providers, PassOver(c, p) PROVE ServiceInv' /\ client' = client
  BY Zenon, <1>1, ProviderDone DEF PassOver, Asks
<1>2. ASSUME NEW p \in Providers, RequestFails(c, p) PROVE ServiceInv' /\ client' = client
  BY Zenon, <1>2, ProviderDone DEF RequestFails, Asks
<1>3. ASSUME NEW p \in Providers, Respond(c, p) PROVE ServiceInv' /\ client' = client
  <2>1. PICK ok \in BOOLEAN, data \in SUBSET Labels :
          handler' = [handler EXCEPT ![c] = TakeResponse(handler[c], p, ok, data)]
    BY Zenon, <1>3 DEF Respond
  <2>2. TakeResponse(handler[c], p, ok, data) = DoneWith(handler[c], p)
    BY Zenon, ServiceTyped, NothingIsFound
  <2>3. handler' = [handler EXCEPT ![c].todo = @ \ {p}]
    BY Zenon, <2>1, <2>2 DEF DoneWith
  <2> QED
    BY Zenon, <1>3, <2>3, ProviderDone DEF Respond, Asks
<1>4. ASSUME NEW p \in Providers, RequestPanics(c, p) PROVE ServiceInv' /\ client' = client
  <2>1. \A d \in Calls : handler[d] \in HandlerRecords
    BY Zenon, ServiceTyped
  <2>2. ASSUME NEW d \in Calls
        PROVE  /\ handler'[d] \in HandlerRecords
               /\ handler[d].pc # "asking" => handler'[d] = handler[d]
               /\ handler[d].pc = "asking" => handler'[d].pc = "lost"
    <3>1. handler'[d] = IF handler[d].pc = "asking" THEN [handler[d] EXCEPT !.pc = "lost"]
                                                    ELSE handler[d]
      BY Zenon, <1>4 DEF RequestPanics
    <3> QED
      BY <2>1, <3>1 DEF HandlerRecords
  <2>3. handler' \in [Calls -> HandlerRecords]
    <3>1. handler' = [d \in Calls |-> handler'[d]]
      BY Zenon, <1>4 DEF RequestPanics
    <3> QED
      BY Zenon, <2>2, <3>1
  <2>4. UNCHANGED <<client, asked, reply>>
    BY Zenon, <1>4 DEF RequestPanics
  <2>5. ServiceTypeOK'
    BY Zenon, <2>3, <2>4 DEF ServiceInv, ServiceTypeOK
  <2>6. ASSUME NEW d \in Calls PROVE CallInv(d)'
    <3>1. CASE handler[d].pc = "asking"
      BY Zenon, <2>2, <2>4, <3>1 DEF ServiceInv, CallInv
    <3>2. CASE handler[d].pc # "asking"
      <4>1. handler'[d] = handler[d] /\ CallInv(d)
        BY Zenon, <2>2, <3>2 DEF ServiceInv
      <4> QED
        BY Zenon, <2>4, <4>1 DEF CallInv
    <3> QED
      BY Zenon, <3>1, <3>2
  <2> QED
    BY Zenon, <2>4, <2>5, <2>6 DEF ServiceInv
<1>5. ASSUME Return(c) PROVE ServiceInv' /\ client' = client
  <2>1. /\ handler[c].pc = "asking" /\ handler[c].todo = {} /\ handler[c].foundIDs = {}
        /\ UNCHANGED <<client, asked>>
    BY <1>5, ServiceTyped DEF Return, HandlerRecords
  <2>2. reply' = reply
    <3>1. ClassifyResponse(handler[c].foundIDs) = Unknown
      BY Zenon, <2>1 DEF ClassifyResponse
    <3>2. reply' = [reply EXCEPT ![c] = Unknown]
      BY Zenon, <1>5, <3>1 DEF Return
    <3>3. reply \in [Calls -> {Unknown}] /\ reply[c] = Unknown
      BY Zenon DEF ServiceInv, ServiceTypeOK
    <3> QED
      BY <3>2, <3>3
  <2>3. PICK h : h = [handler[c] EXCEPT !.pc = "returned"]
    BY Zenon
  <2>4. h \in HandlerRecords /\ h.pc = "returned" /\ h.todo = {} /\ h.type = handler[c].type
    BY <2>1, <2>3, ServiceTyped DEF HandlerRecords
  <2>5. handler' = [handler EXCEPT ![c] = h] /\ handler'[c] = h
    BY <1>5, <2>3, ServiceTyped DEF Return
  <2>6. CallInv(c)'
    BY ZenonT(60), <2>1, <2>4, <2>5 DEF ServiceInv, CallInv, TimesAsked
  <2>7. client' = [client EXCEPT ![c] = client[c]]
    BY Zenon, <2>1, ServiceTyped, Same
  <2> QED
    BY Zenon, <2>1, <2>2, <2>4, <2>5, <2>6, <2>7, ServiceTyped, OneCall
<1> QED
  BY Zenon, <1>1, <1>2, <1>3, <1>4, <1>5 DEF HandlerStep

-----------------------------------------------------------------------------
(* A cache miss from end to end.                                             *)

\* The packet was sent because the call failed, or decided by an answer that
\* names no category.
MissVerdict ==
  \/ client[cur] = "failed" /\ sent
  \/ /\ client[cur] = "answered"
     /\ \E req \in Requests(Unknown), beyond \in BOOLEAN : sent = Verdict(req, policy, info, beyond)

MissInv ==
  /\ RulesInv /\ ServiceInv
  /\ pc \in {"loaded", "merged", "installed", "asking", "decided"}
  /\ pc \in {"asking", "decided"} => cur \in Calls /\ info \in Packets
  /\ pc = "decided" => MissVerdict

LEMMA MissInvariance == PathSpec => []MissInv
<1>1. PathInit => MissInv
  <2> SUFFICES ASSUME PathInit PROVE MissInv
    BY Zenon
  <2>1. RulesInv /\ pc = "loaded"
    BY Zenon DEF PathInit, Init, RulesInv, Rules
  <2>2. Idle \in HandlerRecords /\ Idle.pc = "none"
    BY DEF Idle, HandlerRecords
  <2>3. ServiceTypeOK
    <3>1. 0 \in Nat
      BY SMT
    <3> QED
      BY Zenon, <2>2, <3>1 DEF PathInit, ClassifierInit, ServiceTypeOK
  <2>4. ASSUME NEW c \in Calls PROVE CallInv(c)
    BY Zenon, <2>2 DEF PathInit, ClassifierInit, CallInv
  <2> QED
    BY Zenon, <2>1, <2>3, <2>4 DEF MissInv, ServiceInv
<1>2. MissInv /\ [PathNext]_allVars => MissInv'
  <2> SUFFICES ASSUME MissInv, [PathNext]_allVars PROVE MissInv'
    BY Zenon
  <2>1. CASE LoadRules
    <3>1. UNCHANGED <<handler, client, asked, reply, cur, global, filter, info>>
      BY Zenon, <2>1 DEF LoadRules, Merge, Install, classifierVars
    <3>2. RulesInv' /\ pc' \in {"merged", "installed"}
      BY Zenon, <2>1 DEF LoadRules, Merge, Install, MissInv, RulesInv, Rules
    <3>3. ServiceInv'
      BY Zenon, <3>1 DEF MissInv, ServiceInv, ServiceTypeOK, CallInv
    <3> QED
      BY Zenon, <3>2, <3>3 DEF MissInv
  <2>2. CASE Miss
    <3>1. cur' \in Calls /\ info' \in Packets /\ pc' = "asking"
      BY Zenon, <2>2 DEF Miss
    <3>2. RulesInv'
      BY Zenon, <2>2 DEF Miss, MissInv, RulesInv, Rules
    <3>3. PICK type \in {"domain", "ip"} : Ask(cur', type)
      BY Zenon, <2>2 DEF Miss
    <3>4. PICK c \in Calls : c = cur'
      BY Zenon, <3>1
    <3>5. ServiceInv'
      BY Zenon, <3>3, <3>4, AskKeeps DEF MissInv
    <3> QED
      BY Zenon, <3>1, <3>2, <3>5 DEF MissInv
  <2>3. CASE DecideMiss
    <3>1. /\ UNCHANGED <<handler, client, asked, reply, cur, global, filter, proto, policy, info>>
          /\ pc = "asking" /\ pc' = "decided"
      BY Zenon, <2>3 DEF DecideMiss, classifierVars
    <3>2. RulesInv'
      BY Zenon, <3>1 DEF MissInv, RulesInv, Rules
    <3>3. ServiceInv'
      BY Zenon, <3>1 DEF MissInv, ServiceInv, ServiceTypeOK, CallInv
    <3>4. cur \in Calls /\ info \in Packets /\ reply[cur] = Unknown
      BY Zenon, <3>1 DEF MissInv, ServiceInv, ServiceTypeOK
    <3>5. MissVerdict'
      BY Zenon, <2>3, <3>1, <3>4 DEF DecideMiss, MissVerdict
    <3> QED
      BY Zenon, <3>1, <3>2, <3>3, <3>4, <3>5 DEF MissInv
  <2>4. CASE ServiceStep
    <3>1. PICK c \in Calls : HandlerStep(c) \/ ClientStep(c)
      BY Zenon, <2>4 DEF ServiceStep
    <3>2. UNCHANGED <<global, filter, proto, policy, info, resp, sent, pc, cur>>
      BY Zenon, <2>4 DEF ServiceStep, vars
    <3>3. RulesInv'
      BY Zenon, <3>2 DEF MissInv, RulesInv, Rules
    <3>4. ServiceInv'
      BY Zenon, <3>1, HandlerKeeps, ClientKeeps DEF MissInv
    <3>5. ASSUME pc = "decided" PROVE client'[cur] = client[cur]
      <4>1. cur \in Calls /\ client[cur] # "waiting"
        BY Zenon, <3>5 DEF MissInv, MissVerdict
      <4>2. CASE HandlerStep(c)
        BY Zenon, <4>2, HandlerKeeps DEF MissInv
      <4>3. CASE ClientStep(c)
        <5>1. PICK k : client[c] = "waiting" /\ client' = [client EXCEPT ![c] = k]
          BY Zenon, <4>3 DEF ClientStep, Deadline, Deliver
        <5>2. client \in [Calls -> {"none", "waiting", "failed", "answered"}]
          BY Zenon DEF MissInv, ServiceInv, ServiceTypeOK
        <5> QED
          BY <4>1, <5>1, <5>2
      <4> QED
        BY Zenon, <3>1, <4>2, <4>3
    <3> QED
      BY Zenon, <3>2, <3>3, <3>4, <3>5 DEF MissInv, MissVerdict
  <2>5. CASE UNCHANGED allVars
    <3>1. /\ UNCHANGED <<handler, client, asked, reply, cur>>
          /\ UNCHANGED <<global, filter, proto, policy, info, sent, pc>>
      BY Zenon, <2>5 DEF allVars, vars, classifierVars
    <3>2. RulesInv'
      BY Zenon, <3>1 DEF MissInv, RulesInv, Rules
    <3>3. ServiceInv'
      BY Zenon, <3>1 DEF MissInv, ServiceInv, ServiceTypeOK, CallInv
    <3> QED
      BY Zenon, <3>1, <3>2, <3>3 DEF MissInv, MissVerdict
  <2> QED
    BY Zenon, <2>1, <2>2, <2>3, <2>4, <2>5 DEF PathNext
<1> QED
  BY <1>1, <1>2, PTL DEF PathSpec

\* A handler that returns has asked every provider that can be asked exactly
\* once, whatever the other providers and the other handlers did
\* (service.go:67-107), for any number of calls and providers.
THEOREM ProvidersAreAskedOnce == PathSpec => []EveryProviderAskedOnce
<1>1. MissInv => EveryProviderAskedOnce
  BY Zenon DEF MissInv, ServiceInv, CallInv, TimesAsked, EveryProviderAskedOnce, Supported
<1> QED
  BY <1>1, MissInvariance, PTL

\* An answer without a category passes the category rules.
LEMMA UnknownPasses ==
  ASSUME NEW req \in Requests(Unknown), NEW beyond
  PROVE  check_categories_and_trust_level(req, policy, beyond)
<1>1. PICK n : n = MAX_CATEGORIES
  BY Zenon
<1>2. n \in Nat /\ n >= 1 /\ 1 \in 1..n
  BY <1>1, SizeFacts
<1>3. PICK cats : cats = <<"unknown">>
  BY Zenon
<1>4. 1 <= Len(cats) /\ cats[1] = "unknown" /\ Unknown.categories = cats /\ Unknown.trust = 0
  BY <1>3 DEF Unknown
<1>5. req.get_trust_level = 0 /\ req.get_categories[1] = "unknown"
  <2>1. PICK tail : req = [get_categories |-> [i \in 1..n |-> IF i <= Len(cats) THEN cats[i] ELSE tail[i]],
                           get_trust_level |-> 0]
    BY Zenon, <1>1, <1>4 DEF Requests
  <2>2. /\ req.get_trust_level = 0
        /\ req.get_categories[1] = IF 1 <= Len(cats) THEN cats[1] ELSE tail[1]
    BY Zenon, <1>2, <2>1
  <2> QED
    BY Zenon, <1>4, <2>2
<1> QED
  BY Zenon, <1>5 DEF check_categories_and_trust_level

\* A packet whose destination the tables reach is sent exactly when no block list
\* names it or its call has failed: no category and no trust level ever decides,
\* because the body of a provider's answer is closed before it is decoded
\* (service.go:80-91, proc_packets.c:183-188).
OnlyListsDecide ==
  pc = "decided" /\ InReach => (sent <=> ~OnBlockList \/ client[cur] = "failed")

THEOREM CategoriesNeverDecide == PathSpec => []OnlyListsDecide
<1>1. MissInv => OnlyListsDecide
  <2> SUFFICES ASSUME MissInv, pc = "decided", InReach
               PROVE  sent <=> ~OnBlockList \/ client[cur] = "failed"
    BY Zenon DEF OnlyListsDecide
  <2>1. CASE client[cur] = "failed" /\ sent
    BY Zenon, <2>1
  <2>2. CASE client[cur] = "answered"
    <3>1. client[cur] # "failed"
      BY Zenon, <2>2
    <3>2. PICK req \in Requests(Unknown), beyond \in BOOLEAN :
            sent = Verdict(req, policy, info, beyond)
      BY Zenon, <3>1 DEF MissInv, MissVerdict
    <3>3. /\ Rules /\ \E K : policy = BasePolicy(GetWorkerPolicyProto(global, filter), K)
          /\ info \in Packets
      BY Zenon DEF MissInv, RulesInv
    <3> QED
      BY Zenon, <3>1, <3>2, <3>3, ListsFirst, UnknownPasses
  <2> QED
    BY Zenon, <2>1, <2>2 DEF MissInv, MissVerdict
<1> QED
  BY <1>1, MissInvariance, PTL

\* A destination on a block list passes only when its call has failed, and one
\* that is allowed and not blocked always passes (proc_packets.c:183-188, 249-255),
\* for all sections that fit in the tables and any number of calls.
THEOREM ListsAlwaysDecide == PathSpec => []ListsDecide
<1>1. OnlyListsDecide => ListsDecide
  BY Zenon DEF OnlyListsDecide, ListsDecide
<1> QED
  BY <1>1, CategoriesNeverDecide, PTL

-----------------------------------------------------------------------------
(* The category rules of PolicyFilter.                                       *)

F == INSTANCE FiniteSetTheorems

LEMMA SameCount ==
  \A S : (F!IsFiniteSet(S) <=> IsFiniteSet(S)) /\ F!Cardinality(S) = Cardinality(S)
  BY DEF F!IsFiniteSet, F!Cardinality, IsFiniteSet, Cardinality

IsListing(s, S) == s \in [1..Cardinality(S) -> S] /\ Elems(s) = S

LEMMA ListingExists ==
  ASSUME NEW S, IsFiniteSet(S)
  PROVE  Cardinality(S) \in Nat /\ \E s : IsListing(s, S)
<1>1. Cardinality(S) \in Nat /\ F!ExistsBijection(1..Cardinality(S), S)
  BY Zenon, F!FS_CardinalityType, SameCount
<1>2. PICK s \in [1..Cardinality(S) -> S] : \A t \in S : \E i \in 1..Cardinality(S) : s[i] = t
  BY Zenon, <1>1 DEF F!ExistsBijection, F!Bijection, F!Surjection
<1>3. Elems(s) = S
  BY Zenon, <1>2 DEF Elems
<1> QED
  BY ZenonT(60), <1>1, <1>2, <1>3 DEF IsListing

HasThreshold(table, c, lvl) == \E i \in DOMAIN table : table[i].cat = c /\ table[i].lvl = lvl

\* The table has the thresholds m gives for K, and no others.
HasExactly(table, m, K) ==
  /\ \A c \in K : HasThreshold(table, c, m[c])
  /\ \A i \in DOMAIN table :
       table[i].cat # "" => table[i].cat \in K /\ table[i].lvl = m[table[i].cat]

LEMMA TrustTableFacts ==
  ASSUME NEW m, NEW K, IsFiniteSet(K), Cardinality(K) <= MAX_CATEGORIES_BY_TRUST_LVL,
         NEW table, table = TrustTable(m, K)
  PROVE  HasExactly(table, m, K)
<1>1. PICK n, k : n = MAX_CATEGORIES_BY_TRUST_LVL /\ k = Cardinality(K)
  BY Zenon
<1>2. n \in Nat /\ k \in Nat /\ k <= n
  BY ZenonT(60), <1>1, SizeFacts, ListingExists
<1>3. PICK s : /\ IsListing(s, K)
               /\ table = [i \in 1..n |-> IF i <= Len(s) THEN [cat |-> s[i], lvl |-> m[s[i]]]
                                                       ELSE [cat |-> "", lvl |-> 0]]
  <2>1. \E s : IsListing(s, K)
    BY Zenon, ListingExists
  <2>2. PICK s : s = CHOOSE u \in [1..Cardinality(K) -> K] : Elems(u) = K
    BY Zenon
  <2>3. IsListing(s, K)
    BY ZenonT(60), <2>1, <2>2 DEF IsListing
  <2> QED
    BY ZenonT(60), <1>1, <2>2, <2>3 DEF TrustTable
<1>4. s \in [1..k -> K] /\ Elems(s) = K
  BY Zenon, <1>1, <1>3 DEF IsListing
<1>5. Len(s) = k /\ DOMAIN table = 1..n
  <2>1. Len(s) = k
    BY <1>2, <1>4
  <2>2. DOMAIN table = 1..n
    BY Zenon, <1>3
  <2> QED
    BY Zenon, <2>1, <2>2
<1>6. ASSUME NEW c \in K PROVE HasThreshold(table, c, m[c])
  <2>1. PICK i \in 1..k : s[i] = c
    BY Zenon, <1>4 DEF Elems
  <2>2. i \in 1..n /\ i <= Len(s)
    BY <1>2, <1>5
  <2>3. table[i] = [cat |-> s[i], lvl |-> m[s[i]]]
    BY ZenonT(60), <1>3, <2>2
  <2>4. i \in DOMAIN table /\ table[i].cat = c /\ table[i].lvl = m[c]
    BY <1>5, <2>1, <2>2, <2>3
  <2> QED
    BY Zenon, <2>4 DEF HasThreshold
<1>7. ASSUME NEW i \in DOMAIN table, table[i].cat # ""
      PROVE  table[i].cat \in K /\ table[i].lvl = m[table[i].cat]
  <2>1. i \in 1..n /\ table[i] = IF i <= Len(s) THEN [cat |-> s[i], lvl |-> m[s[i]]]
                                              ELSE [cat |-> "", lvl |-> 0]
    BY ZenonT(60), <1>3, <1>5
  <2>2. i <= Len(s)
    <3>1. [cat |-> "", lvl |-> 0].cat = ""
      BY Zenon
    <3> QED
      BY Zenon, <1>7, <2>1, <3>1
  <2>3. table[i].cat = s[i] /\ table[i].lvl = m[s[i]]
    BY <2>1, <2>2
  <2>4. s[i] \in K
    BY <1>2, <1>4, <1>5, <2>1, <2>2
  <2> QED
    BY Zenon, <2>3, <2>4
<1> QED
  BY Zenon, <1>6, <1>7 DEF HasExactly

\* The merged thresholds are those the sections say.
LEMMA MergedThresholds ==
  ASSUME Rules, NEW m, m = GetWorkerPolicyProto(global, filter).block_by_trust
  PROVE  /\ DOMAIN m = DOMAIN global.BlockByTrust \cup DOMAIN filter.BlockByTrust
         /\ IsFiniteSet(DOMAIN m)
         /\ \A c \in DOMAIN m : Threshold(c) = {m[c]}
         /\ \A c : \A t \in Threshold(c) : c \in DOMAIN m /\ m[c] = t
<1>1. IsSection(global) /\ IsSection(filter)
  BY Zenon, InputAssumption DEF Rules
<1>2. m = MergeTrust(global.BlockByTrust, filter.BlockByTrust)
  BY ZenonT(60), ProtoFacts
<1>3. PICK S, T : S = DOMAIN filter.BlockByTrust /\ T = DOMAIN global.BlockByTrust
  BY Zenon
<1>4. /\ DOMAIN m = S \cup T
      /\ \A c \in DOMAIN m : m[c] = IF c \in S THEN filter.BlockByTrust[c] ELSE global.BlockByTrust[c]
  BY Zenon, <1>2, <1>3 DEF MergeTrust
<1>5. IsFiniteSet(DOMAIN m)
  <2>1. F!IsFiniteSet(S) /\ F!IsFiniteSet(T)
    BY ZenonT(60), <1>1, <1>3, SameCount DEF IsSection
  <2>2. F!IsFiniteSet(S \cup T)
    BY ZenonT(60), <2>1, F!FS_Union
  <2> QED
    BY ZenonT(60), <1>4, <2>2, SameCount
<1>6. \A c : Threshold(c) = IF c \in S THEN {filter.BlockByTrust[c]}
                           ELSE IF c \in T THEN {global.BlockByTrust[c]} ELSE {}
  BY Zenon, <1>3 DEF Threshold
<1>7. DOMAIN m = T \cup S
  BY Zenon, <1>4
<1>8. ASSUME NEW c \in DOMAIN m PROVE Threshold(c) = {m[c]}
  BY ZenonT(60), <1>4, <1>6
<1>9. ASSUME NEW c, NEW t \in Threshold(c) PROVE c \in DOMAIN m /\ m[c] = t
  BY ZenonT(60), <1>4, <1>6
<1> QED
  BY ZenonT(60), <1>3, <1>5, <1>7, <1>8, <1>9

\* The thresholds and the least trust level in force are in the policy, all of
\* them if there is room.
LEMMA TrustFacts ==
  ASSUME Rules, NEW pol, NEW K \in Kept(GetWorkerPolicyProto(global, filter).block_by_trust),
         pol = BasePolicy(GetWorkerPolicyProto(global, filter), K),
         NEW table, table = pol.categories_with_lvl
  PROVE  /\ ThresholdsFit => \A c : \A t \in Threshold(c) : HasThreshold(table, c, t)
         /\ \A i \in DOMAIN table : table[i].cat # "" => Threshold(table[i].cat) = {table[i].lvl}
         /\ \A t \in MinTrust : pol.min_trust_level = t
<1>1. IsSection(global) /\ IsSection(filter)
  BY Zenon, InputAssumption DEF Rules
<1>2. PICK p, m, n : p = GetWorkerPolicyProto(global, filter) /\ m = p.block_by_trust
                     /\ n = MAX_CATEGORIES_BY_TRUST_LVL
  BY Zenon
<1>3. /\ p.min_trust_level = Value(MinTrust)
      /\ table = TrustTable(m, K) /\ pol.min_trust_level = p.min_trust_level
  <2>1. p.min_trust_level = Value(MinTrust)
    BY ZenonT(60), <1>2, ProtoFacts
  <2>2. pol.categories_with_lvl = TrustTable(p.block_by_trust, K)
    BY Zenon, <1>2 DEF BasePolicy
  <2>3. pol.min_trust_level = p.min_trust_level
    BY Zenon, <1>2 DEF BasePolicy
  <2> QED
    BY ZenonT(60), <1>2, <2>1, <2>2, <2>3
<1>4. /\ DOMAIN m = DOMAIN global.BlockByTrust \cup DOMAIN filter.BlockByTrust
      /\ IsFiniteSet(DOMAIN m)
      /\ \A c \in DOMAIN m : Threshold(c) = {m[c]}
      /\ \A c : \A t \in Threshold(c) : c \in DOMAIN m /\ m[c] = t
  BY ZenonT(60), <1>2, MergedThresholds
<1>5. K \in SUBSET DOMAIN m /\ Cardinality(K) = Min2(Cardinality(DOMAIN m), n)
  BY ZenonT(60), <1>2 DEF Kept
<1>6. /\ IsFiniteSet(K) /\ Cardinality(K) \in Nat /\ Cardinality(DOMAIN m) \in Nat /\ n \in Nat
      /\ Cardinality(DOMAIN m) = Cardinality(K) => K = DOMAIN m
  <2>1. F!IsFiniteSet(DOMAIN m)
    BY ZenonT(60), <1>4, SameCount
  <2>2. F!IsFiniteSet(K) /\ (F!Cardinality(DOMAIN m) = F!Cardinality(K) => DOMAIN m = K)
    BY ZenonT(60), <1>5, <2>1, F!FS_Subset
  <2>3. F!Cardinality(K) \in Nat /\ F!Cardinality(DOMAIN m) \in Nat
    BY ZenonT(60), <2>1, <2>2, F!FS_CardinalityType
  <2> QED
    BY ZenonT(60), <1>2, <2>2, <2>3, SameCount, SizeFacts
<1>7. Cardinality(K) <= n /\ (Cardinality(DOMAIN m) <= n => Cardinality(K) = Cardinality(DOMAIN m))
  BY <1>5, <1>6 DEF Min2
<1>8. HasExactly(table, m, K)
  <2>1. IsFiniteSet(K) /\ Cardinality(K) <= MAX_CATEGORIES_BY_TRUST_LVL /\ table = TrustTable(m, K)
    BY Zenon, <1>2, <1>3, <1>6, <1>7
  <2> QED
    BY ZenonT(60), <2>1, TrustTableFacts
<1>9. ASSUME ThresholdsFit, NEW c, NEW t \in Threshold(c) PROVE HasThreshold(table, c, t)
  <2>1. Cardinality(DOMAIN m) <= n
    BY ZenonT(60), <1>2, <1>4, <1>9 DEF ThresholdsFit
  <2>2. c \in K /\ m[c] = t
    BY ZenonT(60), <1>4, <1>6, <1>7, <2>1
  <2> QED
    BY ZenonT(60), <1>8, <2>2 DEF HasExactly
<1>10. ASSUME NEW i \in DOMAIN table, table[i].cat # "" PROVE Threshold(table[i].cat) = {table[i].lvl}
  <2>1. table[i].cat \in DOMAIN m /\ table[i].lvl = m[table[i].cat]
    BY ZenonT(60), <1>5, <1>8, <1>10 DEF HasExactly
  <2> QED
    BY ZenonT(60), <1>4, <2>1
<1>11. ASSUME NEW t \in MinTrust PROVE Value(MinTrust) = t
  <2>1. MinTrust = {t}
    BY ZenonT(60), <1>1, <1>11 DEF MinTrust, IsSection
  <2> QED
    BY Zenon, <2>1 DEF Value
<1> QED
  BY ZenonT(60), <1>3, <1>9, <1>10, <1>11

\* What passes the category rules is unclassified, or permitted by them.
LEMMA PassingIsPermitted ==
  ASSUME Rules, NEW K \in Kept(GetWorkerPolicyProto(global, filter).block_by_trust),
         policy = BasePolicy(GetWorkerPolicyProto(global, filter), K), resp \in Responses,
         NEW req \in Requests(resp), NEW beyond \in BOOLEAN,
         check_categories_and_trust_level(req, policy, beyond)
  PROVE  Unclassified \/ CategoriesPermit
<1>1. PICK n, cats : n = MAX_CATEGORIES /\ cats = resp.categories
  BY Zenon
<1>2. /\ n \in Nat /\ cats \in Seq(STRING) /\ Len(cats) \in 1..n
      /\ "unknown" \in Elems(cats) => Unclassified
  BY ZenonT(60), <1>1, SizeFacts, InputAssumption DEF Unclassified
<1>3. /\ DOMAIN cats = 1..Len(cats)
      /\ \A i \in 1..Len(cats) : i \in 1..n /\ i <= Len(cats)
      /\ 1 \in 1..Len(cats)
  BY <1>2
<1>4. PICK tail : req = [get_categories |-> [i \in 1..n |-> IF i <= Len(cats) THEN cats[i] ELSE tail[i]],
                         get_trust_level |-> resp.trust]
  BY Zenon, <1>1 DEF Requests
<1>5. PICK get : get = req.get_categories
  BY Zenon
<1>6. DOMAIN get = 1..n /\ (\A i \in 1..Len(cats) : get[i] = cats[i]) /\ req.get_trust_level = resp.trust
  <2>1. /\ get = [i \in 1..n |-> IF i <= Len(cats) THEN cats[i] ELSE tail[i]]
        /\ req.get_trust_level = resp.trust
    BY ZenonT(60), <1>4, <1>5
  <2> QED
    BY Zenon, <1>3, <2>1
<1>7. CASE req.get_categories[1] = "unknown"
  <2>1. cats[1] = "unknown"
    BY ZenonT(60), <1>3, <1>5, <1>6, <1>7
  <2>2. "unknown" \in Elems(cats)
    BY ZenonT(60), <1>3, <2>1 DEF Elems
  <2> QED
    BY ZenonT(60), <1>2, <2>2
<1>8. CASE req.get_categories[1] # "unknown"
  <2>1. /\ check_categories(get, policy.locked_categories)
        /\ check_trust_level(resp.trust, policy.min_trust_level)
        /\ check_categories_with_lvl(req, policy.categories_with_lvl)
    BY ZenonT(60), <1>5, <1>6, <1>8 DEF check_categories_and_trust_level
  <2>2. ASSUME NEW c \in Elems(cats)
        PROVE  /\ ~InList("BlockCategories", c)
               /\ ThresholdsFit => \A t \in Threshold(c) : resp.trust >= t
    <3>1. PICK j \in 1..n : get[j] = c
      <4>1. PICK i \in 1..Len(cats) : cats[i] = c
        BY ZenonT(60), <1>3 DEF Elems
      <4>2. i \in 1..n /\ get[i] = c
        BY ZenonT(60), <1>3, <1>6, <4>1
      <4> QED
        BY Zenon, <4>2
    <3>2. ~InList("BlockCategories", c)
      <4> SUFFICES ASSUME InList("BlockCategories", c) PROVE FALSE
        BY Zenon
      <4>1. PICK i \in DOMAIN policy.locked_categories : policy.locked_categories[i] = c
        BY Zenon, LockedCategories
      <4> QED
        BY ZenonT(60), <1>6, <2>1, <3>1, <4>1 DEF check_categories
    <3>3. ASSUME ThresholdsFit, NEW t \in Threshold(c) PROVE resp.trust >= t
      <4>1. PICK table : table = policy.categories_with_lvl
        BY Zenon
      <4>2. HasThreshold(table, c, t)
        BY ZenonT(60), <3>3, <4>1, TrustFacts
      <4>3. PICK i \in DOMAIN table : table[i].cat = c /\ table[i].lvl = t
        BY ZenonT(60), <4>2 DEF HasThreshold
      <4>4. req.get_categories[j] = table[i].cat => req.get_trust_level >= table[i].lvl
        BY ZenonT(60), <1>5, <1>6, <2>1, <4>1 DEF check_categories_with_lvl
      <4> QED
        BY ZenonT(60), <1>5, <1>6, <3>1, <4>3, <4>4
    <3> QED
      BY ZenonT(60), <3>2, <3>3
  <2>3. \A t \in MinTrust : resp.trust >= t
    BY ZenonT(60), <2>1, TrustFacts DEF check_trust_level
  <2> QED
    BY ZenonT(60), <1>1, <2>2, <2>3 DEF CategoriesPermit
<1> QED
  BY Zenon, <1>7, <1>8

\* A destination that the tables reach is let through only if the two sections
\* together permit it (policy_manager.go:45-174, filtr_packets.c:161-193), for
\* all sections that fit in the tables and whatever the stack held.
THEOREM OnlyPermittedIsSent == Spec => []SentOnlyIfPermitted
<1>1. FilterInv => SentOnlyIfPermitted
  <2> SUFFICES ASSUME FilterInv, pc = "decided", sent, InReach
               PROVE  ~OnBlockList /\ (OnAllowList \/ Unclassified \/ CategoriesPermit)
    BY Zenon DEF SentOnlyIfPermitted
  <2>1. /\ Rules /\ info \in Packets /\ resp \in Responses
        /\ \E K \in Kept(GetWorkerPolicyProto(global, filter).block_by_trust) :
             policy = BasePolicy(GetWorkerPolicyProto(global, filter), K)
    BY Zenon DEF FilterInv, RulesInv, VerdictInv
  <2>2. PICK req \in Requests(resp), beyond \in BOOLEAN : Verdict(req, policy, info, beyond)
    BY Zenon DEF FilterInv, VerdictInv
  <2>3. ~OnBlockList /\ (OnAllowList \/ check_categories_and_trust_level(req, policy, beyond))
    BY ZenonT(60), <2>1, <2>2, ListsFirst
  <2> QED
    BY ZenonT(60), <2>1, <2>3, PassingIsPermitted
<1> QED
  BY <1>1, FilterInvariance, PTL

\* The tables of the worker hold what either section lists, as far as they reach
\* (policy_manager.go:45-174, worker.cpp:186-274).
THEOREM TablesAreFaithful == Spec => []TablesHoldBothSections
<1>1. FilterInv => TablesHoldBothSections
  <2> SUFFICES ASSUME FilterInv, pc \in {"installed", "decided"} PROVE TablesHoldBothSections
    BY Zenon DEF TablesHoldBothSections
  <2>1. PICK K \in Kept(GetWorkerPolicyProto(global, filter).block_by_trust) :
          policy = BasePolicy(GetWorkerPolicyProto(global, filter), K)
    BY Zenon DEF FilterInv, RulesInv
  <2>a. Rules
    BY Zenon DEF FilterInv, RulesInv
  <2>2. ASSUME NEW d \in {p.domain : p \in Packets} \ {""}
        PROVE  /\ DomainIn(d, policy.block_domains) <=>
                     InList("BlockDomains", d) /\ DomainInReach("BlockDomains", d)
               /\ InList("AllowDomains", d) /\ DomainInReach("AllowDomains", d) =>
                     DomainIn(d, policy.allow_domains)
               /\ DomainIn(d, policy.allow_domains) =>
                     InList("AllowDomains", d) \/ Overruns("BlockDomains", d)
    BY Zenon, <2>1, <2>a, <2>2, BlockedDomains, AllowedDomains DEF Blank
  <2>3. ASSUME NEW a \in {p.ip : p \in Packets}
        PROVE  /\ IpIn(a, policy.block_ip) <=> InList("BlockIps", a) /\ IpInReach("BlockIps", a)
               /\ IpIn(a, policy.allow_ip) <=> InList("AllowIps", a) /\ IpInReach("AllowIps", a)
    <3>1. a \in Addresses /\ a.ver # 0
      BY Zenon, <2>3, InputAssumption
    <3> QED
      BY Zenon, <2>1, <2>a, <3>1, ListedIps
  <2>4. PICK table, m : table = policy.categories_with_lvl
                        /\ m = GetWorkerPolicyProto(global, filter).block_by_trust
    BY Zenon
  <2>5. /\ ThresholdsFit => \A c : \A t \in Threshold(c) : HasThreshold(table, c, t)
        /\ \A i \in DOMAIN table : table[i].cat # "" => Threshold(table[i].cat) = {table[i].lvl}
    BY ZenonT(60), <2>1, <2>a, <2>4, TrustFacts
  <2>6. ASSUME ThresholdsFit, NEW c \in DOMAIN global.BlockByTrust \cup DOMAIN filter.BlockByTrust
        PROVE  \E i \in DOMAIN table : table[i].cat = c /\ Threshold(c) = {table[i].lvl}
    <3>1. Threshold(c) = {m[c]}
      BY ZenonT(60), <2>a, <2>4, <2>6, MergedThresholds
    <3>2. HasThreshold(table, c, m[c])
      BY ZenonT(60), <2>5, <2>6, <3>1
    <3> QED
      BY ZenonT(60), <3>1, <3>2 DEF HasThreshold
  <2> QED
    BY ZenonT(60), <2>2, <2>3, <2>4, <2>5, <2>6 DEF TablesHoldBothSections
<1> QED
  BY <1>1, FilterInvariance, PTL
=============================================================================
