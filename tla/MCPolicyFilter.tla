--------------------------- MODULE MCPolicyFilter ---------------------------
(* The rule sections, packets and classifications PolicyFilter is run with.  *)
EXTENDS PolicyFilter, TLC

Ip(v, b, r) == [ver |-> v, first |-> b, rest |-> r]
V4 == Ip(4, 1, 0)
W4 == Ip(4, 2, 0)
V6 == Ip(6, 1, 0)
LowV6 == Ip(6, 0, 1)
NotAnIp == Ip(0, 0, 0)

NoRules == [BlockCategories |-> <<>>, BlockByTrust |-> <<>>, BlockDomains |-> <<>>,
            AllowDomains |-> <<>>, BlockIps |-> <<>>, AllowIps |-> <<>>, MinTrustLevel |-> {}]

UpTo(S, n) == UNION {[1..k -> S] : k \in 0..n}

DomainSections(b, a) == {[NoRules EXCEPT !.BlockDomains = x, !.AllowDomains = y] :
                          x \in UpTo({"d1", "d2"}, b), y \in UpTo({"d1", "d2"}, a)}
IpSections(S, b, a) == {[NoRules EXCEPT !.BlockIps = x, !.AllowIps = y] :
                         x \in UpTo(S, b), y \in UpTo(S, a)}
CategorySections == {[NoRules EXCEPT !.BlockCategories = x, !.BlockByTrust = y, !.MinTrustLevel = z] :
                      x \in UpTo({"c1", "c2"}, 1),
                      y \in {<<>>, "c1" :> 1, "c1" :> 2, "c1" :> 2 @@ "c2" :> 1},
                      z \in {{}, {0}, {2}}}

\* Four blocked domains for a table of three, with and without an allowed one
\* that is written over the fourth; one of them twice; an empty name.
LongLists ==
  {<<[NoRules EXCEPT !.BlockDomains = <<"d1", "d2", "d3">>, !.AllowDomains = a],
     [NoRules EXCEPT !.BlockDomains = <<"d4">>]>> : a \in UpTo({"d1", "d5"}, 1)}
  \cup {<<[NoRules EXCEPT !.BlockDomains = b, !.AllowDomains = a], NoRules>> :
          b \in {<<"d1", "d2", "d3", "d1">>, <<"", "d1">>}, a \in {<<>>, <<"", "d1">>, <<"d2", "">>}}

\* Addresses with a first byte of zero, in front of others and behind them.
LowAddresses == IpSections({V6, LowV6}, 2, 1) \X {NoRules}

\* Three or four thresholds for a table of two.
ManyThresholds ==
  {[NoRules EXCEPT !.BlockByTrust = "c1" :> 2 @@ "c2" :> 1]}
    \X {[NoRules EXCEPT !.BlockByTrust = m] :
          m \in {"c3" :> 1, "c1" :> 1 @@ "c3" :> 2, "c3" :> 0 @@ "c4" :> 1}}

AllSections ==
  (DomainSections(2, 1) \X DomainSections(1, 1)) \cup LongLists
  \cup (IpSections({V4, W4, V6}, 2, 1) \X IpSections({V4, W4}, 1, 0))
  \cup (IpSections({V4, NotAnIp}, 2, 1) \X IpSections({V4, V6}, 0, 1)) \cup LowAddresses
  \cup (CategorySections \X CategorySections) \cup ManyThresholds

AllPackets == {[domain |-> d, ip |-> a] : d \in {"", "d1", "d2", "d4"}, a \in {V4, V6}}
              \cup {[domain |-> "", ip |-> a] : a \in {W4, LowV6}}
Classified == {[categories |-> c, trust |-> t] : c \in UpTo({"c1", "c2"}, 2) \ {<<>>}, t \in 0..2}
Unknown == [categories |-> <<"unknown">>, trust |-> 0]
AllResponses == Classified \cup {Unknown}

DomainsOnBothLists == DomainSections(1, 0) \X DomainSections(0, 1)
=============================================================================
