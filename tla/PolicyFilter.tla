---------------------------- MODULE PolicyFilter ----------------------------
(***************************************************************************)
(* What a policy means: from the two rule sections of the configuration     *)
(* (policy_manager.go GetWorkerPolicyProto), through the fixed-size tables   *)
(* of the worker (worker.cpp requestPolicyFromController), to the verdict on *)
(* one destination (filtr_packets.c). Each stage is one step, so that the    *)
(* verdict can be compared with what the sections said.                      *)
(*                                                                           *)
(* Names and categories are values, "" the empty string. An address is its   *)
(* version, its first byte and the rest; version 0 is a text that is no      *)
(* address. A nil pointer of TOMLRules is the empty set, a set pointer the   *)
(* set of its value. The two TTLs merge like MinTrustLevel and decide        *)
(* nothing here.                                                             *)
(***************************************************************************)
EXTENDS Integers, Sequences, FiniteSets

CONSTANTS Sections,     \* pairs of a [global.rules] and a [filters.filter_N] section;
                        \* a section without entries is a missing one
          Packets,      \* info_of_pakage: [domain, ip]; without an IP header the
                        \* address is read as version 6, all zero
          Responses,    \* Classify answers: [categories, trust]
          Junk,         \* category names an uninitialised slot may hold
          MAX_CATEGORIES, MAX_CATEGORIES_BY_TRUST_LVL, MAX_DOMAINS, MAX_IP

ASSUME FilterAssumption ==
  /\ {MAX_CATEGORIES, MAX_CATEGORIES_BY_TRUST_LVL, MAX_DOMAINS, MAX_IP} \subseteq Nat \ {0}
  /\ MAX_CATEGORIES_BY_TRUST_LVL <= MAX_CATEGORIES

VARIABLES global, filter,  \* the sections for this worker
          proto,           \* WorkerPolicy as sent
          policy,          \* BASE_POLICY as installed
          info, resp,      \* the packet and its classification
          sent,            \* the verdict
          pc

vars == <<global, filter, proto, policy, info, resp, sent, pc>>

Elems(s) == {s[i] : i \in DOMAIN s}

-----------------------------------------------------------------------------
(* The controller.                                                           *)

\* The elements of s that are in S, in their order: a loop that appends some.
Filtered(s, S) ==
  LET upTo[n \in 0..Len(s)] ==
        IF n = 0 THEN <<>>
        ELSE IF s[n] \in S THEN Append(upTo[n - 1], s[n]) ELSE upTo[n - 1]
  IN  upTo[Len(s)]

\* Global entries first, then the filter's new ones.
Append2(s, t) == s \o Filtered(t, Elems(t) \ Elems(s))

\* A category's level in the filter overwrites the global one.
MergeTrust(g, f) ==
  [c \in DOMAIN f \cup DOMAIN g |-> IF c \in DOMAIN f THEN f[c] ELSE g[c]]

Override(g, f) == IF f # {} THEN f ELSE g

\* A pointer left nil leaves the proto field at its zero.
Value(p) == IF p = {} THEN 0 ELSE CHOOSE v \in p : TRUE

\* Mutant: allow lists of a filter replace the global ones.
GetWorkerPolicyProtoReplaces(g, f) ==
  [block_categories |-> Append2(g.BlockCategories, f.BlockCategories),
   block_by_trust   |-> MergeTrust(g.BlockByTrust, f.BlockByTrust),
   block_domains    |-> Append2(g.BlockDomains, f.BlockDomains),
   allow_domains    |-> IF f.AllowDomains = <<>> THEN g.AllowDomains ELSE f.AllowDomains,
   block_ips        |-> Append2(g.BlockIps, f.BlockIps),
   allow_ips        |-> IF f.AllowIps = <<>> THEN g.AllowIps ELSE f.AllowIps,
   min_trust_level  |-> Value(Override(g.MinTrustLevel, f.MinTrustLevel))]

GetWorkerPolicyProto(g, f) ==
  [block_categories |-> Append2(g.BlockCategories, f.BlockCategories),
   block_by_trust   |-> MergeTrust(g.BlockByTrust, f.BlockByTrust),
   block_domains    |-> Append2(g.BlockDomains, f.BlockDomains),
   allow_domains    |-> Append2(g.AllowDomains, f.AllowDomains),
   block_ips        |-> Append2(g.BlockIps, f.BlockIps),
   allow_ips        |-> Append2(g.AllowIps, f.AllowIps),
   min_trust_level  |-> Value(Override(g.MinTrustLevel, f.MinTrustLevel))]

-----------------------------------------------------------------------------
(* The worker's tables, zero-filled by the memset. The domain loops do not   *)
(* look at the table's size: block_domains runs over into allow_domains,     *)
(* which is next in the struct and written after it. Lists long enough to    *)
(* leave both tables, and category lists longer than theirs, are left out.   *)
(* Thresholds beyond their table are dropped.                                *)

Zeroed(s, n, zero) == [i \in 1..n |-> IF i <= Len(s) THEN s[i] ELSE zero]

Min2(a, b) == IF a <= b THEN a ELSE b

NoIp(v) == [ver |-> v, first |-> 0, rest |-> 0]

\* inet_pton for each entry.
OfVersion(s, v) == Filtered(s, {x \in Elems(s) : x.ver = v})

\* Only the address loops stop at the table's end.
IpTable(s, v) ==
  LET a == OfVersion(s, v)
  IN Zeroed(SubSeq(a, 1, Min2(Len(a), MAX_IP)), MAX_IP, NoIp(v))

\* The thresholds the loop gets to before the table is full. The order of the
\* protobuf map is unspecified, so they may be any.
Kept(m) ==
  {K \in SUBSET DOMAIN m :
     Cardinality(K) = Min2(Cardinality(DOMAIN m), MAX_CATEGORIES_BY_TRUST_LVL)}

\* Among themselves their order matters for no comparison.
TrustTable(m, kept) ==
  LET s == CHOOSE s \in [1..Cardinality(kept) -> kept] : Elems(s) = kept
  IN [i \in 1..MAX_CATEGORIES_BY_TRUST_LVL |->
        IF i <= Len(s) THEN [cat |-> s[i], lvl |-> m[s[i]]] ELSE [cat |-> "", lvl |-> 0]]

DomainTables(p) ==
  LET block == Zeroed(p.block_domains, 2 * MAX_DOMAINS, "")
  IN [i \in 1..2 * MAX_DOMAINS |->
        IF i - MAX_DOMAINS \in DOMAIN p.allow_domains THEN p.allow_domains[i - MAX_DOMAINS]
                                                      ELSE block[i]]

BasePolicy(p, kept) ==
  [locked_categories   |-> Zeroed(p.block_categories, MAX_CATEGORIES, ""),
   categories_with_lvl |-> TrustTable(p.block_by_trust, kept),
   block_domains       |-> SubSeq(DomainTables(p), 1, MAX_DOMAINS),
   allow_domains       |-> SubSeq(DomainTables(p), MAX_DOMAINS + 1, 2 * MAX_DOMAINS),
   block_ip            |-> [v \in {4, 6} |-> IpTable(p.block_ips, v)],
   allow_ip            |-> [v \in {4, 6} |-> IpTable(p.allow_ips, v)],
   min_trust_level     |-> p.min_trust_level]

Addresses == [ver : {0, 4, 6}, first : 0..255, rest : Nat]

\* A section as it is read, with int32 levels.
IsSection(r) ==
  /\ \A l \in {r.BlockCategories, r.BlockDomains, r.AllowDomains} : l \in Seq(STRING)
  /\ \A l \in {r.BlockIps, r.AllowIps} : l \in Seq(Addresses)
  /\ IsFiniteSet(DOMAIN r.BlockByTrust) /\ \A c \in DOMAIN r.BlockByTrust : r.BlockByTrust[c] \in Int
  /\ \A t \in r.MinTrustLevel : t \in Int /\ r.MinTrustLevel = {t}

\* The lists the model leaves out.
Fits(p) ==
  /\ Len(p.block_categories) <= MAX_CATEGORIES
  /\ Len(p.block_domains) <= 2 * MAX_DOMAINS /\ Len(p.allow_domains) <= MAX_DOMAINS

\* "unknown" is the answer when nothing is found, and the name of no category.
ASSUME InputAssumption ==
  /\ \A s \in Sections : IsSection(s[1]) /\ IsSection(s[2]) /\ Fits(GetWorkerPolicyProto(s[1], s[2]))
  /\ \A p \in Packets : p.domain \in STRING /\ p.ip \in Addresses /\ p.ip.ver # 0
  /\ \A r \in Responses :
       /\ r.categories \in Seq(STRING) /\ Len(r.categories) \in 1..MAX_CATEGORIES /\ r.trust \in Int
       /\ "unknown" \in Elems(r.categories) => r.categories = <<"unknown">> /\ r.trust = 0

-----------------------------------------------------------------------------
(* The verdict. A table ends at its first empty entry.                       *)

Listed(table, Empty(_)) ==
  {table[i] : i \in {j \in DOMAIN table : \A h \in 1..j : ~Empty(table[h])}}

DomainIn(d, table) == d \in Listed(table, LAMBDA x : x = "")

\* An IPv4 entry is empty when it is 0.0.0.0, an IPv6 entry when its first byte
\* is 0.
IpIn(ip, tables) ==
  ip \in Listed(tables[ip.ver], LAMBDA x : x.first = 0 /\ (ip.ver = 6 \/ x.rest = 0))

\* struct requested_classification is not initialised: the slots behind the
\* answered categories hold what the stack held.
Requests(r) ==
  {[get_categories |-> [i \in 1..MAX_CATEGORIES |->
                          IF i <= Len(r.categories) THEN r.categories[i] ELSE tail[i]],
    get_trust_level |-> r.trust] : tail \in [1..MAX_CATEGORIES -> Junk]}

check_categories(get, locked) == \A i \in DOMAIN get, j \in DOMAIN locked : get[i] # locked[j]

check_trust_level(get, min) == get >= min

\* Mutant: one category that passes is enough.
check_categories_with_lvl_any(req, table) ==
  \E i \in DOMAIN table, j \in DOMAIN req.get_categories :
    req.get_categories[j] = table[i].cat => req.get_trust_level >= table[i].lvl

check_categories_with_lvl(req, table) ==
  \A i \in DOMAIN table, j \in DOMAIN req.get_categories :
    req.get_categories[j] = table[i].cat => req.get_trust_level >= table[i].lvl

\* The loop over categories_with_lvl goes on to MAX_CATEGORIES, behind the table:
\* TTLs and domain names, read as empty names with any level (beyond: none of
\* them above the trust level) or as names of no category.
check_categories_and_trust_level(req, pol, beyond) ==
  \/ req.get_trust_level = 0 /\ req.get_categories[1] = "unknown"
  \/ /\ check_categories(req.get_categories, pol.locked_categories)
     /\ check_trust_level(req.get_trust_level, pol.min_trust_level)
     /\ check_categories_with_lvl(req, pol.categories_with_lvl)
     /\ "" \in Elems(req.get_categories) => beyond

main_filtring_by_domain(req, pol, d, beyond) ==
  /\ ~DomainIn(d, pol.block_domains)
  /\ DomainIn(d, pol.allow_domains) \/ check_categories_and_trust_level(req, pol, beyond)

\* Mutant: an address on the allow list must pass the category rules as well.
main_filtring_by_ip_strict(req, pol, ip, beyond) ==
  /\ ~IpIn(ip, pol.block_ip)
  /\ IpIn(ip, pol.allow_ip) => check_categories_and_trust_level(req, pol, beyond)

main_filtring_by_ip(req, pol, ip, beyond) ==
  /\ ~IpIn(ip, pol.block_ip)
  /\ IpIn(ip, pol.allow_ip) \/ check_categories_and_trust_level(req, pol, beyond)

Verdict(req, pol, packet, beyond) ==
  IF packet.domain = "" THEN main_filtring_by_ip(req, pol, packet.ip, beyond)
                        ELSE main_filtring_by_domain(req, pol, packet.domain, beyond)

-----------------------------------------------------------------------------
NoProto == GetWorkerPolicyProto(
  [BlockCategories |-> <<>>, BlockByTrust |-> <<>>, BlockDomains |-> <<>>, AllowDomains |-> <<>>,
   BlockIps |-> <<>>, AllowIps |-> <<>>, MinTrustLevel |-> {}],
  [BlockCategories |-> <<>>, BlockByTrust |-> <<>>, BlockDomains |-> <<>>, AllowDomains |-> <<>>,
   BlockIps |-> <<>>, AllowIps |-> <<>>, MinTrustLevel |-> {}])

Init ==
  /\ \E s \in Sections : global = s[1] /\ filter = s[2]
  /\ proto = NoProto /\ policy = BasePolicy(NoProto, {})
  /\ info = [domain |-> "", ip |-> NoIp(6)]
  /\ resp = [categories |-> <<>>, trust |-> 0]
  /\ sent = FALSE
  /\ pc = "loaded"

Merge ==
  /\ pc = "loaded"
  /\ proto' = GetWorkerPolicyProto(global, filter)
  /\ pc' = "merged"
  /\ UNCHANGED <<global, filter, policy, info, resp, sent>>

Install ==
  /\ pc = "merged"
  /\ \E kept \in Kept(proto.block_by_trust) : policy' = BasePolicy(proto, kept)
  /\ pc' = "installed"
  /\ UNCHANGED <<global, filter, proto, info, resp, sent>>

Decide ==
  /\ pc = "installed"
  /\ info' \in Packets /\ resp' \in Responses
  /\ \E req \in Requests(resp'), beyond \in BOOLEAN : sent' = Verdict(req, policy, info', beyond)
  /\ pc' = "decided"
  /\ UNCHANGED <<global, filter, proto, policy>>

Next == Merge \/ Install \/ Decide

Spec == Init /\ [][Next]_vars

-----------------------------------------------------------------------------
(* What the sections say, independent of lists and tables.                   *)

InList(field, x) == x \in Elems(global[field]) \cup Elems(filter[field])

OnBlockList == IF info.domain = "" THEN InList("BlockIps", info.ip)
                                   ELSE InList("BlockDomains", info.domain)
OnAllowList == IF info.domain = "" THEN InList("AllowIps", info.ip)
                                   ELSE InList("AllowDomains", info.domain)

\* How far a table reaches: an entry beyond its size is not in it, and an empty
\* name, an IPv6 entry with a first byte of 0, or 0.0.0.0, hides itself and those
\* behind it.
First(x, s) == CHOOSE i \in DOMAIN s : s[i] = x /\ \A j \in 1..(i - 1) : s[j] # x

Both(field) == Append2(global[field], filter[field])

DomainInReach(field, d) ==
  InList(field, d) =>
    /\ First(d, Both(field)) <= MAX_DOMAINS
    /\ \A i \in 1..First(d, Both(field)) : Both(field)[i] # ""

\* d is in a list beyond the size of its table.
Overruns(field, d) == \E i \in DOMAIN Both(field) : i > MAX_DOMAINS /\ Both(field)[i] = d

IpInReach(field, a) ==
  LET s == OfVersion(Both(field), a.ver)
  IN  InList(field, a) =>
        /\ First(a, s) <= MAX_IP
        /\ \A i \in 1..First(a, s) : s[i].first # 0 \/ (a.ver = 4 /\ s[i].rest # 0)

InReach == IF info.domain = ""
           THEN IpInReach("BlockIps", info.ip) /\ IpInReach("AllowIps", info.ip)
           ELSE DomainInReach("BlockDomains", info.domain)
                /\ DomainInReach("AllowDomains", info.domain)

MinTrust == IF filter.MinTrustLevel # {} THEN filter.MinTrustLevel ELSE global.MinTrustLevel

\* The threshold of a category: the filter's if it has one.
Threshold(c) ==
  IF c \in DOMAIN filter.BlockByTrust THEN {filter.BlockByTrust[c]}
  ELSE IF c \in DOMAIN global.BlockByTrust THEN {global.BlockByTrust[c]} ELSE {}

\* There is room for every threshold of the two sections.
ThresholdsFit ==
  Cardinality(DOMAIN global.BlockByTrust \cup DOMAIN filter.BlockByTrust)
    <= MAX_CATEGORIES_BY_TRUST_LVL

Unclassified == resp.categories = <<"unknown">> /\ resp.trust = 0

CategoriesPermit ==
  /\ \A c \in Elems(resp.categories) :
       /\ ~InList("BlockCategories", c)
       /\ ThresholdsFit => \A t \in Threshold(c) : resp.trust >= t
  /\ \A t \in MinTrust : resp.trust >= t

-----------------------------------------------------------------------------
(* Properties.                                                               *)

\* A destination is let through only if the two sections together permit it:
\* it is on no block list, and it is on an allow list, or has no category
\* known, or all its categories and its trust level pass the rules in force
\* for this worker. Overread bytes and uninitialised slots can only make the
\* filter stricter (filtr_packets.c:161-193); the one way round the rules is an
\* entry that the worker's tables do not reach, or a threshold there was no room
\* for (worker.cpp:197).
SentOnlyIfPermitted ==
  pc = "decided" /\ sent /\ InReach =>
    ~OnBlockList /\ (OnAllowList \/ Unclassified \/ CategoriesPermit)

\* A destination on an allow list and on no block list passes, whatever its
\* classification and whatever the uninitialised slots hold.
AllowedIsSent ==
  pc = "decided" /\ OnAllowList /\ ~OnBlockList /\ InReach => sent

\* Both sections count: "Объединяет списки (добавляет новые элементы, не удаляя
\* старые)" (admin/README.md:116). Every table of the worker holds what either
\* section lists, as far as it reaches, and nothing else, but for the blocked
\* domains beyond MAX_DOMAINS, which may turn up in the allow table
\* (worker.cpp:212-223). A threshold is the filter's where both sections have one,
\* and none is dropped while there is room (worker.cpp:196-209).
TablesHoldBothSections ==
  pc \in {"installed", "decided"} =>
    /\ \A d \in {p.domain : p \in Packets} \ {""} :
         /\ DomainIn(d, policy.block_domains) <=>
              InList("BlockDomains", d) /\ DomainInReach("BlockDomains", d)
         /\ InList("AllowDomains", d) /\ DomainInReach("AllowDomains", d) =>
              DomainIn(d, policy.allow_domains)
         /\ DomainIn(d, policy.allow_domains) =>
              InList("AllowDomains", d) \/ Overruns("BlockDomains", d)
    /\ \A a \in {p.ip : p \in Packets} :
         /\ IpIn(a, policy.block_ip) <=> InList("BlockIps", a) /\ IpInReach("BlockIps", a)
         /\ IpIn(a, policy.allow_ip) <=> InList("AllowIps", a) /\ IpInReach("AllowIps", a)
    /\ \A i \in DOMAIN policy.categories_with_lvl :
         LET e == policy.categories_with_lvl[i] IN e.cat # "" => Threshold(e.cat) = {e.lvl}
    /\ ThresholdsFit =>
         \A c \in DOMAIN global.BlockByTrust \cup DOMAIN filter.BlockByTrust :
           \E i \in DOMAIN policy.categories_with_lvl :
             policy.categories_with_lvl[i].cat = c /\ Threshold(c) = {policy.categories_with_lvl[i].lvl}

\* "Разрешённые домены (приоритет над блокировкой)" (admin/README.md:28): an
\* allowed domain passes even if it is blocked as well.
AllowTakesPriority ==
  pc = "decided" /\ info.domain # "" /\ OnAllowList => sent
=============================================================================
