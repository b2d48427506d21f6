--------------------------- MODULE MCClassifyPath ---------------------------
(* A small category file and provider file for ClassifyPath.                 *)
EXTENDS ClassifyPath

Rule == [BlockCategories |-> <<"Gambling">>, BlockByTrust |-> <<>>, BlockDomains |-> <<"d1">>,
         AllowDomains |-> <<"d2">>, BlockIps |-> <<>>, AllowIps |-> <<>>, MinTrustLevel |-> {}]
Nothing == [Rule EXCEPT !.BlockCategories = <<>>, !.BlockDomains = <<>>, !.AllowDomains = <<>>]
OneSection == {<<Rule, Nothing>>}

Address == [ver |-> 4, first |-> 1, rest |-> 0]
ThreePackets == {[domain |-> d, ip |-> Address] : d \in {"d1", "d2", ""}}

\* "unlisted" is in the category file only; "custom" cannot be asked for addresses.
AllEndpoints == {<<"kaspersky", "domain">>, <<"kaspersky", "ip">>, <<"custom", "domain">>}
TwoCategories ==
  <<[Name |-> "Gambling", TrustLevel |-> 1,
     Mappings |-> [kaspersky |-> {"betting"}, custom |-> {}, unlisted |-> {"betting"}]],
    [Name |-> "Social", TrustLevel |-> 3,
     Mappings |-> [kaspersky |-> {"chat"}, custom |-> {"chat"}, unlisted |-> {}]]>>
=============================================================================
