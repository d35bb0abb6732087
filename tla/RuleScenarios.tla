---------------------------- MODULE RuleScenarios ----------------------------
(***************************************************************************)
(* Users of RuleSets, each with the rules and lists between which it goes, *)
(* the connections by which rules and files differ, and two subscriptions  *)
(* whose content changes once. Domains are written from their end.         *)
(***************************************************************************)
EXTENDS Naturals, Sequences

Rule(kind, value, outbound, priority) ==
  [kind |-> kind, value |-> value, outbound |-> outbound, priority |-> priority, disabled |-> FALSE]
Parent(o, p)  == Rule("domain", <<"com", "a">>, o, p)
Child(o, p)   == Rule("domain", <<"com", "a", "b">>, o, p)
Process(o, p) == Rule("process", <<"game">>, o, p)
Subnet(o, p)  == Rule("ip", <<0, 1>>, o, p)

Subscription(outbound, priority, url) ==
  [outbound |-> outbound, priority |-> priority, disabled |-> FALSE, url |-> url, etag |-> 0]
Unused == [outbound |-> "none", priority |-> 0, disabled |-> TRUE, url |-> "none", etag |-> 0]

SomeFlows ==
  [process : {<<"game">>, <<"other">>}, domain : {<<"com", "a", "b">>, <<"com", "a">>, <<"org">>},
   ip : {<<0, 1>>, <<0, 0>>, <<1>>}, proxy : BOOLEAN]

User(rules, lists) == [rules |-> {{}, rules}, lists |-> {<<Unused, Unused>>} \cup lists]
SomeDrafts == {
  User({Process("nic1", 0), Parent("nic1", 2), Child("direct", 1), Subnet("nic2", 0)},
       {<<Subscription("nic1", 1, "u"), Unused>>}),
  User({},
       {<<Subscription("nic1", 1, "u"), Subscription("direct", 0, "w")>>,
        <<Subscription("nic1", 0, "u"), Subscription("direct", 1, "w")>>}),
  User({},
       {<<Subscription("nic1", 1, "u"), Unused>>, <<Subscription("nic1", 1, "w"), Unused>>,
        <<[Subscription("nic1", 1, "u") EXCEPT !.disabled = TRUE], Unused>>})}

SomeContent ==
  [u |-> << {[kind |-> "domain", value |-> <<"com", "a">>]},
            {[kind |-> "domain", value |-> <<"com", "a", "b">>], [kind |-> "ip", value |-> <<0, 1>>]} >>,
   w |-> << {[kind |-> "domain", value |-> <<"com">>], [kind |-> "domain", value |-> <<"org">>]} >>]
=============================================================================
