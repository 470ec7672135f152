------------------------ MODULE MCPolicyDistribution ------------------------
(* Instances of PolicyDistribution for TLC. *)
EXTENDS PolicyDistribution, TLC

CONSTANTS o1, o2, n1, n2, s1, p1, p2, bad, q1, q2, q3

(* Two keys, one of them with two values. *)
MCLabels == {<<"env", "prod">>, <<"env", "dev">>, <<"tier", "one">>}

(* By name; by two labels.  Saves that race on one set, one of them with   *)
(* invalid YAML, one of another org; label sets that overlap or not.       *)
ByName == [agent |-> n1, match |-> {}]
ByEnv  == [agent |-> NoName, match |-> {<<"env", "prod">>, <<"tier", "one">>}]
Empty  == [agent |-> NoName, match |-> {}]
Save(o, s, p) == [op |-> "save", org |-> o, set |-> s1, sel |-> s, policy |-> p]
Relabel(L)    == [op |-> "label", org |-> o1, name |-> n1, labels |-> L]
RaceRequests ==
  {Save(o1, ByName, p1), Save(o1, ByEnv, p1), Save(o1, ByName, bad), Save(o1, Empty, p1),
   Save(o2, ByName, p1), Relabel({<<"env", "prod">>, <<"tier", "one">>}),
   Relabel({<<"env", "dev">>}), Relabel({<<"tier", "one">>})}
PullRequests == {Save(o1, ByName, p2)}

Symm == Permutations(Reqs)
=============================================================================
