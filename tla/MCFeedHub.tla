------------------------------ MODULE MCFeedHub ------------------------------
(* Instances of FeedHub for TLC. *)
EXTENDS FeedHub, TLC

CONSTANTS o1, o2, a1, a2, t1, v1, r1, r2, s1, s2, s3

(* livefeed: an event of either org, and a filter on the agent or none. *)
LiveEvents  == {[org |-> o1, agent |-> a1, tool |-> t1, verdict |-> v1],
                [org |-> o2, agent |-> a2, tool |-> t1, verdict |-> v1]}
LiveFilters == [agent : {AnyValue, a1}, tool : {AnyValue}, verdict : {AnyValue}]

(* policyfeed: subscriptions that name one agent; events of that agent, of *)
(* another agent of the org, and of an agent of that name in another org.  *)
PolicyEvents  == {[org |-> o1, agent |-> a1, tool |-> t1, verdict |-> v1],
                  [org |-> o1, agent |-> a2, tool |-> t1, verdict |-> v1],
                  [org |-> o2, agent |-> a1, tool |-> t1, verdict |-> v1]}
PolicyFilters == [agent : {a1}, tool : {AnyValue}, verdict : {AnyValue}]

Symm == Permutations(Subs) \cup Permutations(Replicas)
=============================================================================
