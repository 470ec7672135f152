------------------------------ MODULE LossyFeed ------------------------------
(***************************************************************************)
(* What a feed promises its subscribers, over any number of replicas: each *)
(* one sees some of the events published for its org that pass its filter, *)
(* in the order they were published, each at most once, and nothing that   *)
(* was handed out before it joined.  Any event may be lost.                *)
(***************************************************************************)
EXTENDS Naturals, Sequences

CONSTANTS
  Subs,            \* subscriptions
  Events           \* what can be published

VARIABLES
  want,            \* the events each subscription asks for
  log,             \* everything published, in the order Postgres accepted it
  joined,          \* the subscriptions made
  from,            \* how much of the log was over when each one joined
  got              \* the log positions each one has received

vars == <<want, log, joined, from, got>>

Init ==
  /\ want \in [Subs -> SUBSET Events]
  /\ log = <<>>
  /\ joined = {}
  /\ from = [s \in Subs |-> 0]
  /\ got = [s \in Subs |-> <<>>]

Publish ==
  /\ \E e \in Events : log' = Append(log, e)
  /\ UNCHANGED <<want, joined, from, got>>

Join(s) ==
  /\ s \notin joined
  /\ joined' = joined \cup {s}
  /\ \E n \in 0..Len(log) : from' = [from EXCEPT ![s] = n]
  /\ UNCHANGED <<want, log, got>>

Deliver(s) ==
  /\ s \in joined
  /\ \E i \in (from[s] + 1)..Len(log) :
       /\ log[i] \in want[s]
       /\ \A j \in 1..Len(got[s]) : got[s][j] < i
       /\ got' = [got EXCEPT ![s] = Append(@, i)]
  /\ UNCHANGED <<want, log, joined, from>>

Next == Publish \/ \E s \in Subs : Join(s) \/ Deliver(s)

Spec == Init /\ [][Next]_vars
=============================================================================
