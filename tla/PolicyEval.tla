----------------------------- MODULE PolicyEval -----------------------------
(***************************************************************************)
(* Policy evaluation and simulation (internal/policy/engine.go and         *)
(* simulate.go) as operators.  A glob is the set of the values it matches; *)
(* params that are missing or do not parse are a function without keys.    *)
(***************************************************************************)
EXTENDS Integers, FiniteSets, Sequences

CONSTANTS
  MaxSamples, \* maxSamplesPerBucket
  Rank        \* the alphabetical rank of each target

matchGlob(value, pattern) == value \in pattern

matchParams(params, want) ==
  \A k \in DOMAIN want : k \in DOMAIN params /\ matchGlob(params[k], want[k])

Matches(intent, rule) ==
  /\ matchGlob(intent.protocol, rule.protocol) /\ matchGlob(intent.method, rule.method)
  /\ matchGlob(intent.target, rule.target) /\ matchParams(intent.params, rule.params)

applyMode(action, mode) ==
  IF action # "deny" THEN "allow"
  ELSE CASE mode = "audit"      -> "audit_deny"
         [] mode = "permissive" -> "would_deny"
         [] OTHER               -> "deny"

(* Mutant of RuleAction: the last match wins. *)
RuleActionLast(intent, p) ==
  LET hits == {n \in DOMAIN p.rules : Matches(intent, p.rules[n])}
  IN IF hits = {} THEN p.default
     ELSE p.rules[CHOOSE n \in hits : \A h \in hits : h <= n].action

(* Document order, first match wins, else the default. *)
RuleAction(intent, p) ==
  LET hits == {n \in DOMAIN p.rules : Matches(intent, p.rules[n])}
  IN IF hits = {} THEN p.default
     ELSE p.rules[CHOOSE n \in hits : \A h \in hits : n <= h].action

(* A limit that is reached denies in every mode; 0 is no limit. *)
Reached(limit, n) == limit > 0 /\ n >= limit

Evaluate(intent, p, state) ==
  IF Reached(p.maxActions, state.actions) \/ Reached(p.maxDuration, state.elapsed)
  THEN "deny" ELSE applyMode(RuleAction(intent, p), p.mode)

isDeniedVerdict(auth) == auth \in {"deny", "audit_deny", "would_deny"}

(* What the candidate p changes about a recorded event: every event is     *)
(* evaluated with a fresh RunState.                                        *)
Flip(p, e) ==
  LET was == isDeniedVerdict(e.oldAuth)
      now == isDeniedVerdict(Evaluate(e, p, [actions |-> 0, elapsed |-> 0]))
  IN IF was = now THEN "unchanged" ELSE IF now THEN "denied" ELSE "allowed"

(* Below, flip gives the flip of every event. *)
OfFlip(flip, d) == {i \in DOMAIN flip : flip[i] = d}

(* Mutant of Sampled: both directions share one counter. *)
SampledTogether(flip) ==
  LET flips == {i \in DOMAIN flip : flip[i] # "unchanged"}
  IN {i \in flips : Cardinality({j \in flips : j < i}) < MaxSamples}

(* The first MaxSamples flips of each direction. *)
Sampled(flip) ==
  {i \in DOMAIN flip :
     /\ flip[i] # "unchanged"
     /\ Cardinality({j \in OfFlip(flip, flip[i]) : j < i}) < MaxSamples}

(* Denials first, then by target, otherwise as found. *)
Before(events, flip, i, j) ==
  LET rank(x) == Rank[events[x].target]
  IN IF flip[i] = flip[j] THEN rank(i) < rank(j) \/ (rank(i) = rank(j) /\ i < j)
                          ELSE flip[i] = "denied"

sortSamples(events, flip) ==
  LET S == Sampled(flip)
      place(i) == Cardinality({j \in S : Before(events, flip, j, i)})
  IN [n \in 1..Cardinality(S) |-> events[CHOOSE i \in S : place(i) = n - 1]]

(* Simulate, as the runner stores it. *)
Simulate(p, events) ==
  LET flip == [i \in DOMAIN events |-> Flip(p, events[i])]
  IN [newlyDenied    |-> Cardinality(OfFlip(flip, "denied")),
      newlyAllowed   |-> Cardinality(OfFlip(flip, "allowed")),
      unchanged      |-> Cardinality(OfFlip(flip, "unchanged")),
      totalEvaluated |-> Len(events),
      samples        |-> sortSamples(events, flip)]

=============================================================================
