---------------------------- MODULE MCTraceParser ----------------------------
(* Instances of TraceParser for TLC. *)
EXTENDS TraceParser, TLC

CONSTANTS r1, r2

(* A line that every reader finds the same in: no key in another case, no  *)
(* "type", and all fields of the right type.                               *)
Line(t, auth) ==
  [t |-> t, status |-> "none", run |-> NoRun, auth |-> auth, has |-> {},
   lax |-> [t |-> IF t = "action" THEN "action" ELSE "other", auth |-> auth],
   type |-> FALSE, fits |-> {"simulate", "detect"}]

(* A start; two ends, of which neither has all fields, the second with an  *)
(* "auth" of "deny" and "action" under "T" and "type", so that it is an    *)
(* end to parse and a denied action to the others; two denied actions, one *)
(* of them audit only and with a "run" that is not a string; and an action *)
(* that says "allow" under "auth" and "deny" under "Auth", with a "tool"   *)
(* that is not a string.                                                   *)
SomeBodies ==
  {[Line("run", "allow") EXCEPT !.status = "start", !.run = r1],
   [Line("run", "allow") EXCEPT !.status = "end", !.has = {"exit", "ms"}],
   [Line("run", "deny") EXCEPT !.status = "end", !.has = {"ms", "ts"},
                               !.lax.t = "action", !.type = TRUE],
   Line("action", "deny"),
   [Line("action", "audit_deny") EXCEPT !.fits = {"detect"}],
   [Line("action", "allow") EXCEPT !.lax.auth = "deny", !.fits = {"simulate"}]}

(* Without a usable key the requirement has no effect. *)
SomeConfigs == {[key |-> "unset", require |-> TRUE], [key |-> "valid", require |-> TRUE],
                [key |-> "valid", require |-> FALSE]}
=============================================================================
