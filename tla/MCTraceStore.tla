---------------------------- MODULE MCTraceStore ----------------------------
(* Instances of TraceStore for TLC: two orgs that may use the same run id; *)
(* traces t1 and t2 of one run that name different agents, so have         *)
(* different storage keys; t4, a trace of another run, so that expired     *)
(* rows with different ids can outnumber a batch.                          *)
EXTENDS TraceStore

CONSTANTS o1, o2, a1, a2, r1, r2, t1, t2, t4, bad, q1, q2, w1, w2

MCAgentOf == [t \in Traces |-> IF t = t2 THEN a2 ELSE a1]
MCRunOf   == [t \in Traces |-> IF t = t4 THEN r2 ELSE r1]
MCRegistered == {<<o, a1>> : o \in Orgs}

(* Orgs are interchangeable and so are requests: let the first request     *)
(* come from the first org, and the two be in some fixed order.  Only      *)
(* uploads name the second run; it is there to fill a batch.               *)
Place(c) == CASE c.op = "upload" -> IF c.trace = t1 THEN 1 ELSE IF c.trace = t2 THEN 2
                                    ELSE IF c.trace = t4 THEN 3 ELSE 4
              [] c.op = "delete" -> 5
              [] c.op = "read"   -> 6
MCInit == /\ Init /\ call[q1].org = o1 /\ Place(call[q1]) <= Place(call[q2])
          /\ \A q \in Reqs : call[q].op # "upload" => call[q].run = r1
MCSpec == MCInit /\ [][Next]_vars /\ Fairness
=============================================================================
