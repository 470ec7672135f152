-------------------------- MODULE MCSimulateRunner --------------------------
(***************************************************************************)
(* Runs of two orgs with the same agent.  Org o1 has r1, with flips in     *)
(* both directions, and r2, older than a day, without actions; o2 has s1.  *)
(* The candidates differ in mode, default and the order of two rules that  *)
(* overlap; one request has a window that is refused.                      *)
(***************************************************************************)
EXTENDS SimulateRunner

Rule(targets, want, action) ==
  [protocol |-> {"mcp"}, method |-> {"tool_call"}, target |-> targets,
   params |-> want, action |-> action]
Call(target, path, auth) ==
  [protocol |-> "mcp", method |-> "tool_call", target |-> target,
   params |-> [k \in {"path"} |-> path], oldAuth |-> auth]
NoParams == [k \in {} |-> {}]

DenyWrites == Rule({"write"}, [k \in {"path"} |-> {"etc"}], "deny")
AllowFiles == Rule({"read", "write"}, NoParams, "allow")

Candidate(mode, default, rules) ==
  [mode |-> mode, default |-> default, rules |-> rules, maxActions |-> 1,
   maxDuration |-> 0]

MCRuns    == {"r1", "r2", "s1"}
MCOrgOf   == [r \in MCRuns |-> IF r = "s1" THEN "o2" ELSE "o1"]
MCAgentOf == [r \in MCRuns |-> "a"]
MCAge     == [r \in MCRuns |-> IF r = "r2" THEN 3 ELSE 0]
MCTrace   == [r \in MCRuns |->
  CASE r = "r1" -> <<Call("write", "etc", "allow"), Call("read", "etc", "audit_deny"),
                     Call("read", "tmp", "deny")>>
    [] r = "r2" -> <<>>
    [] r = "s1" -> <<Call("exec", "tmp", "allow")>>]
MCRank    == [t \in {"exec", "read", "write"} |->
                CASE t = "exec" -> 1 [] t = "read" -> 2 [] t = "write" -> 3]

MCRequests ==
  { [org |-> "o1", agent |-> "a", window |-> 7, valid |-> TRUE,
     policy |-> Candidate("audit", "deny", <<DenyWrites, AllowFiles>>)],
    [org |-> "o1", agent |-> "a", window |-> 1, valid |-> TRUE,
     policy |-> Candidate("enforce", "allow", <<AllowFiles, DenyWrites>>)],
    [org |-> "o2", agent |-> "a", window |-> 7, valid |-> TRUE,
     policy |-> Candidate("permissive", "deny", <<AllowFiles>>)],
    [org |-> "o2", agent |-> "a", window |-> 2, valid |-> TRUE,
     policy |-> Candidate("enforce", "allow", <<>>)] }
=============================================================================
