---------------------------- MODULE MCGovernance ----------------------------
(***************************************************************************)
(* Two orgs of one agent.  Run s1 of the org that comes first in every     *)
(* poll, and that may fail for ever, has as many denials of tool t as make *)
(* a pattern, and so has r2 of the second org; r1, newer, adds one to them *)
(* and also has a denial without a tool name.                              *)
(***************************************************************************)
EXTENDS Governance

MCOrgs     == {"first", "second"}
MCOrgOrder == <<"first", "second">>
MCRuns     == {"r1", "r2", "s1"}
MCOrgOf    == [r \in MCRuns |-> IF r = "s1" THEN "first" ELSE "second"]
MCAgentOf  == [r \in MCRuns |-> "a"]
MCStarted  == [r \in MCRuns |-> IF r = "r1" THEN 2 ELSE 1]
MCDenied   == [r \in MCRuns |-> 2]
MCDenials  == [r \in MCRuns |-> [t \in {"t", "unknown"} |->
                CASE t = "t"  -> (IF r = "r1" THEN 1 ELSE 2)
                  [] OTHER    -> (IF r = "r1" THEN 1 ELSE 0)]]
MCGaps     == {<<"second", "a", "t">>}
=============================================================================
