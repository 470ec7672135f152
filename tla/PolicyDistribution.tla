------------------------- MODULE PolicyDistribution -------------------------
(***************************************************************************)
(* How a policy reaches the agents: policy sets (internal/api/             *)
(* policy_sets.go), agent labels, registration and per-agent policies      *)
(* (internal/api/agents.go), their tables, and the agents' runtimes, which *)
(* live in another repository and are known by the calls they make.        *)
(*                                                                         *)
(* A save of a policy set and an overwrite of labels make several database *)
(* calls and are split at each one; registering an agent or updating its   *)
(* policy is one statement (agents are never deleted, so the lookup before *)
(* it stays true).  A policy stands for its YAML and for its hash.         *)
(* Notifications travel over a feed that may lose any of them; a runtime   *)
(* reads nothing but "there is an update" from one, so their order does    *)
(* not matter here.  The audit rows, only ever appended, are left out.     *)
(***************************************************************************)
EXTENDS Naturals, FiniteSets

CONSTANTS
  Orgs, Names, SetNames,  \* org ids; names of agents and of policy sets
  Policies, Invalid,      \* YAML bodies; those Parse or Validate rejects
  Labels,                 \* <<key, value>> pairs
  Reqs,                   \* HTTP requests that take more than one call
  Requests,               \* what they may ask for
  NoPolicy, NoName,       \* an empty column; a selector without agent_name
  Faults                  \* whether calls fail and processes die

Agents    == Orgs \X Names
SetIds    == Orgs \X SetNames
LabelMaps == {L \in SUBSET Labels : \A x, y \in L : x[1] = y[1] => x = y}
Selectors == [agent : Names \cup {NoName}, match : LabelMaps]
Saves     == [op : {"save"}, org : Orgs, set : SetNames, sel : Selectors, policy : Policies]
Relabels  == [op : {"label"}, org : Orgs, name : Names, labels : LabelMaps]
Stored    == Policies \cup {NoPolicy}
Notes     == [set : SetNames, version : Nat, policy : Policies]
LabelRows == [agent : Agents, label : Labels, by : Reqs]

ASSUME PolicyDistributionAssumption ==
  /\ Invalid \subseteq Policies
  /\ NoPolicy \notin Policies /\ NoName \notin Names
  /\ \A l \in Labels : l = <<l[1], l[2]>>
  /\ Requests \subseteq Saves \cup Relabels
  /\ IsFiniteSet(Reqs) /\ IsFiniteSet(Labels)
  /\ Faults \in BOOLEAN

VARIABLES
  agents,      \* table agents: the registered ones
  yaml,        \* agents.policy_yaml
  applied,     \* agents.applied_policy_hash
  labels,      \* table agent_labels, primary key (agent_id, key)
  sets,        \* table policy_sets; version 0 is no row
  call, pc,    \* the requests and where their handlers are
  matched,     \* what ResolveSelector returned to a save
  todo,        \* the matched agents a save has not notified yet
  dead,        \* label rows the DELETE of a label transaction found
  blockers,    \* transactions whose row locks that DELETE waits for
  resp,        \* the responses
  notes,       \* notifications on their way to each agent's runtime
  told,        \* the notification each runtime is working on
  rt,          \* where each runtime is
  running,     \* the policy its engine has loaded
  wrote,       \* history: the version each save was given, 0 for none
  puts,        \* history: <<org, policy>> written by handleUpdateAgentPolicy
  lastLabels,  \* history: the last label transaction that committed, per agent
  overlapped   \* history: label transactions that ran beside another one

dbVars   == <<agents, yaml, applied, labels, sets>>
rtVars   == <<notes, told, rt, running>>
saveVars == <<matched, todo, wrote>>
txVars   == <<dead, blockers, lastLabels, overlapped>>
vars     == <<dbVars, call, pc, resp, rtVars, saveVars, txVars, puts>>

NoSet  == [version |-> 0]
Row(c, v) == [version |-> v, sel |-> c.sel, policy |-> c.policy]
SetRows == {NoSet} \cup [version : Nat \ {0}, sel : Selectors, policy : Policies]

TypeOK ==
  /\ agents \subseteq Agents
  /\ yaml \in [Agents -> Stored] /\ applied \in [Agents -> Stored]
  /\ labels \subseteq LabelRows
  /\ sets \in [SetIds -> SetRows]
  /\ call \in [Reqs -> Requests]
  /\ pc \in [Reqs -> {"start", "write", "publish", "commit", "done"}]
  /\ matched \in [Reqs -> SUBSET Agents] /\ todo \in [Reqs -> SUBSET Agents]
  /\ dead \in [Reqs -> SUBSET LabelRows]
  /\ blockers \in [Reqs -> SUBSET Reqs]
  /\ resp \in [Reqs -> {"none", "200", "400", "404", "500"}]
  /\ notes \in [Agents -> SUBSET Notes]
  /\ told \in [Agents -> SUBSET Notes]
  /\ rt \in [Agents -> {"idle", "pull", "report"}]
  /\ running \in [Agents -> Stored]
  /\ wrote \in [Reqs -> Nat]
  /\ puts \subseteq Orgs \X Policies
  /\ lastLabels \in [Agents -> SUBSET Reqs]
  /\ overlapped \subseteq Reqs

Init ==
  /\ agents = {} /\ labels = {} /\ puts = {} /\ overlapped = {}
  /\ yaml = [a \in Agents |-> NoPolicy] /\ applied = [a \in Agents |-> NoPolicy]
  /\ sets = [i \in SetIds |-> NoSet]
  /\ call \in [Reqs -> Requests]
  /\ pc = [q \in Reqs |-> "start"] /\ resp = [q \in Reqs |-> "none"]
  /\ matched = [q \in Reqs |-> {}] /\ todo = [q \in Reqs |-> {}]
  /\ dead = [q \in Reqs |-> {}] /\ blockers = [q \in Reqs |-> {}]
  /\ wrote = [q \in Reqs |-> 0]
  /\ notes = [a \in Agents |-> {}] /\ told = [a \in Agents |-> {}]
  /\ rt = [a \in Agents |-> "idle"] /\ running = [a \in Agents |-> NoPolicy]
  /\ lastLabels = [a \in Agents |-> {}]

Goto(q, label)   == pc' = [pc EXCEPT ![q] = label]
Respond(q, code) == Goto(q, "done") /\ resp' = [resp EXCEPT ![q] = code]
At(q, op, label) == call[q].op = op /\ pc[q] = label

(***************************************************************************)
(* Selectors.                                                              *)
(***************************************************************************)
EmptySelector(sel) == sel.agent = NoName /\ sel.match = {}

(* The label rows of an agent that satisfy one of the conditions, which    *)
(* the query joins with OR.                                                *)
Hits(a, sel) == {x \in labels : x.agent = a /\ x.label \in sel.match}

(* Mutant of ResolveSelector: the HAVING clause is missing. *)
ResolveSelectorAny(o, sel) ==
  IF sel.agent # NoName THEN agents \cap {<<o, sel.agent>>}
  ELSE {a \in agents : a[1] = o /\ Hits(a, sel) # {}}

(* agent_name wins over match; GROUP BY a.id HAVING COUNT(DISTINCT al.key) *)
(* = N is to turn the OR into an AND.                                      *)
ResolveSelector(o, sel) ==
  IF sel.agent # NoName THEN agents \cap {<<o, sel.agent>>}
  ELSE {a \in agents : /\ a[1] = o
                       /\ Cardinality({x.label[1] : x \in Hits(a, sel)}) = Cardinality(sel.match)}

(***************************************************************************)
(* POST /v1/policy_sets: handleUpsertPolicySet.                            *)
(***************************************************************************)
SetOf(q) == <<call[q].org, call[q].set>>

SaveRefused(q) ==
  /\ At(q, "save", "start")
  /\ call[q].policy \in Invalid \/ EmptySelector(call[q].sel)
  /\ Respond(q, "400")
  /\ UNCHANGED <<dbVars, call, rtVars, saveVars, txVars, puts>>

(* ResolveSelector runs before the write; an error of the query is a 400,  *)
(* but rows.Err is not asked for: rows that stop coming are all there are. *)
ResolveForSave(q) ==
  /\ At(q, "save", "start")
  /\ call[q].policy \notin Invalid /\ ~EmptySelector(call[q].sel)
  /\ \/ /\ \E S \in SUBSET ResolveSelector(call[q].org, call[q].sel) :
             /\ S = ResolveSelector(call[q].org, call[q].sel) \/ Faults
             /\ matched' = [matched EXCEPT ![q] = S]
        /\ Goto(q, "write") /\ UNCHANGED resp
     \/ Faults /\ Respond(q, "400") /\ UNCHANGED matched
  /\ UNCHANGED <<dbVars, call, rtVars, todo, wrote, txVars, puts>>

(* Mutant of WriteSet: the version is not bumped on conflict. *)
WriteSetKeepsVersion(q) ==
  LET v == IF sets[SetOf(q)].version = 0 THEN 1 ELSE sets[SetOf(q)].version
  IN /\ sets' = [sets EXCEPT ![SetOf(q)] = Row(call[q], v)]
     /\ wrote' = [wrote EXCEPT ![q] = v]

(* INSERT ... ON CONFLICT DO UPDATE SET version = policy_sets.version + 1. *)
WriteSet(q) ==
  LET v == sets[SetOf(q)].version + 1
  IN /\ sets' = [sets EXCEPT ![SetOf(q)] = Row(call[q], v)]
     /\ wrote' = [wrote EXCEPT ![q] = v]

(* Mutant of UpsertPolicySet: no return after a failed write. *)
UpsertIgnoresError(q) ==
  /\ pc[q] = "write"
  /\ WriteSet(q) \/ (Faults /\ UNCHANGED <<sets, wrote>>)
  /\ todo' = [todo EXCEPT ![q] = matched[q]]
  /\ Goto(q, "publish")
  /\ UNCHANGED <<agents, yaml, applied, labels, call, resp, rtVars, matched, txVars, puts>>

UpsertPolicySet(q) ==
  /\ pc[q] = "write"
  /\ \/ /\ WriteSet(q)
        /\ todo' = [todo EXCEPT ![q] = matched[q]]
        /\ Goto(q, "publish") /\ UNCHANGED resp
     \/ Faults /\ WriteSet(q) /\ Respond(q, "500") /\ UNCHANGED todo  \* the answer is lost
     \/ Faults /\ Respond(q, "500") /\ UNCHANGED <<sets, wrote, todo>>
  /\ UNCHANGED <<agents, yaml, applied, labels, call, rtVars, matched, txVars, puts>>

NoteOf(q) == [set |-> call[q].set, version |-> wrote[q], policy |-> call[q].policy]

(* One pg_notify per matched agent; one that fails is only counted. *)
PublishNote(q) ==
  /\ pc[q] = "publish"
  /\ \E a \in todo[q] :
       /\ todo' = [todo EXCEPT ![q] = @ \ {a}]
       /\ \/ notes' = [notes EXCEPT ![a] = @ \cup {NoteOf(q)}]
          \/ Faults /\ UNCHANGED notes
  /\ UNCHANGED <<dbVars, call, pc, resp, told, rt, running, matched, wrote, txVars, puts>>

FinishSave(q) ==
  /\ pc[q] = "publish" /\ todo[q] = {}
  /\ Respond(q, "200")
  /\ UNCHANGED <<dbVars, call, rtVars, saveVars, txVars, puts>>

(***************************************************************************)
(* POST /v1/agents/:name/labels: SetAgentLabels, one transaction under     *)
(* READ COMMITTED.  Its DELETE sees the rows committed when it starts,     *)
(* waits for transactions that are deleting some of them, and never sees   *)
(* the rows those insert.                                                  *)
(***************************************************************************)
AgentOf(q)    == <<call[q].org, call[q].name>>
LabelsOf(a)   == {x.label : x \in {y \in labels : y.agent = a}}
InFlight(a)   == {q \in Reqs : At(q, "label", "commit") /\ AgentOf(q) = a}

DeleteLabels(q) ==
  LET a == AgentOf(q)
  IN /\ At(q, "label", "start")
     /\ \/ /\ a \in agents
           /\ dead' = [dead EXCEPT ![q] = {x \in labels : x.agent = a}]
           /\ blockers' = [blockers EXCEPT ![q] = {p \in InFlight(a) : dead[p] \cap dead'[q] # {}}]
           /\ overlapped' = IF InFlight(a) = {} THEN overlapped
                            ELSE overlapped \cup InFlight(a) \cup {q}
           /\ Goto(q, "commit") /\ UNCHANGED resp
        \/ /\ a \notin agents
           /\ Respond(q, "404") /\ UNCHANGED <<dead, blockers, overlapped>>
        \/ /\ Faults
           /\ Respond(q, "500") /\ UNCHANGED <<dead, blockers, overlapped>>
     /\ UNCHANGED <<dbVars, call, rtVars, saveVars, lastLabels, puts>>

Inserted(q)  == {[agent |-> AgentOf(q), label |-> l, by |-> q] : l \in call[q].labels}

(* Mutant of Kept: nothing is deleted. *)
KeptAll(q) == labels

(* What the DELETE leaves; an INSERT that repeats one of its keys aborts.  *)
Kept(q)      == labels \ dead[q]
Conflicts(q) == \E x \in Kept(q), y \in Inserted(q) :
                  x.agent = y.agent /\ x.label[1] = y.label[1]

(* The INSERTs and the COMMIT; an abort (a unique violation, a deadlock    *)
(* victim, a broken connection) leaves the table as it was.                *)
CommitLabels(q) ==
  /\ pc[q] = "commit"
  /\ \A p \in blockers[q] : pc[p] = "done"
  /\ \/ /\ ~Conflicts(q)
        /\ labels' = Kept(q) \cup Inserted(q)
        /\ lastLabels' = [lastLabels EXCEPT ![AgentOf(q)] = {q}]
        /\ Respond(q, "200") \/ (Faults /\ Respond(q, "500"))
     \/ /\ Conflicts(q) \/ Faults
        /\ Respond(q, "500") /\ UNCHANGED <<labels, lastLabels>>
  /\ UNCHANGED <<agents, yaml, applied, sets, call, rtVars, saveVars, dead, blockers,
                 overlapped, puts>>

(* The process dies with a handler in it; Postgres rolls its transaction   *)
(* back.                                                                   *)
CrashHandler(q) ==
  /\ Faults /\ pc[q] \notin {"start", "done"}
  /\ Goto(q, "done")
  /\ UNCHANGED <<dbVars, call, resp, rtVars, saveVars, txVars, puts>>

(***************************************************************************)
(* Requests that are one statement.                                        *)
(***************************************************************************)
RegisterAgent(a) ==
  /\ agents' = agents \cup {a}
  /\ UNCHANGED <<yaml, applied, labels, sets, call, pc, resp, rtVars, saveVars, txVars, puts>>

(* Mutant of UpdatedAgents: WHERE name = $3 only. *)
UpdatedAgentsAnyOrg(a) == {b \in agents : b[2] = a[2]}
UpdatedAgents(a) == {b \in agents : b = a}

(* PUT /v1/agents/:name/policy: the body is stored unvalidated, as is an   *)
(* empty one.                                                              *)
UpdateAgentPolicy(a, p) ==
  /\ a \in agents
  /\ yaml' = [b \in Agents |-> IF b \in UpdatedAgents(a) THEN p ELSE yaml[b]]
  /\ puts' = IF p = NoPolicy THEN puts ELSE puts \cup {<<a[1], p>>}
  /\ UNCHANGED <<agents, applied, labels, sets, call, pc, resp, rtVars, saveVars, txVars>>

(***************************************************************************)
(* The runtime of an agent: subscribed to policy_updates, it pulls the     *)
(* policy when told of one, swaps it in if it is valid, and reports the    *)
(* hash of what it loaded.                                                 *)
(***************************************************************************)
NoteLost(a) ==
  /\ \E n \in notes[a] : notes' = [notes EXCEPT ![a] = @ \ {n}]
  /\ UNCHANGED <<dbVars, call, pc, resp, told, rt, running, saveVars, txVars, puts>>

(* A note of the policy it runs already needs no pull. *)
ReceiveNote(a) ==
  /\ rt[a] = "idle"
  /\ \E n \in notes[a] :
       /\ notes' = [notes EXCEPT ![a] = @ \ {n}]
       /\ \/ n.policy = running[a] /\ UNCHANGED <<told, rt>>
          \/ /\ n.policy # running[a]
             /\ told' = [told EXCEPT ![a] = {n}] /\ rt' = [rt EXCEPT ![a] = "pull"]
  /\ UNCHANGED <<dbVars, call, pc, resp, running, saveVars, txVars, puts>>

(* GET /v1/agents/:name/policy answers with agents.policy_yaml. *)
PullPolicy(a) ==
  /\ rt[a] = "pull"
  /\ \/ /\ a \in agents /\ yaml[a] \in Policies \ Invalid
        /\ running' = [running EXCEPT ![a] = yaml[a]]
        /\ rt' = [rt EXCEPT ![a] = "report"] /\ UNCHANGED told
     \/ /\ a \notin agents \/ yaml[a] \notin Policies \ Invalid \/ Faults
        /\ rt' = [rt EXCEPT ![a] = "idle"] /\ told' = [told EXCEPT ![a] = {}]
        /\ UNCHANGED running
  /\ UNCHANGED <<dbVars, call, pc, resp, notes, saveVars, txVars, puts>>

MarkPolicyApplied(a) == applied' = [applied EXCEPT ![a] = running[a]]

ReportApplied(a) ==
  /\ rt[a] = "report"
  /\ \/ a \in agents /\ MarkPolicyApplied(a)
     \/ (a \notin agents \/ Faults) /\ UNCHANGED applied
  /\ rt' = [rt EXCEPT ![a] = "idle"] /\ told' = [told EXCEPT ![a] = {}]
  /\ UNCHANGED <<agents, yaml, labels, sets, call, pc, resp, notes, running, saveVars,
                 txVars, puts>>

Next ==
  \/ \E q \in Reqs : \/ SaveRefused(q) \/ ResolveForSave(q) \/ UpsertPolicySet(q)
                     \/ PublishNote(q) \/ FinishSave(q)
                     \/ DeleteLabels(q) \/ CommitLabels(q) \/ CrashHandler(q)
  \/ \E a \in Agents : \/ RegisterAgent(a)
                       \/ \E p \in Stored : UpdateAgentPolicy(a, p)
                       \/ NoteLost(a) \/ ReceiveNote(a) \/ PullPolicy(a) \/ ReportApplied(a)

Spec == Init /\ [][Next]_vars

(***************************************************************************)
(* Properties.                                                             *)
(***************************************************************************)

(* UpsertPolicySet: however saves of one set interleave, fail or lose      *)
(* their answer, no two are given the same version, none is skipped, and   *)
(* the row is the one of the save that was given the highest.              *)
WroteTo(i) == {q \in Reqs : call[q].op = "save" /\ wrote[q] # 0 /\ SetOf(q) = i}
SetIsLastSave ==
  \A i \in SetIds :
    /\ \A p, q \in WroteTo(i) : wrote[p] = wrote[q] => p = q
    /\ \A q \in WroteTo(i) : wrote[q] <= sets[i].version
    /\ \A v \in 1..sets[i].version : \E q \in WroteTo(i) : wrote[q] = v
    /\ sets[i].version # 0 =>
         \E q \in WroteTo(i) : sets[i] = Row(call[q], sets[i].version) /\ wrote[q] = sets[i].version

(* handleUpsertPolicySet publishes after the write has succeeded and to    *)
(* the resolved agents only: what a runtime is told of is a version its    *)
(* own org wrote, with that hash, by a save whose selector matched it.     *)
ToldOfOwnSave ==
  \A a \in Agents : \A n \in notes[a] \cup told[a] :
    \E q \in WroteTo(<<a[1], n.set>>) :
      /\ n.version = wrote[q] /\ n.policy = call[q].policy
      /\ n.policy \notin Invalid
      /\ a \in matched[q]

(* ResolveSelector, "AND across keys; equality on values": counting the    *)
(* distinct keys of the rows that satisfy some condition selects exactly   *)
(* the agents of the org that have every label, whatever labels agents     *)
(* have, of other values for the same keys and in other orgs too.          *)
SelectorIsConjunction ==
  \A o \in Orgs, sel \in Selectors :
    sel.agent = NoName /\ sel.match # {} =>
      ResolveSelector(o, sel) = {a \in agents : a[1] = o /\ sel.match \subseteq LabelsOf(a)}

(* SetAgentLabels "overwrites": after a label transaction that did not run *)
(* beside another one for the agent, and until the next one commits, the   *)
(* labels are exactly those it was given.                                  *)
LabelsOverwritten ==
  \A a \in Agents : \A q \in lastLabels[a] \ overlapped : LabelsOf(a) = call[q].labels

(* Tenant isolation of policies: what a runtime loads, and what the        *)
(* dashboard shows it has applied, was written for an agent of its own org *)
(* and passes validation.                                                  *)
RunsOwnOrgPolicy ==
  \A a \in Agents : \A p \in {running[a], applied[a]} \ {NoPolicy} :
    <<a[1], p>> \in puts /\ p \notin Invalid

(***************************************************************************)
(* The inductive invariant behind these properties.                        *)
(***************************************************************************)

(* A handler is in a step of its own operation; a save has a version from  *)
(* its write on, valid YAML once it is past validation, and notifies only  *)
(* agents of its org.                                                      *)
SavesOK ==
  \A q \in Reqs :
    /\ pc[q] \in {"write", "publish"} =>
         call[q].op = "save" /\ call[q].policy \notin Invalid
    /\ pc[q] \in {"start", "write", "commit"} => wrote[q] = 0
    /\ pc[q] = "publish" => wrote[q] # 0
    /\ wrote[q] # 0 => call[q].op = "save"
    /\ todo[q] \subseteq matched[q]
    /\ \A a \in matched[q] : a[1] = call[q].org
    /\ pc[q] = "start" => matched[q] = {}
    /\ pc[q] \in {"start", "write", "commit"} => todo[q] = {}

(* A stored or loaded policy was put there by the org.                     *)
StoredOwnPolicy ==
  \A a \in Agents :
    /\ yaml[a] # NoPolicy => <<a[1], yaml[a]>> \in puts
    /\ rt[a] = "report" => running[a] # NoPolicy

(* A label transaction alone on its agent has found all of its rows.       *)
TxsOK ==
  \A q \in Reqs :
    /\ pc[q] = "commit" => call[q].op = "label"
    /\ \A x \in dead[q] : x.agent = AgentOf(q)
    /\ pc[q] = "commit" /\ q \notin overlapped =>
         /\ InFlight(AgentOf(q)) = {q}
         /\ dead[q] = {x \in labels : x.agent = AgentOf(q)}
    /\ \A a \in Agents : q \in lastLabels[a] =>
         pc[q] = "done" /\ call[q].op = "label" /\ AgentOf(q) = a

IndInv == TypeOK /\ SavesOK /\ SetIsLastSave /\ ToldOfOwnSave /\ StoredOwnPolicy
          /\ RunsOwnOrgPolicy /\ TxsOK /\ LabelsOverwritten
=============================================================================
