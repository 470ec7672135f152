---------------------- MODULE PolicyDistribution_proofs ----------------------
(***************************************************************************)
(* Proofs about PolicyDistribution, for any orgs, agents, sets, labels,    *)
(* policies and requests, with and without faults.                         *)
(***************************************************************************)
EXTENDS PolicyDistribution, FiniteSetTheorems, FunctionTheorems, TLAPS

USE DEF dbVars, rtVars, saveVars, txVars

(* What is known of a request by its operation. *)
LEMMA CallTypes ==
  ASSUME TypeOK, NEW q \in Reqs
  PROVE  /\ call[q].op = "save" => /\ call[q] \in Saves
                                   /\ SetOf(q) \in SetIds
         /\ call[q].op = "label" => /\ call[q] \in Relabels
                                    /\ AgentOf(q) \in Agents
                                    /\ Inserted(q) \subseteq LabelRows
<1>1. call[q] \in Saves \cup Relabels
  BY PolicyDistributionAssumption DEF TypeOK
<1>2. ASSUME call[q].op = "save" PROVE call[q] \in Saves /\ SetOf(q) \in SetIds
  BY <1>1, <1>2 DEF Saves, Relabels, SetOf, SetIds
<1>3. ASSUME call[q].op = "label" PROVE call[q] \in Relabels /\ AgentOf(q) \in Agents
  BY <1>1, <1>3 DEF Saves, Relabels, AgentOf, Agents
<1>4. ASSUME call[q].op = "label" PROVE Inserted(q) \subseteq LabelRows
  <2>1. call[q].labels \subseteq Labels
    BY <1>3, <1>4 DEF Relabels, LabelMaps
  <2> QED
    BY <1>3, <1>4, <2>1 DEF Inserted, LabelRows
<1> QED
  BY <1>2, <1>3, <1>4

(* The inductive invariant holds of an empty database. *)
LEMMA InitInv == Init => IndInv
<1> SUFFICES ASSUME Init PROVE IndInv
  OBVIOUS
<1> USE DEF Init
<1>1. TypeOK
  BY DEF TypeOK, Stored, SetRows
<1>2. SavesOK
  BY DEF SavesOK
<1>3. SetIsLastSave /\ ToldOfOwnSave
  BY DEF SetIsLastSave, WroteTo, ToldOfOwnSave, NoSet
<1>4. StoredOwnPolicy /\ RunsOwnOrgPolicy
  BY DEF StoredOwnPolicy, RunsOwnOrgPolicy
<1>5. TxsOK /\ LabelsOverwritten
  BY DEF TxsOK, LabelsOverwritten
<1> QED
  BY <1>1, <1>2, <1>3, <1>4, <1>5 DEF IndInv

(* Type correctness of every step. *)
LEMMA TypeStep == IndInv /\ [Next]_vars => TypeOK'
<1> SUFFICES ASSUME IndInv, [Next]_vars PROVE TypeOK'
  OBVIOUS
<1>0. TypeOK /\ SavesOK /\ TxsOK
  BY DEF IndInv
<1>1. ASSUME NEW q \in Reqs, SaveRefused(q) PROVE TypeOK'
  BY <1>0, <1>1 DEF TypeOK, SaveRefused, Respond, Goto
<1>2. ASSUME NEW q \in Reqs, ResolveForSave(q) PROVE TypeOK'
  <2>1. ResolveSelector(call[q].org, call[q].sel) \subseteq Agents
    BY <1>0 DEF ResolveSelector, TypeOK
  <2>2. matched' \in [Reqs -> SUBSET Agents]
    BY <1>0, <1>2, <2>1 DEF TypeOK, ResolveForSave
  <2>3. /\ pc' \in [Reqs -> {"start", "write", "publish", "commit", "done"}]
        /\ resp' \in [Reqs -> {"none", "200", "400", "404", "500"}]
    BY <1>0, <1>2 DEF TypeOK, ResolveForSave, Respond, Goto
  <2> QED
    BY <1>0, <1>2, <2>2, <2>3 DEF TypeOK, ResolveForSave
<1>3. ASSUME NEW q \in Reqs, UpsertPolicySet(q) PROVE TypeOK'
  <2>1. call[q] \in Saves /\ SetOf(q) \in SetIds
    BY <1>0, <1>3, CallTypes DEF UpsertPolicySet, SavesOK
  <2>2. sets[SetOf(q)].version \in Nat
    BY <1>0, <2>1 DEF TypeOK, SetRows, NoSet
  <2>3. WriteSet(q) => sets' \in [SetIds -> SetRows] /\ wrote' \in [Reqs -> Nat]
    <3> DEFINE v == sets[SetOf(q)].version + 1
    <3>1. v \in Nat \ {0}
      BY <2>2
    <3> HIDE DEF v
    <3>2. Row(call[q], v) \in SetRows
      BY <2>1, <3>1 DEF Row, SetRows, Saves
    <3>3. WriteSet(q) => /\ sets' = [sets EXCEPT ![SetOf(q)] = Row(call[q], v)]
                         /\ wrote' = [wrote EXCEPT ![q] = v]
      BY DEF WriteSet, v
    <3> QED
      BY <1>0, <3>1, <3>2, <3>3 DEF TypeOK
  <2>4. sets' \in [SetIds -> SetRows] /\ wrote' \in [Reqs -> Nat]
    BY <1>0, <1>3, <2>3 DEF TypeOK, UpsertPolicySet
  <2>5. todo' \in [Reqs -> SUBSET Agents]
    BY <1>0, <1>3 DEF TypeOK, UpsertPolicySet
  <2>6. /\ pc' \in [Reqs -> {"start", "write", "publish", "commit", "done"}]
        /\ resp' \in [Reqs -> {"none", "200", "400", "404", "500"}]
    <3>1. \/ pc' = [pc EXCEPT ![q] = "publish"] /\ resp' = resp
          \/ pc' = [pc EXCEPT ![q] = "done"] /\ resp' = [resp EXCEPT ![q] = "500"]
      BY <1>3, Zenon DEF UpsertPolicySet, Respond, Goto
    <3> QED
      BY <1>0, <3>1 DEF TypeOK
  <2> QED
    BY <1>0, <1>3, <2>4, <2>5, <2>6 DEF TypeOK, UpsertPolicySet
<1>4. ASSUME NEW q \in Reqs, PublishNote(q) PROVE TypeOK'
  <2>1. PICK a \in todo[q] : /\ todo' = [todo EXCEPT ![q] = @ \ {a}]
                             /\ \/ notes' = [notes EXCEPT ![a] = @ \cup {NoteOf(q)}]
                                \/ notes' = notes
    BY <1>4 DEF PublishNote
  <2>2. call[q] \in Saves
    BY <1>0, <1>4, CallTypes DEF PublishNote, SavesOK
  <2>3. NoteOf(q) \in Notes
    BY <1>0, <2>2 DEF NoteOf, Notes, Saves, TypeOK
  <2>4. notes' \in [Agents -> SUBSET Notes] /\ todo' \in [Reqs -> SUBSET Agents]
    BY <1>0, <2>1, <2>3 DEF TypeOK
  <2> QED
    BY <1>0, <1>4, <2>4 DEF TypeOK, PublishNote
<1>5. ASSUME NEW q \in Reqs, FinishSave(q) PROVE TypeOK'
  BY <1>0, <1>5 DEF TypeOK, FinishSave, Respond, Goto
<1>6. ASSUME NEW q \in Reqs, DeleteLabels(q) PROVE TypeOK'
  <2>1. /\ dead' \in [Reqs -> SUBSET LabelRows]
        /\ blockers' \in [Reqs -> SUBSET Reqs]
        /\ overlapped' \subseteq Reqs
    BY <1>0, <1>6 DEF TypeOK, DeleteLabels, InFlight
  <2>2. pc' \in [Reqs -> {"start", "write", "publish", "commit", "done"}]
        /\ resp' \in [Reqs -> {"none", "200", "400", "404", "500"}]
    BY <1>0, <1>6 DEF TypeOK, DeleteLabels, Respond, Goto
  <2> QED
    BY <1>0, <1>6, <2>1, <2>2 DEF TypeOK, DeleteLabels
<1>7. ASSUME NEW q \in Reqs, CommitLabels(q) PROVE TypeOK'
  <2>1. AgentOf(q) \in Agents /\ Inserted(q) \subseteq LabelRows
    BY <1>0, <1>7, CallTypes DEF CommitLabels, TxsOK
  <2>2. labels' \subseteq LabelRows /\ lastLabels' \in [Agents -> SUBSET Reqs]
    BY <1>0, <1>7, <2>1 DEF TypeOK, CommitLabels, Kept
  <2>3. pc' \in [Reqs -> {"start", "write", "publish", "commit", "done"}]
        /\ resp' \in [Reqs -> {"none", "200", "400", "404", "500"}]
    BY <1>0, <1>7 DEF TypeOK, CommitLabels, Respond, Goto
  <2> QED
    BY <1>0, <1>7, <2>2, <2>3 DEF TypeOK, CommitLabels
<1>8. ASSUME NEW q \in Reqs, CrashHandler(q) PROVE TypeOK'
  BY <1>0, <1>8 DEF TypeOK, CrashHandler, Goto
<1>9. ASSUME NEW a \in Agents, RegisterAgent(a) PROVE TypeOK'
  BY <1>0, <1>9 DEF TypeOK, RegisterAgent
<1>10. ASSUME NEW a \in Agents, NEW p \in Stored, UpdateAgentPolicy(a, p) PROVE TypeOK'
  <2>1. yaml' \in [Agents -> Stored] /\ puts' \subseteq Orgs \X Policies
    BY <1>0, <1>10 DEF TypeOK, UpdateAgentPolicy, Stored, Agents
  <2> QED
    BY <1>0, <1>10, <2>1 DEF TypeOK, UpdateAgentPolicy
<1>11. ASSUME NEW a \in Agents, NoteLost(a) PROVE TypeOK'
  BY <1>0, <1>11 DEF TypeOK, NoteLost
<1>12. ASSUME NEW a \in Agents, ReceiveNote(a) PROVE TypeOK'
  BY <1>0, <1>12 DEF TypeOK, ReceiveNote
<1>13. ASSUME NEW a \in Agents, PullPolicy(a) PROVE TypeOK'
  <2>1. rt' \in [Agents -> {"idle", "pull", "report"}]
    BY <1>0, <1>13 DEF TypeOK, PullPolicy
  <2>2. running' \in [Agents -> Stored] /\ told' \in [Agents -> SUBSET Notes]
    <3>1. \/ running' = [running EXCEPT ![a] = yaml[a]] /\ told' = told
          \/ running' = running /\ told' = [told EXCEPT ![a] = {}]
      BY <1>13, Zenon DEF PullPolicy
    <3> QED
      BY <1>0, <3>1 DEF TypeOK
  <2> QED
    BY <1>0, <1>13, <2>1, <2>2 DEF TypeOK, PullPolicy
<1>14. ASSUME NEW a \in Agents, ReportApplied(a) PROVE TypeOK'
  BY <1>0, <1>14 DEF TypeOK, ReportApplied, MarkPolicyApplied
<1>15. CASE UNCHANGED vars
  BY <1>0, <1>15 DEF TypeOK, vars
<1> QED
  BY <1>1, <1>2, <1>3, <1>4, <1>5, <1>6, <1>7, <1>8, <1>9, <1>10, <1>11, <1>12, <1>13,
     <1>14, <1>15 DEF Next

(* Handlers stay in the steps of their own operation. *)
LEMMA SavesStep == IndInv /\ [Next]_vars => SavesOK'
<1> SUFFICES ASSUME IndInv, [Next]_vars, NEW p \in Reqs PROVE SavesOK!(p)'
  BY DEF SavesOK
<1>0. TypeOK /\ SavesOK /\ TxsOK
  BY DEF IndInv
<1> DEFINE P == SavesOK!(p)'
<1>1. ASSUME NEW q \in Reqs, SaveRefused(q) PROVE P
  BY <1>0, <1>1 DEF TypeOK, SavesOK, SaveRefused, Respond, Goto
<1>2. ASSUME NEW q \in Reqs, ResolveForSave(q) PROVE P
  <2>1. \A a \in ResolveSelector(call[q].org, call[q].sel) : a[1] = call[q].org
    BY DEF ResolveSelector
  <2>2. \/ /\ \E S \in SUBSET ResolveSelector(call[q].org, call[q].sel) :
                matched' = [matched EXCEPT ![q] = S]
           /\ pc' = [pc EXCEPT ![q] = "write"]
        \/ /\ matched' = matched /\ pc' = [pc EXCEPT ![q] = "done"]
    BY <1>2, Zenon DEF ResolveForSave, Respond, Goto
  <2> QED
    BY <1>0, <1>2, <2>1, <2>2 DEF TypeOK, SavesOK, ResolveForSave, At
<1>3. ASSUME NEW q \in Reqs, UpsertPolicySet(q) PROVE P
  <2>1. \/ /\ wrote' = [wrote EXCEPT ![q] = sets[SetOf(q)].version + 1]
           /\ \/ todo' = [todo EXCEPT ![q] = matched[q]] /\ pc' = [pc EXCEPT ![q] = "publish"]
              \/ todo' = todo /\ pc' = [pc EXCEPT ![q] = "done"]
        \/ wrote' = wrote /\ todo' = todo /\ pc' = [pc EXCEPT ![q] = "done"]
    BY <1>3, Zenon DEF UpsertPolicySet, WriteSet, Respond, Goto
  <2>2. sets[SetOf(q)].version \in Nat
    <3>1. SetOf(q) \in SetIds
      BY <1>0, <1>3, CallTypes DEF UpsertPolicySet, SavesOK
    <3> QED
      BY <1>0, <3>1 DEF TypeOK, SetRows, NoSet
  <2>3. sets[SetOf(q)].version + 1 # 0
    BY <2>2
  <2> QED
    BY <1>0, <1>3, <2>1, <2>3 DEF TypeOK, SavesOK, UpsertPolicySet
<1>4. ASSUME NEW q \in Reqs, PublishNote(q) PROVE P
  <2>1. PICK a \in todo[q] : todo' = [todo EXCEPT ![q] = @ \ {a}]
    BY <1>4 DEF PublishNote
  <2> QED
    BY <1>0, <1>4, <2>1 DEF TypeOK, SavesOK, PublishNote
<1>5. ASSUME NEW q \in Reqs, FinishSave(q) PROVE P
  BY <1>0, <1>5 DEF TypeOK, SavesOK, FinishSave, Respond, Goto
<1>6. ASSUME NEW q \in Reqs, DeleteLabels(q) PROVE P
  <2>1. \E l \in {"commit", "done"} : pc' = [pc EXCEPT ![q] = l]
    BY <1>6, Zenon DEF DeleteLabels, Respond, Goto
  <2> QED
    BY <1>0, <1>6, <2>1 DEF TypeOK, SavesOK, DeleteLabels, At
<1>7. ASSUME NEW q \in Reqs, CommitLabels(q) PROVE P
  <2>1. pc' = [pc EXCEPT ![q] = "done"]
    BY <1>7, Zenon DEF CommitLabels, Respond, Goto
  <2> QED
    BY <1>0, <1>7, <2>1 DEF TypeOK, SavesOK, CommitLabels
<1>8. ASSUME NEW q \in Reqs, CrashHandler(q) PROVE P
  BY <1>0, <1>8 DEF TypeOK, SavesOK, CrashHandler, Goto
<1>9. ASSUME UNCHANGED <<call, pc, saveVars>> PROVE P
  BY <1>0, <1>9 DEF SavesOK
<1>10. ASSUME NEW a \in Agents,
              \/ RegisterAgent(a) \/ \E x \in Stored : UpdateAgentPolicy(a, x)
              \/ NoteLost(a) \/ ReceiveNote(a) \/ PullPolicy(a) \/ ReportApplied(a)
       PROVE  UNCHANGED <<call, pc, saveVars>>
  BY <1>10 DEF RegisterAgent, UpdateAgentPolicy, NoteLost, ReceiveNote, PullPolicy, ReportApplied
<1>11. CASE UNCHANGED vars
  BY <1>9, <1>11 DEF vars
<1> QED
  BY <1>1, <1>2, <1>3, <1>4, <1>5, <1>6, <1>7, <1>8, <1>9, <1>10, <1>11 DEF Next

(* Only UpsertPolicySet touches policy_sets, and it does so once per save. *)
LEMMA OtherSteps ==
  ASSUME Next
  PROVE  \/ \E q \in Reqs : UpsertPolicySet(q)
         \/ UNCHANGED <<call, sets, wrote>>
BY DEF Next, SaveRefused, ResolveForSave, PublishNote, FinishSave, DeleteLabels, CommitLabels,
       CrashHandler, RegisterAgent, UpdateAgentPolicy, NoteLost, ReceiveNote, PullPolicy,
       ReportApplied

(* A write takes the next version and becomes the row. *)
LEMMA SetsStep == IndInv /\ [Next]_vars => SetIsLastSave'
<1> SUFFICES ASSUME IndInv, [Next]_vars PROVE SetIsLastSave'
  OBVIOUS
<1>0. TypeOK /\ SavesOK /\ SetIsLastSave
  BY DEF IndInv
<1>1. ASSUME UNCHANGED <<call, sets, wrote>> PROVE SetIsLastSave'
  BY <1>0, <1>1 DEF SetIsLastSave, WroteTo, SetOf
<1>2. ASSUME NEW q \in Reqs, UpsertPolicySet(q), WriteSet(q) PROVE SetIsLastSave'
  <2> SUFFICES ASSUME NEW i \in SetIds PROVE SetIsLastSave!(i)'
    BY DEF SetIsLastSave
  <2> DEFINE v == sets[SetOf(q)].version + 1
  <2>1. call[q].op = "save" /\ wrote[q] = 0 /\ call' = call
    BY <1>0, <1>2 DEF UpsertPolicySet, SavesOK
  <2>2. SetOf(q) \in SetIds
    BY <1>0, <2>1, CallTypes
  <2>3. sets[SetOf(q)].version \in Nat
    BY <1>0, <2>2 DEF TypeOK, SetRows, NoSet
  <2>4. /\ sets' = [sets EXCEPT ![SetOf(q)] = Row(call[q], v)]
        /\ wrote' = [wrote EXCEPT ![q] = v]
    BY <1>2 DEF WriteSet
  <2>5. sets \in [SetIds -> SetRows] /\ wrote \in [Reqs -> Nat]
    BY <1>0 DEF TypeOK
  <2>6. CASE i = SetOf(q)
    <3>1. WroteTo(i)' = WroteTo(i) \cup {q}
      BY <2>1, <2>3, <2>4, <2>5, <2>6 DEF WroteTo, SetOf
    <3>2. q \notin WroteTo(i)
      BY <2>1 DEF WroteTo
    <3>3. \A p \in WroteTo(i) : wrote'[p] = wrote[p] /\ wrote[p] \in Nat /\ wrote[p] <= sets[i].version
      BY <1>0, <2>4, <2>5, <3>2 DEF SetIsLastSave, WroteTo
    <3>4. sets'[i] = Row(call[q], v) /\ sets'[i].version = v /\ wrote'[q] = v
      BY <2>2, <2>4, <2>5, <2>6 DEF Row
    <3>5. \A p, r \in WroteTo(i)' : wrote'[p] = wrote'[r] => p = r
      BY <1>0, <2>3, <2>6, <3>1, <3>3, <3>4 DEF SetIsLastSave
    <3>6. \A p \in WroteTo(i)' : wrote'[p] <= sets'[i].version
      BY <2>3, <2>6, <3>1, <3>3, <3>4
    <3>7. ASSUME NEW w \in 1..sets'[i].version PROVE \E p \in WroteTo(i)' : wrote'[p] = w
      <4>1. CASE w = v
        BY <3>1, <3>4, <4>1
      <4>2. CASE w # v
        <5>1. w \in 1..sets[i].version
          BY <2>3, <2>6, <3>4, <4>2
        <5>2. PICK p \in WroteTo(i) : wrote[p] = w
          BY <1>0, <5>1 DEF SetIsLastSave
        <5>3. QED
          BY <3>1, <3>3, <5>2
      <4>3. QED
        BY <4>1, <4>2
    <3> QED
      BY <2>1, <3>1, <3>4, <3>5, <3>6, <3>7 DEF Row
  <2>7. CASE i # SetOf(q)
    <3>1. sets'[i] = sets[i]
      BY <2>4, <2>5, <2>7
    <3>2. WroteTo(i)' = WroteTo(i) /\ q \notin WroteTo(i)
      BY <2>1, <2>4, <2>5, <2>7 DEF WroteTo, SetOf
    <3>3. \A p \in WroteTo(i) : wrote'[p] = wrote[p]
      BY <2>4, <2>5, <3>2 DEF WroteTo
    <3> QED
      BY <1>0, <2>1, <3>1, <3>2, <3>3 DEF SetIsLastSave
  <2> QED
    BY <2>6, <2>7
<1>3. ASSUME NEW q \in Reqs, UpsertPolicySet(q), ~WriteSet(q) PROVE SetIsLastSave'
  BY <1>1, <1>3 DEF UpsertPolicySet
<1>4. CASE UNCHANGED vars
  BY <1>1, <1>4 DEF vars
<1> QED
  BY <1>1, <1>2, <1>3, <1>4, OtherSteps

(* A save that has a version keeps it, and what it matched. *)
LEMMA SavesKept ==
  ASSUME IndInv, [Next]_vars, NEW i, NEW q \in WroteTo(i)
  PROVE  /\ q \in WroteTo(i)'
         /\ wrote'[q] = wrote[q] /\ call'[q] = call[q] /\ matched'[q] = matched[q]
<1>0. TypeOK /\ SavesOK /\ q \in Reqs /\ wrote[q] # 0
  BY DEF IndInv, WroteTo
<1>1. call' = call
  BY DEF vars, Next, SaveRefused, ResolveForSave, UpsertPolicySet, PublishNote, FinishSave,
         DeleteLabels, CommitLabels, CrashHandler, RegisterAgent, UpdateAgentPolicy, NoteLost,
         ReceiveNote, PullPolicy, ReportApplied
<1>2. wrote'[q] = wrote[q]
  <2>1. ASSUME NEW p \in Reqs, UpsertPolicySet(p) PROVE wrote'[q] = wrote[q]
    <3>1. p # q
      BY <1>0, <2>1 DEF UpsertPolicySet, SavesOK
    <3>2. wrote' = wrote \/ wrote' = [wrote EXCEPT ![p] = sets[SetOf(p)].version + 1]
      BY <2>1, Zenon DEF UpsertPolicySet, WriteSet
    <3> QED
      BY <1>0, <3>1, <3>2 DEF TypeOK
  <2> QED
    BY <2>1, OtherSteps DEF vars
<1>3. matched'[q] = matched[q]
  <2>1. ASSUME NEW p \in Reqs, ResolveForSave(p) PROVE matched'[q] = matched[q]
    <3>1. p # q
      BY <1>0, <2>1 DEF ResolveForSave, At, SavesOK
    <3>2. \/ matched' = matched
          \/ \E S \in SUBSET ResolveSelector(call[p].org, call[p].sel) :
               matched' = [matched EXCEPT ![p] = S]
      BY <2>1, Zenon DEF ResolveForSave
    <3> QED
      BY <1>0, <3>1, <3>2 DEF TypeOK
  <2>2. Next => matched' = matched \/ \E p \in Reqs : ResolveForSave(p)
    BY DEF Next, SaveRefused, UpsertPolicySet, PublishNote, FinishSave, DeleteLabels,
           CommitLabels, CrashHandler, RegisterAgent, UpdateAgentPolicy, NoteLost, ReceiveNote,
           PullPolicy, ReportApplied
  <2> QED
    BY <2>1, <2>2 DEF vars
<1> QED
  BY <1>0, <1>1, <1>2, <1>3 DEF WroteTo, SetOf

(* A step adds a note to those of an agent only by publishing it. *)
LEMMA ToldStep == IndInv /\ [Next]_vars => ToldOfOwnSave'
<1> SUFFICES ASSUME IndInv, [Next]_vars, NEW a \in Agents, NEW n \in (notes[a] \cup told[a])'
             PROVE  ToldOfOwnSave!(a)!(n)'
  BY DEF ToldOfOwnSave
<1>0. TypeOK /\ SavesOK /\ ToldOfOwnSave
  BY DEF IndInv
<1>1. CASE n \in notes[a] \cup told[a]
  <2>1. PICK q \in WroteTo(<<a[1], n.set>>) :
          /\ n.version = wrote[q] /\ n.policy = call[q].policy
          /\ n.policy \notin Invalid /\ a \in matched[q]
    BY <1>0, <1>1 DEF ToldOfOwnSave
  <2> QED
    BY <2>1, SavesKept
<1>2. ASSUME NEW q \in Reqs, PublishNote(q), n \notin notes[a] \cup told[a]
      PROVE  ToldOfOwnSave!(a)!(n)'
  <2>1. PICK b \in todo[q] : \/ notes' = [notes EXCEPT ![b] = @ \cup {NoteOf(q)}]
                             \/ notes' = notes
    BY <1>2 DEF PublishNote
  <2>2. n = NoteOf(q) /\ a \in todo[q]
    BY <1>0, <1>2, <2>1 DEF TypeOK, PublishNote
  <2>3. /\ call[q].op = "save" /\ wrote[q] # 0 /\ call[q].policy \notin Invalid
        /\ a \in matched[q] /\ a[1] = call[q].org
    BY <1>0, <1>2, <2>2 DEF PublishNote, SavesOK
  <2>4. q \in WroteTo(<<a[1], n.set>>)
    BY <2>2, <2>3 DEF WroteTo, SetOf, NoteOf
  <2> QED
    BY <1>2, <2>2, <2>3, <2>4, SavesKept DEF NoteOf
<1>3. Next => \/ \E q \in Reqs : PublishNote(q)
              \/ \E b \in Agents : NoteLost(b) \/ ReceiveNote(b) \/ PullPolicy(b) \/ ReportApplied(b)
              \/ UNCHANGED <<notes, told>>
  BY DEF Next, SaveRefused, ResolveForSave, UpsertPolicySet, FinishSave, DeleteLabels,
         CommitLabels, CrashHandler, RegisterAgent, UpdateAgentPolicy
<1>4. ASSUME NEW b \in Agents, NoteLost(b) \/ ReceiveNote(b) \/ PullPolicy(b) \/ ReportApplied(b)
      PROVE  n \in notes[a] \cup told[a]
  <2>1. ASSUME NoteLost(b) \/ ReceiveNote(b) PROVE n \in notes[a] \cup told[a]
    BY <1>0, <2>1 DEF TypeOK, NoteLost, ReceiveNote
  <2>2. ASSUME PullPolicy(b) \/ ReportApplied(b) PROVE n \in notes[a] \cup told[a]
    <3>1. notes' = notes /\ (told' = told \/ told' = [told EXCEPT ![b] = {}])
      BY <2>2, Zenon DEF PullPolicy, ReportApplied
    <3> QED
      BY <1>0, <3>1 DEF TypeOK
  <2> QED
    BY <1>4, <2>1, <2>2
<1>5. CASE UNCHANGED vars
  BY <1>1, <1>5 DEF vars
<1> QED
  BY <1>1, <1>2, <1>3, <1>4, <1>5

(* Policies reach a runtime through its own row only. *)
LEMMA PolicyStep == IndInv /\ [Next]_vars => StoredOwnPolicy' /\ RunsOwnOrgPolicy'
<1> SUFFICES ASSUME IndInv, [Next]_vars PROVE StoredOwnPolicy' /\ RunsOwnOrgPolicy'
  OBVIOUS
<1>0. TypeOK /\ StoredOwnPolicy /\ RunsOwnOrgPolicy
  BY DEF IndInv
<1>1. ASSUME UNCHANGED <<yaml, applied, running, puts, rt>>
      PROVE  StoredOwnPolicy' /\ RunsOwnOrgPolicy'
  BY <1>0, <1>1 DEF StoredOwnPolicy, RunsOwnOrgPolicy
<1>2. ASSUME NEW a \in Agents, NEW p \in Stored, UpdateAgentPolicy(a, p)
      PROVE  StoredOwnPolicy' /\ RunsOwnOrgPolicy'
  <2>1. puts \subseteq puts'
    BY <1>2 DEF UpdateAgentPolicy
  <2>2. RunsOwnOrgPolicy'
    BY <1>0, <1>2, <2>1 DEF RunsOwnOrgPolicy, UpdateAgentPolicy
  <2>3. ASSUME NEW b \in Agents, yaml'[b] # NoPolicy PROVE <<b[1], yaml'[b]>> \in puts'
    <3>1. yaml'[b] = IF b \in UpdatedAgents(a) THEN p ELSE yaml[b]
      BY <1>2 DEF UpdateAgentPolicy
    <3>2. CASE b \in UpdatedAgents(a)
      <4>1. b = a /\ p # NoPolicy
        BY <2>3, <3>1, <3>2 DEF UpdatedAgents
      <4> QED
        BY <1>2, <3>1, <3>2, <4>1 DEF UpdateAgentPolicy
    <3>3. CASE b \notin UpdatedAgents(a)
      BY <1>0, <2>1, <2>3, <3>1, <3>3 DEF StoredOwnPolicy
    <3> QED
      BY <3>2, <3>3
  <2> QED
    BY <1>0, <1>2, <2>2, <2>3 DEF StoredOwnPolicy, UpdateAgentPolicy
<1>3. ASSUME NEW a \in Agents, ReceiveNote(a) PROVE StoredOwnPolicy' /\ RunsOwnOrgPolicy'
  BY <1>0, <1>3 DEF StoredOwnPolicy, RunsOwnOrgPolicy, ReceiveNote, TypeOK
<1>4. ASSUME NEW a \in Agents, PullPolicy(a) PROVE StoredOwnPolicy' /\ RunsOwnOrgPolicy'
  <2>1. \/ /\ yaml[a] \in Policies \ Invalid
           /\ running' = [running EXCEPT ![a] = yaml[a]] /\ rt' = [rt EXCEPT ![a] = "report"]
        \/ running' = running /\ rt' = [rt EXCEPT ![a] = "idle"]
    BY <1>4, Zenon DEF PullPolicy
  <2>2. UNCHANGED <<yaml, applied, puts>>
    BY <1>4 DEF PullPolicy
  <2>3. yaml[a] \in Policies \ Invalid => yaml[a] # NoPolicy /\ <<a[1], yaml[a]>> \in puts
    BY <1>0, PolicyDistributionAssumption DEF StoredOwnPolicy
  <2>4. StoredOwnPolicy'
    BY <1>0, <2>1, <2>2, <2>3 DEF StoredOwnPolicy, TypeOK
  <2>5. RunsOwnOrgPolicy'
    <3>1. ASSUME NEW b \in Agents PROVE running'[b] = running[b] \/ (b = a /\ running'[b] = yaml[a]
                                                           /\ yaml[a] \in Policies \ Invalid)
      BY <1>0, <2>1 DEF TypeOK
    <3> QED
      BY <1>0, <2>2, <2>3, <3>1 DEF RunsOwnOrgPolicy
  <2> QED
    BY <2>4, <2>5
<1>5. ASSUME NEW a \in Agents, ReportApplied(a) PROVE StoredOwnPolicy' /\ RunsOwnOrgPolicy'
  <2>1. /\ applied' = applied \/ applied' = [applied EXCEPT ![a] = running[a]]
        /\ rt' = [rt EXCEPT ![a] = "idle"]
        /\ UNCHANGED <<yaml, running, puts>>
    BY <1>5, Zenon DEF ReportApplied, MarkPolicyApplied
  <2>2. StoredOwnPolicy'
    BY <1>0, <2>1 DEF StoredOwnPolicy, TypeOK
  <2>3. RunsOwnOrgPolicy'
    BY <1>0, <2>1 DEF RunsOwnOrgPolicy, TypeOK
  <2> QED
    BY <2>2, <2>3
<1>6. Next => \/ \E a \in Agents : \/ \E p \in Stored : UpdateAgentPolicy(a, p)
                                   \/ ReceiveNote(a) \/ PullPolicy(a) \/ ReportApplied(a)
              \/ UNCHANGED <<yaml, applied, running, puts, rt>>
  BY DEF Next, SaveRefused, ResolveForSave, UpsertPolicySet, PublishNote, FinishSave,
         DeleteLabels, CommitLabels, CrashHandler, RegisterAgent, NoteLost
<1>7. CASE UNCHANGED vars
  BY <1>1, <1>7 DEF vars
<1> QED
  BY <1>1, <1>2, <1>3, <1>4, <1>5, <1>6, <1>7

(* A label transaction that runs alone replaces what it found. *)
LEMMA LabelsStep == IndInv /\ [Next]_vars => TxsOK' /\ LabelsOverwritten'
<1> SUFFICES ASSUME IndInv, [Next]_vars PROVE TxsOK' /\ LabelsOverwritten'
  OBVIOUS
<1>0. TypeOK /\ SavesOK /\ TxsOK /\ LabelsOverwritten
  BY DEF IndInv
<1>1. ASSUME UNCHANGED <<call, labels, txVars>>,
             \A q \in Reqs : \/ pc'[q] = pc[q]
                             \/ pc'[q] # "commit" /\ pc[q] # "done"
      PROVE  TxsOK' /\ LabelsOverwritten'
  <2>1. LabelsOverwritten'
    BY <1>0, <1>1 DEF LabelsOverwritten, LabelsOf
  <2>2. ASSUME NEW a PROVE InFlight(a)' \subseteq InFlight(a)
    BY <1>1 DEF InFlight, At, AgentOf
  <2>3. ASSUME NEW q \in Reqs PROVE TxsOK!(q)'
    <3>1. (pc[q] = "commit")' => pc[q] = "commit"
      BY <1>1
    <3>2. (pc[q] = "commit")' => InFlight(AgentOf(q))' \subseteq InFlight(AgentOf(q)) /\ q \in InFlight(AgentOf(q))'
      BY <1>0, <1>1, <2>2, <3>1 DEF InFlight, At, AgentOf, TxsOK
    <3>3. pc[q] = "done" => pc'[q] = "done"
      BY <1>1
    <3> QED
      BY <1>0, <1>1, <3>1, <3>2, <3>3 DEF TxsOK, AgentOf
  <2> QED
    BY <2>1, <2>3 DEF TxsOK
<1>2. ASSUME NEW p \in Reqs, DeleteLabels(p), p \notin InFlight(AgentOf(p))',
             UNCHANGED <<dead, blockers, overlapped>>
      PROVE  TxsOK' /\ LabelsOverwritten'
  <2>1. At(p, "label", "start") /\ UNCHANGED <<call, labels, lastLabels>>
    BY <1>2 DEF DeleteLabels
  <2>2. \E l \in {"commit", "done"} : pc' = [pc EXCEPT ![p] = l]
    BY <1>2, Zenon DEF DeleteLabels, Respond, Goto
  <2>3. pc' = [pc EXCEPT ![p] = "done"]
    BY <1>0, <1>2, <2>1, <2>2 DEF InFlight, At, AgentOf, TypeOK
  <2> QED
    BY <1>0, <1>1, <1>2, <2>1, <2>3 DEF At, TypeOK
<1>3. ASSUME NEW p \in Reqs, DeleteLabels(p),
             pc' = [pc EXCEPT ![p] = "commit"],
             dead' = [dead EXCEPT ![p] = {x \in labels : x.agent = AgentOf(p)}],
             overlapped' = IF InFlight(AgentOf(p)) = {} THEN overlapped
                           ELSE overlapped \cup InFlight(AgentOf(p)) \cup {p}
      PROVE  TxsOK' /\ LabelsOverwritten'
  <2>1. At(p, "label", "start") /\ UNCHANGED <<call, labels, lastLabels>>
    BY <1>3 DEF DeleteLabels
  <2>2. overlapped \subseteq overlapped'
    BY <1>3
  <2>3. LabelsOverwritten'
    BY <1>0, <2>1, <2>2 DEF LabelsOverwritten, LabelsOf
  <2>4. ASSUME NEW q \in Reqs PROVE TxsOK!(q)'
    <3>1. CASE q = p
      <4>1. (pc[q] = "commit" /\ q \notin overlapped)' => InFlight(AgentOf(p)) = {}
        BY <1>3, <3>1
      <4>2. /\ AgentOf(q)' = AgentOf(p) /\ dead'[q] = {x \in labels : x.agent = AgentOf(p)}
            /\ pc'[q] = "commit"
        BY <1>0, <1>3, <2>1, <3>1 DEF AgentOf, TypeOK
      <4>3. \A a \in Agents : q \notin lastLabels[a]
        BY <1>0, <2>1, <3>1 DEF TxsOK, At
      <4>4. InFlight(AgentOf(p))' = InFlight(AgentOf(p)) \cup {p}
        BY <1>0, <1>3, <2>1 DEF InFlight, At, AgentOf, TypeOK
      <4> QED
        BY <2>1, <3>1, <4>1, <4>2, <4>3, <4>4 DEF At
    <3>2. CASE q # p
      <4>1. pc'[q] = pc[q] /\ dead'[q] = dead[q] /\ AgentOf(q)' = AgentOf(q)
        BY <1>0, <1>3, <2>1, <3>2 DEF AgentOf, TypeOK
      <4>2. pc[q] = "commit" => q \in InFlight(AgentOf(q))
        BY <1>0 DEF InFlight, At, TxsOK
      <4>3. pc[q] = "commit" /\ q \notin overlapped' => AgentOf(q) # AgentOf(p)
        BY <1>3, <4>2
      <4>4. pc[q] = "commit" /\ q \notin overlapped' => InFlight(AgentOf(q))' = InFlight(AgentOf(q))
        BY <1>0, <1>3, <2>1, <4>3 DEF InFlight, At, AgentOf, TypeOK
      <4> QED
        BY <1>0, <2>1, <2>2, <4>1, <4>4 DEF TxsOK
    <3> QED
      BY <3>1, <3>2
  <2> QED
    BY <2>3, <2>4 DEF TxsOK
<1>4. ASSUME NEW p \in Reqs, DeleteLabels(p) PROVE TxsOK' /\ LabelsOverwritten'
  <2>1. \/ /\ dead' = [dead EXCEPT ![p] = {x \in labels : x.agent = AgentOf(p)}]
           /\ overlapped' = IF InFlight(AgentOf(p)) = {} THEN overlapped
                            ELSE overlapped \cup InFlight(AgentOf(p)) \cup {p}
           /\ pc' = [pc EXCEPT ![p] = "commit"]
        \/ pc' = [pc EXCEPT ![p] = "done"] /\ UNCHANGED <<dead, blockers, overlapped>>
    BY <1>4, Zenon DEF DeleteLabels, Respond, Goto
  <2>2. pc' = [pc EXCEPT ![p] = "done"] => p \notin InFlight(AgentOf(p))'
    BY <1>0 DEF InFlight, At, TypeOK
  <2> QED
    BY <1>2, <1>3, <1>4, <2>1, <2>2
<1>5. ASSUME NEW p \in Reqs, CommitLabels(p), UNCHANGED <<labels, lastLabels>>
      PROVE  TxsOK' /\ LabelsOverwritten'
  <2>1. pc' = [pc EXCEPT ![p] = "done"] /\ pc[p] = "commit"
    BY <1>5, Zenon DEF CommitLabels, Respond, Goto
  <2>2. UNCHANGED <<call, labels, txVars>>
    BY <1>5 DEF CommitLabels
  <2> QED
    BY <1>0, <1>1, <2>1, <2>2 DEF TypeOK
<1>6. ASSUME NEW p \in Reqs, CommitLabels(p),
             labels' = Kept(p) \cup Inserted(p),
             lastLabels' = [lastLabels EXCEPT ![AgentOf(p)] = {p}]
      PROVE  TxsOK' /\ LabelsOverwritten'
  <2>1. pc' = [pc EXCEPT ![p] = "done"] /\ pc[p] = "commit"
    BY <1>6, Zenon DEF CommitLabels, Respond, Goto
  <2>2. UNCHANGED <<call, dead, overlapped>>
    BY <1>6 DEF CommitLabels
  <2>3. call[p].op = "label" /\ AgentOf(p) \in Agents /\ p \in InFlight(AgentOf(p))
    BY <1>0, <2>1, CallTypes DEF TxsOK, InFlight, At
  <2>4. ASSUME NEW a \in Agents, a # AgentOf(p)
        PROVE  {x \in labels' : x.agent = a} = {x \in labels : x.agent = a}
    BY <1>0, <1>6, <2>4 DEF Kept, Inserted, TxsOK
  <2>5. p \notin overlapped => {x \in labels' : x.agent = AgentOf(p)} = Inserted(p)
    <3>1. p \notin overlapped => \A x \in Kept(p) : x.agent # AgentOf(p)
      BY <1>0, <2>1 DEF TxsOK, Kept
    <3> QED
      BY <1>6, <3>1 DEF Inserted
  <2>6. ASSUME NEW q \in Reqs PROVE TxsOK!(q)'
    <3>1. CASE q = p
      <4>1. pc'[q] = "done" /\ AgentOf(q)' = AgentOf(p) /\ dead'[q] = dead[p]
        BY <1>0, <2>1, <2>2, <3>1 DEF TypeOK, AgentOf
      <4>2. \A a \in Agents : q \in lastLabels'[a] => a = AgentOf(p)
        BY <1>0, <1>6, <2>1, <3>1 DEF TxsOK, TypeOK
      <4> QED
        BY <1>0, <2>2, <2>3, <3>1, <4>1, <4>2 DEF TxsOK
    <3>2. CASE q # p
      <4>1. pc'[q] = pc[q] /\ dead'[q] = dead[q] /\ AgentOf(q)' = AgentOf(q)
        BY <1>0, <2>1, <2>2, <3>2 DEF TypeOK, AgentOf
      <4>2. ASSUME pc[q] = "commit", q \notin overlapped
            PROVE  /\ InFlight(AgentOf(q))' = {q}
                   /\ dead[q] = {x \in labels' : x.agent = AgentOf(q)}
        <5>1. InFlight(AgentOf(q)) = {q} /\ dead[q] = {x \in labels : x.agent = AgentOf(q)}
          BY <1>0, <4>2 DEF TxsOK
        <5>2. AgentOf(q) # AgentOf(p) /\ AgentOf(q) \in Agents
          BY <1>0, <2>3, <3>2, <4>2, <5>1, CallTypes DEF TxsOK
        <5>3. InFlight(AgentOf(q))' = InFlight(AgentOf(q))
          BY <1>0, <2>1, <2>2, <4>1, <5>2 DEF InFlight, At, AgentOf, TypeOK
        <5> QED
          BY <2>4, <5>1, <5>2, <5>3
      <4>3. \A a \in Agents : q \in lastLabels'[a] => q \in lastLabels[a]
        BY <1>0, <1>6, <3>2 DEF TypeOK
      <4> QED
        BY <1>0, <2>2, <4>1, <4>2, <4>3 DEF TxsOK
    <3> QED
      BY <3>1, <3>2
  <2>7. ASSUME NEW a \in Agents, NEW q \in lastLabels'[a] \ overlapped'
        PROVE  LabelsOf(a)' = call'[q].labels
    <3>1. CASE a = AgentOf(p)
      <4>1. q = p
        BY <1>0, <1>6, <2>3, <2>7, <3>1 DEF TypeOK
      <4>2. LabelsOf(a)' = {x.label : x \in Inserted(p)}
        BY <2>2, <2>5, <2>7, <3>1, <4>1 DEF LabelsOf
      <4>3. \A x \in Inserted(p) : x.label \in call[p].labels
        BY DEF Inserted
      <4>4. ASSUME NEW l \in call[p].labels PROVE \E x \in Inserted(p) : x.label = l
        <5>1. [agent |-> AgentOf(p), label |-> l, by |-> p] \in Inserted(p)
          BY DEF Inserted
        <5>2. [agent |-> AgentOf(p), label |-> l, by |-> p].label = l
          OBVIOUS
        <5> QED
          BY <5>1, <5>2
      <4>5. {x.label : x \in Inserted(p)} = call[p].labels
        BY <4>3, <4>4
      <4> QED
        BY <2>2, <4>1, <4>2, <4>5
    <3>2. CASE a # AgentOf(p)
      <4>1. q \in lastLabels[a] \ overlapped
        BY <1>0, <1>6, <2>2, <2>7, <3>2 DEF TypeOK
      <4>2. LabelsOf(a)' = LabelsOf(a)
        BY <2>4, <3>2 DEF LabelsOf
      <4> QED
        BY <1>0, <2>2, <4>1, <4>2 DEF LabelsOverwritten
    <3> QED
      BY <3>1, <3>2
  <2> QED
    BY <2>6, <2>7 DEF TxsOK, LabelsOverwritten
<1>7. ASSUME NEW p \in Reqs, CommitLabels(p) PROVE TxsOK' /\ LabelsOverwritten'
  <2>1. \/ labels' = Kept(p) \cup Inserted(p) /\ lastLabels' = [lastLabels EXCEPT ![AgentOf(p)] = {p}]
        \/ UNCHANGED <<labels, lastLabels>>
    BY <1>7, Zenon DEF CommitLabels
  <2> QED
    BY <1>5, <1>6, <1>7, <2>1
<1>8. ASSUME NEW p \in Reqs,
             \/ SaveRefused(p) \/ ResolveForSave(p) \/ UpsertPolicySet(p) \/ PublishNote(p)
             \/ FinishSave(p) \/ CrashHandler(p)
      PROVE  TxsOK' /\ LabelsOverwritten'
  <2>1. UNCHANGED <<call, labels, txVars>>
    BY <1>8 DEF SaveRefused, ResolveForSave, UpsertPolicySet, PublishNote, FinishSave, CrashHandler
  <2>2. /\ pc[p] # "done"
        /\ \/ pc' = pc
           \/ \E l \in {"write", "publish", "done"} : pc' = [pc EXCEPT ![p] = l]
    <3>1. SaveRefused(p) => pc[p] = "start" /\ pc' = [pc EXCEPT ![p] = "done"]
      BY DEF SaveRefused, At, Respond, Goto
    <3>2. ResolveForSave(p) => /\ pc[p] = "start"
                               /\ \/ pc' = [pc EXCEPT ![p] = "write"]
                                  \/ pc' = [pc EXCEPT ![p] = "done"]
      BY Zenon DEF ResolveForSave, At, Respond, Goto
    <3>3. UpsertPolicySet(p) => /\ pc[p] = "write"
                                /\ \/ pc' = [pc EXCEPT ![p] = "publish"]
                                   \/ pc' = [pc EXCEPT ![p] = "done"]
      BY Zenon DEF UpsertPolicySet, Respond, Goto
    <3>4. PublishNote(p) => pc[p] = "publish" /\ pc' = pc
      BY DEF PublishNote
    <3>5. FinishSave(p) => pc[p] = "publish" /\ pc' = [pc EXCEPT ![p] = "done"]
      BY DEF FinishSave, Respond, Goto
    <3>6. CrashHandler(p) => pc[p] # "done" /\ pc' = [pc EXCEPT ![p] = "done"]
      BY DEF CrashHandler, Goto
    <3> QED
      BY <1>8, <3>1, <3>2, <3>3, <3>4, <3>5, <3>6
  <2> QED
    BY <1>0, <1>1, <2>1, <2>2 DEF TypeOK
<1>9. ASSUME NEW a \in Agents,
             \/ RegisterAgent(a) \/ \E x \in Stored : UpdateAgentPolicy(a, x)
             \/ NoteLost(a) \/ ReceiveNote(a) \/ PullPolicy(a) \/ ReportApplied(a)
      PROVE  UNCHANGED <<call, pc, labels, txVars>>
  BY <1>9 DEF RegisterAgent, UpdateAgentPolicy, NoteLost, ReceiveNote, PullPolicy, ReportApplied
<1>10. CASE UNCHANGED vars
  BY <1>1, <1>10 DEF vars
<1> QED
  BY <1>1, <1>4, <1>7, <1>8, <1>9, <1>10 DEF Next

(* The invariant is inductive. *)
LEMMA Invariance == Spec => []IndInv
<1>1. IndInv /\ [Next]_vars => IndInv'
  BY TypeStep, SavesStep, SetsStep, ToldStep, PolicyStep, LabelsStep DEF IndInv
<1> QED
  BY <1>1, InitInv, PTL DEF Spec

(***************************************************************************)
(* The theorems.                                                           *)
(***************************************************************************)

(* Every variable keeps its type. *)
THEOREM TypeCorrect == Spec => []TypeOK
BY Invariance, PTL DEF IndInv

(* UpsertPolicySet: saves of one set are numbered 1, 2, ... without a gap  *)
(* or a repetition, and the row is that of the last one, whatever          *)
(* interleaves, fails or crashes.                                          *)
THEOREM SavesAreOrdered == Spec => []SetIsLastSave
BY Invariance, PTL DEF IndInv

(* handleUpsertPolicySet notifies an agent only of versions that its org   *)
(* has written and whose selector matched it.                              *)
THEOREM NotificationsAreTrue == Spec => []ToldOfOwnSave
BY Invariance, PTL DEF IndInv

(* No policy of another org, and no invalid one, is ever loaded or shown   *)
(* as applied: handleGetAgentPolicy and MarkPolicyApplied are org-scoped.  *)
THEOREM PolicyIsolation == Spec => []RunsOwnOrgPolicy
BY Invariance, PTL DEF IndInv

(* SetAgentLabels overwrites when it runs alone on its agent. *)
THEOREM LabelsAreOverwritten == Spec => []LabelsOverwritten
BY Invariance, PTL DEF IndInv

(* The query of ResolveSelector computes the conjunction it stands for: a  *)
(* selector's keys are distinct, so as many distinct keys as conditions    *)
(* means that every condition has a row.                                   *)
LEMMA CountIsConjunction ==
  ASSUME NEW M \in LabelMaps, NEW L \in SUBSET Labels
  PROVE  Cardinality({l[1] : l \in L \cap M}) = Cardinality(M) <=> M \subseteq L
<1>1. IsFiniteSet(M)
  BY PolicyDistributionAssumption, FS_Subset DEF LabelMaps
<1> DEFINE K == {l[1] : l \in M}
           H == {l[1] : l \in L \cap M}
           f == [l \in M |-> l[1]]
<1>2. f \in Bijection(M, K)
  <2>1. f \in [M -> K]
    OBVIOUS
  <2>2. \A x, y \in M : f[x] = f[y] => x = y
    BY DEF LabelMaps
  <2>3. \A k \in K : \E x \in M : f[x] = k
    OBVIOUS
  <2> QED
    BY <2>1, <2>2, <2>3, Fun_IsBij
<1>3. IsFiniteSet(K) /\ Cardinality(K) = Cardinality(M)
  BY <1>1, <1>2, FS_Bijection DEF ExistsBijection
<1>4. H \subseteq K
  OBVIOUS
<1>5. Cardinality(H) = Cardinality(K) <=> H = K
  BY <1>3, <1>4, FS_Subset
<1>6. H = K <=> M \subseteq L
  BY DEF LabelMaps
<1> QED
  BY <1>3, <1>5, <1>6

(* ResolveSelector returns exactly the agents of the org that have every   *)
(* label of a label-match selector.                                        *)
THEOREM SelectorsAreConjunctions == Spec => []SelectorIsConjunction
<1>1. TypeOK => SelectorIsConjunction
  <2> SUFFICES ASSUME TypeOK, NEW o \in Orgs, NEW sel \in Selectors, sel.agent = NoName
               PROVE  ResolveSelector(o, sel) = {a \in agents : a[1] = o /\ sel.match \subseteq LabelsOf(a)}
    BY DEF SelectorIsConjunction
  <2>1. sel.match \in LabelMaps
    BY DEF Selectors
  <2>2. ASSUME NEW a \in agents
        PROVE  Cardinality({x.label[1] : x \in Hits(a, sel)}) = Cardinality(sel.match)
                 <=> sel.match \subseteq LabelsOf(a)
    <3>1. LabelsOf(a) \in SUBSET Labels
      BY DEF TypeOK, LabelsOf, LabelRows
    <3>2. {x.label[1] : x \in Hits(a, sel)} = {l[1] : l \in LabelsOf(a) \cap sel.match}
      BY DEF Hits, LabelsOf
    <3> QED
      BY <2>1, <3>1, <3>2, CountIsConjunction
  <2> QED
    BY <2>2 DEF ResolveSelector
<1> QED
  BY <1>1, TypeCorrect, PTL
=============================================================================
