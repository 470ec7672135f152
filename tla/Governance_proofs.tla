-------------------------- MODULE Governance_proofs --------------------------
(***************************************************************************)
(* Proofs about Governance, for any orgs, runs, denials, limits, workers   *)
(* and decisions, and any number of faults.                                *)
(***************************************************************************)
EXTENDS Governance, FiniteSetTheorems, SequenceTheorems, TLAPS

USE DEF wvars

(* The inductive invariant holds when the worker is first started. *)
LEMMA InitInv == Init => IndInv
<1> SUFFICES ASSUME Init PROVE IndInv
  OBVIOUS
<1> USE GovernanceAssumption DEF Init
<1>1. TypeOK
  <2>1. NoCounts \in [Keys -> Nat] /\ NoRuns \in [Keys -> SUBSET Runs]
    BY DEF NoCounts, NoRuns
  <2>2. DOMAIN req = {}
    OBVIOUS
  <2> QED
    BY <2>1, <2>2 DEF TypeOK, Phases
<1>2. MapsOK
  BY DEF MapsOK, NoCounts, NoRuns
<1>3. DecisionsOK /\ EvidenceOwnRuns /\ DecisionAudited
  BY DEF DecisionsOK, EvidenceOwnRuns, DecisionAudited
<1> QED
  BY <1>1, <1>2, <1>3 DEF IndInv

(* A worker that is not idle is in one of the orgs. *)
LEMMA OrgType ==
  ASSUME TypeOK, NEW w \in Workers, pc[w] # "idle"
  PROVE  todo[w] # <<>> /\ Org(w) \in Orgs /\ Tail(todo[w]) \in Seq(Orgs)
BY DEF TypeOK, Org

(* On to the next org, or idle after the last one. *)
LEMMA LeaveType ==
  ASSUME TypeOK, NEW w \in Workers, pc[w] # "idle", Leave(w)
  PROVE  /\ todo' \in [Workers -> Seq(Orgs)]
         /\ pc' \in [Workers -> {"idle", "org", "scan", "classify", "insert"}]
         /\ \A v \in Workers : pc'[v] = "idle" <=> todo'[v] = <<>>
         /\ pc'[w] \in {"idle", "org"}
         /\ \A v \in Workers \ {w} : pc'[v] = pc[v] /\ todo'[v] = todo[v]
<1>1. todo[w] \in Seq(Orgs) /\ todo[w] # <<>> /\ Tail(todo[w]) \in Seq(Orgs)
  BY OrgType DEF TypeOK
<1>2. Len(Tail(todo[w])) = Len(todo[w]) - 1 /\ Len(todo[w]) \in Nat \ {0}
  BY <1>1
<1>3. Tail(todo[w]) = <<>> <=> Len(todo[w]) = 1
  <2> DEFINE t == Tail(todo[w])
  <2>1. t \in Seq(Orgs)
    BY <1>1
  <2> HIDE DEF t
  <2>2. t = <<>> => Len(t) = 0
    BY EmptySeq
  <2>3. t # <<>> => Len(t) \in Nat \ {0}
    BY <2>1, EmptySeq
  <2>4. Len(t) = Len(todo[w]) - 1
    BY <1>2 DEF t
  <2>5. t = <<>> <=> Len(todo[w]) = 1
    BY <1>2, <2>2, <2>3, <2>4
  <2> QED
    BY <2>5 DEF t
<1> QED
  BY <1>1, <1>3 DEF Leave, TypeOK

(* The counts and run ids stay maps over the keys. *)
LEMMA AddsType ==
  ASSUME TypeOK, NEW w \in Workers, NEW r \in Runs, NEW n \in [AllTools -> Nat],
         Adds(w, r, n)
  PROVE  /\ count' \in [Workers -> [Keys -> Nat]]
         /\ runIDs' \in [Workers -> [Keys -> SUBSET Runs]]
<1>1. \A k \in Keys : n[k[2]] \in Nat
  BY DEF Keys
<1>2. [k \in Keys |-> IF k[1] = AgentOf[r] THEN count[w][k] + n[k[2]]
                                           ELSE count[w][k]] \in [Keys -> Nat]
  BY <1>1 DEF TypeOK
<1>3. [k \in Keys |-> IF k[1] = AgentOf[r] /\ n[k[2]] > 0
                      THEN runIDs[w][k] \cup {r} ELSE runIDs[w][k]]
        \in [Keys -> SUBSET Runs]
  BY DEF TypeOK
<1> QED
  BY <1>2, <1>3 DEF Adds, TypeOK

(* What a run adds to the counts. *)
LEMMA ReadsAdds ==
  ASSUME NEW w \in Workers, NEW r \in Runs, Reads(w, r)
  PROVE  \E n \in [AllTools -> Nat] : Adds(w, r, n)
<1>1. Parsed(r) \in [AllTools -> Nat] /\ Unparsed(r) \in [AllTools -> Nat]
  BY GovernanceAssumption DEF Parsed, Unparsed
<1> QED
  BY <1>1 DEF Reads

(* A proposal the worker inserts is one. *)
LEMMA InsertType ==
  ASSUME TypeOK, NEW w \in Workers, pc[w] # "idle", NEW k \in Keys, Insert(w, k)
  PROVE  /\ proposals' \in Seq(Proposal)
         /\ \/ proposals' = proposals
            \/ proposals' = Append(proposals, NewProposal(w, k))
<1>1. NewProposal(w, k) \in Proposal
  <2>1. count[w][k] \in Nat /\ runIDs[w][k] \in SUBSET Runs /\ Org(w) \in Orgs
    BY OrgType DEF TypeOK
  <2>2. k[1] \in Agents /\ k[2] \in AllTools
    BY DEF Keys
  <2> QED
    BY <2>1, <2>2 DEF NewProposal, Proposal
<1> QED
  BY <1>1 DEF Insert, TypeOK

(* An update keeps the table, and touches a proposal of the caller's org. *)
LEMMA UpdateType ==
  ASSUME TypeOK, NEW q \in Reqs, NEW o \in Orgs, NEW i \in Ids,
         NEW verdict \in Verdicts, Update(q, o, i, verdict)
  PROVE  /\ proposals' \in Seq(Proposal) /\ DOMAIN proposals' = DOMAIN proposals
         /\ Len(proposals') = Len(proposals)
         /\ \A j \in DOMAIN proposals :
              IF j = i /\ Found(o, i)
              THEN proposals'[j] = [proposals[j] EXCEPT !.status = verdict, !.by = {q}]
              ELSE proposals'[j] = proposals[j]
<1>1. proposals \in Seq(Proposal)
  BY DEF TypeOK
<1>2. CASE ~Found(o, i)
  BY <1>1, <1>2 DEF Update
<1>3. CASE Found(o, i)
  <2>1. i \in DOMAIN proposals /\ proposals[i] \in Proposal
    BY <1>1, <1>3 DEF Found
  <2> DEFINE p == [proposals[i] EXCEPT !.status = verdict, !.by = {q}]
  <2>2. p \in Proposal
    BY <2>1 DEF Proposal
  <2>3. proposals' = [proposals EXCEPT ![i] = p]
    BY <1>3 DEF Update
  <2> HIDE DEF p
  <2>4. proposals' \in Seq(Proposal) /\ Len(proposals') = Len(proposals)
    BY <1>1, <2>1, <2>2, <2>3
  <2>5. DOMAIN proposals' = DOMAIN proposals
    BY <2>3
  <2>6. \A j \in DOMAIN proposals :
          proposals'[j] = IF j = i THEN p ELSE proposals[j]
    BY <2>1, <2>3
  <2> QED
    BY <1>3, <2>4, <2>5, <2>6 DEF p
<1> QED
  BY <1>2, <1>3

(* Type correctness of every step. *)
LEMMA TypeStep == IndInv /\ [Next]_vars => TypeOK'
<1> SUFFICES ASSUME IndInv, [Next]_vars PROVE TypeOK'
  OBVIOUS
<1> USE GovernanceAssumption
<1>0. TypeOK /\ MapsOK
  BY DEF IndInv
<1>00. ASSUME Fault \/ NoFault PROVE faults' \in 0..MaxFaults
  BY <1>0, <1>00 DEF TypeOK, Fault, NoFault
<1>1. ASSUME NEW r \in Runs, Upload(r) \/ Remove(r) PROVE TypeOK'
  BY <1>0, <1>1 DEF TypeOK, Upload, Remove, Store, Phases
<1>2. ASSUME NEW w \in Workers, Poll(w) PROVE TypeOK'
  <2>1. PICK n \in 1..Len(OrgOrder) :
          (Fault \/ NoFault) /\ todo' = [todo EXCEPT ![w] = SubSeq(OrgOrder, 1, n)]
    BY <1>2 DEF Poll
  <2>2. SubSeq(OrgOrder, 1, n) \in Seq(Orgs) /\ SubSeq(OrgOrder, 1, n) # <<>>
    <3>1. n \in Int /\ 1 <= n /\ \A i \in 1..n : OrgOrder[i] \in Orgs
      OBVIOUS
    <3>2. SubSeq(OrgOrder, 1, n) \in Seq(Orgs)
      BY <3>1, SubSeqProperties
    <3>3. Len(SubSeq(OrgOrder, 1, n)) = n
      BY <3>1
    <3>4. Len(<<>>) = 0
      OBVIOUS
    <3>5. ASSUME SubSeq(OrgOrder, 1, n) = <<>> PROVE FALSE
      <4>1. Len(SubSeq(OrgOrder, 1, n)) = Len(<<>>)
        BY <3>5, Zenon
      <4>2. n = 0
        BY <3>3, <3>4, <4>1, Zenon
      <4> QED
        BY <3>1, <4>2
    <3> QED
      BY <3>2, <3>5, Zenon
  <2> QED
    BY <1>0, <1>00, <1>2, <2>1, <2>2 DEF TypeOK, Poll
<1>3. ASSUME NEW w \in Workers, ListFails(w) PROVE TypeOK'
  <2>1. pc[w] # "idle" /\ Leave(w) /\ (Fault \/ NoFault)
    BY <1>3 DEF ListFails
  <2> QED
    BY <1>0, <1>00, <1>3, <2>1, LeaveType DEF TypeOK, ListFails
<1>4. ASSUME NEW w \in Workers, ListRuns(w) PROVE TypeOK'
  <2>0. PICK S \in Listings(Org(w)) : \E T \in CutShort(S) :
          (Fault \/ NoFault) /\ scan' = [scan EXCEPT ![w] = T]
    BY <1>4 DEF ListRuns
  <2>1. PICK T \in CutShort(S) : (Fault \/ NoFault) /\ scan' = [scan EXCEPT ![w] = T]
    BY <2>0
  <2>2. T \subseteq Runs
    BY DEF Listings, CutShort, RowsOf
  <2> QED
    BY <1>0, <1>00, <1>4, <2>1, <2>2 DEF TypeOK, ListRuns
<1>5. ASSUME NEW w \in Workers, ScanRun(w) PROVE TypeOK'
  <2>1. PICK r \in scan[w] :
          /\ scan' = [scan EXCEPT ![w] = @ \ {r}]
          /\ IF ActionsDenied[r] = 0 THEN NoFault /\ UNCHANGED <<count, runIDs>>
             ELSE Reads(w, r)
    BY <1>5 DEF ScanRun
  <2>2. r \in Runs
    BY <1>0, <2>1 DEF TypeOK
  <2>3. Fault \/ NoFault
    BY <2>1 DEF Reads
  <2>4. /\ count' \in [Workers -> [Keys -> Nat]]
        /\ runIDs' \in [Workers -> [Keys -> SUBSET Runs]]
    <3>1. CASE Reads(w, r)
      BY <1>0, <2>2, <3>1, ReadsAdds, AddsType
    <3> QED
      BY <1>0, <2>1, <3>1 DEF TypeOK
  <2> QED
    BY <1>0, <1>00, <1>5, <2>1, <2>3, <2>4 DEF TypeOK, ScanRun
<1>6. ASSUME NEW w \in Workers, DetectDenialPatterns(w) PROVE TypeOK'
  BY <1>0, <1>00, <1>6 DEF TypeOK, DetectDenialPatterns
<1>7. ASSUME NEW w \in Workers, ClassifyDenial(w) PROVE TypeOK'
  <2>1. PICK k \in patterns[w], isGap \in BOOLEAN :
          /\ patterns' = [patterns EXCEPT ![w] = @ \ {k}]
          /\ Fault \/ NoFault
          /\ gap' = [gap EXCEPT ![w] = IF isGap THEN {k} ELSE {}]
          /\ pc' = [pc EXCEPT ![w] = IF isGap THEN "insert" ELSE "classify"]
    BY <1>7 DEF ClassifyDenial
  <2>2. k \in Keys
    BY <1>0, <2>1 DEF TypeOK
  <2> QED
    BY <1>0, <1>00, <1>7, <2>1, <2>2 DEF TypeOK, ClassifyDenial
<1>8. ASSUME NEW w \in Workers, InsertProposal(w) PROVE TypeOK'
  <2>1. PICK k \in gap[w] : /\ Fault \/ NoFault
                            /\ Insert(w, k) \/ UNCHANGED proposals
    BY <1>8 DEF InsertProposal
  <2>2. k \in Keys /\ pc[w] # "idle"
    BY <1>0, <1>8, <2>1 DEF TypeOK, InsertProposal
  <2>3. proposals' \in Seq(Proposal)
    BY <1>0, <2>1, <2>2, InsertType DEF TypeOK
  <2> QED
    BY <1>0, <1>00, <1>8, <2>1, <2>3 DEF TypeOK, InsertProposal
<1>9. ASSUME NEW w \in Workers, ProcessedOrg(w) PROVE TypeOK'
  <2>1. pc[w] # "idle" /\ Leave(w) /\ NoFault
    BY <1>9 DEF ProcessedOrg
  <2>2. NoCounts \in [Keys -> Nat] /\ NoRuns \in [Keys -> SUBSET Runs]
    BY DEF NoCounts, NoRuns
  <2> QED
    BY <1>0, <1>00, <1>9, <2>1, <2>2, LeaveType DEF TypeOK, ProcessedOrg
<1>10. ASSUME NEW w \in Workers, Restart(w) PROVE TypeOK'
  <2>1. NoCounts \in [Keys -> Nat] /\ NoRuns \in [Keys -> SUBSET Runs]
    BY DEF NoCounts, NoRuns
  <2> QED
    BY <1>0, <1>00, <1>10, <2>1 DEF TypeOK, Restart
<1>11. ASSUME NEW q \in Reqs, NEW o \in Orgs, NEW i \in Ids, NEW verdict \in Sent,
              UpdateProposalStatus(q, o, i, verdict) PROVE TypeOK'
  <2>1. PICK label \in {"audit", "404", "500"} :
          /\ req' = [x \in DOMAIN req \cup {q} |-> IF x = q
                      THEN [at |-> label, org |-> o, id |-> i, status |-> verdict]
                      ELSE req[x]]
          /\ Fault \/ NoFault
          /\ Update(q, o, i, verdict) \/ UNCHANGED proposals
          /\ unaudited' \subseteq unaudited \cup {q}
    BY <1>11 DEF UpdateProposalStatus
  <2>2. proposals' \in Seq(Proposal)
    BY <1>0, <2>1, UpdateType DEF TypeOK
  <2>3. DOMAIN req' \subseteq Reqs /\ \A x \in DOMAIN req' : req'[x] \in Request
    BY <1>0, <2>1 DEF TypeOK, Request
  <2> QED
    BY <1>0, <1>00, <1>11, <2>1, <2>2, <2>3 DEF TypeOK, UpdateProposalStatus
<1>12. ASSUME NEW q \in Reqs, AuditDecision(q) PROVE TypeOK'
  <2>1. q \in DOMAIN req /\ req' = [req EXCEPT ![q].at = "200"]
    BY <1>12 DEF AuditDecision, Audits, Done
  <2>2. DOMAIN req' \subseteq Reqs /\ \A x \in DOMAIN req' : req'[x] \in Request
    BY <1>0, <2>1 DEF TypeOK, Request
  <2> QED
    BY <1>0, <1>00, <1>12, <2>2 DEF TypeOK, AuditDecision
<1>13. CASE UNCHANGED vars
  BY <1>0, <1>13 DEF TypeOK, vars
<1> QED
  BY <1>1, <1>2, <1>3, <1>4, <1>5, <1>6, <1>7, <1>8, <1>9, <1>10, <1>11,
     <1>12, <1>13 DEF Next, WorkerStep

(* MapsOK, one worker at a time. *)
WorkerMaps(w) ==
  /\ IF pc[w] \in {"idle", "org"}
     THEN count[w] = NoCounts /\ runIDs[w] = NoRuns
     ELSE \A k \in Keys : runIDs[w][k] \subseteq OwnRuns(Org(w), k[1])
  /\ pc[w] # "scan" => scan[w] = {}
  /\ pc[w] \notin {"classify", "insert"} => patterns[w] = {}
  /\ pc[w] # "insert" => gap[w] = {}
  /\ \A r \in scan[w] : OrgOf[r] = Org(w) /\ phase[r] # "new"
  /\ \A k \in Keys : count[w][k] > 0 => runIDs[w][k] # {}
  /\ \A k \in patterns[w] \cup gap[w] : count[w][k] >= Threshold

LEMMA MapsByWorker == MapsOK <=> \A w \in Workers : WorkerMaps(w)
BY DEF MapsOK, WorkerMaps

(* A worker whose own variables do not change keeps its maps in order: a   *)
(* run that was uploaded stays uploaded.                                   *)
LEMMA OthersKeepMaps ==
  ASSUME NEW v \in Workers, WorkerMaps(v),
         pc'[v] = pc[v], todo'[v] = todo[v], scan'[v] = scan[v],
         count'[v] = count[v], runIDs'[v] = runIDs[v],
         patterns'[v] = patterns[v], gap'[v] = gap[v],
         \A r \in Runs : phase[r] # "new" => phase'[r] # "new",
         scan[v] \subseteq Runs
  PROVE  WorkerMaps(v)'
<1>1. Org(v)' = Org(v)
  BY DEF Org
<1>2. \A o \in Orgs, a \in Agents : OwnRuns(o, a) \subseteq OwnRuns(o, a)'
  BY DEF OwnRuns
<1>3. \A k \in Keys : OwnRuns(Org(v), k[1]) \subseteq OwnRuns(Org(v), k[1])'
  BY <1>1 DEF OwnRuns
<1>4. IF pc'[v] \in {"idle", "org"}
      THEN count'[v] = NoCounts /\ runIDs'[v] = NoRuns
      ELSE \A k \in Keys : runIDs'[v][k] \subseteq OwnRuns(Org(v), k[1])'
  BY <1>3 DEF WorkerMaps
<1>5. \A r \in scan'[v] : OrgOf[r] = Org(v)' /\ phase'[r] # "new"
  BY <1>1 DEF WorkerMaps
<1> QED
  BY <1>1, <1>4, <1>5 DEF WorkerMaps

(* A worker has its own copy of everything the poll keeps. *)
LEMMA WorkersApart ==
  ASSUME TypeOK, NEW w \in Workers, NEW v \in Workers, w # v, WorkerStep(w) \/ Restart(w)
  PROVE  /\ pc'[v] = pc[v] /\ todo'[v] = todo[v] /\ scan'[v] = scan[v]
         /\ patterns'[v] = patterns[v] /\ gap'[v] = gap[v] /\ UNCHANGED phase
         /\ count'[v] = count[v] /\ runIDs'[v] = runIDs[v]
<1> DEFINE Kept ==
      /\ pc'[v] = pc[v] /\ todo'[v] = todo[v] /\ scan'[v] = scan[v]
      /\ patterns'[v] = patterns[v] /\ gap'[v] = gap[v] /\ UNCHANGED phase
      /\ count'[v] = count[v] /\ runIDs'[v] = runIDs[v]
<1>1. ASSUME Poll(w) \/ ListFails(w) \/ ListRuns(w) PROVE Kept
  BY <1>1 DEF TypeOK, Poll, ListFails, ListRuns, Leave
<1>2. ASSUME ScanRun(w) PROVE Kept
  <2>1. /\ scan'[v] = scan[v]
        /\ UNCHANGED <<phase, pc, todo, patterns, gap>>
    BY <1>2 DEF TypeOK, ScanRun
  <2>2. PICK r \in scan[w] : UNCHANGED <<count, runIDs>> \/ Reads(w, r)
    BY <1>2 DEF ScanRun
  <2>3. r \in Runs
    BY <2>2 DEF TypeOK
  <2>4. ASSUME Reads(w, r) PROVE count'[v] = count[v] /\ runIDs'[v] = runIDs[v]
    <3>1. PICK n \in [AllTools -> Nat] : Adds(w, r, n)
      BY <2>3, <2>4, ReadsAdds
    <3> QED
      BY <3>1 DEF Adds, TypeOK
  <2> QED
    BY <2>1, <2>2, <2>4
<1>3. ASSUME DetectDenialPatterns(w) \/ ClassifyDenial(w) \/ InsertProposal(w) PROVE Kept
  BY <1>3 DEF TypeOK, DetectDenialPatterns, ClassifyDenial, InsertProposal
<1>4. ASSUME ProcessedOrg(w) \/ Restart(w) PROVE Kept
  BY <1>4 DEF TypeOK, ProcessedOrg, Restart, Leave
<1> QED
  BY <1>1, <1>2, <1>3, <1>4 DEF WorkerStep

(* Every step keeps the maps of every worker in order. *)
LEMMA MapsStep == IndInv /\ [Next]_vars => MapsOK'
<1> SUFFICES ASSUME IndInv, [Next]_vars, NEW v \in Workers PROVE WorkerMaps(v)'
  BY MapsByWorker DEF MapsOK, WorkerMaps
<1> USE GovernanceAssumption
<1>0. TypeOK /\ WorkerMaps(v)
  BY MapsByWorker DEF IndInv
<1>01. scan[v] \subseteq Runs
  BY <1>0 DEF TypeOK
<1>02. NoCounts \in [Keys -> Nat] /\ (\A k \in Keys : NoCounts[k] = 0 /\ NoRuns[k] = {})
  BY DEF NoCounts, NoRuns
<1>1. ASSUME NEW r \in Runs, Upload(r) \/ Remove(r) PROVE WorkerMaps(v)'
  <2>1. \A s \in Runs : phase[s] # "new" => phase'[s] # "new"
    BY <1>0, <1>1 DEF TypeOK, Upload, Remove, Store
  <2> QED
    BY <1>0, <1>01, <1>1, <2>1, OthersKeepMaps DEF Upload, Remove, Store
<1>2. ASSUME NEW w \in Workers, w # v, WorkerStep(w) \/ Restart(w) PROVE WorkerMaps(v)'
  <2>1. /\ pc'[v] = pc[v] /\ todo'[v] = todo[v] /\ scan'[v] = scan[v]
        /\ patterns'[v] = patterns[v] /\ gap'[v] = gap[v] /\ UNCHANGED phase
        /\ count'[v] = count[v] /\ runIDs'[v] = runIDs[v]
    BY <1>0, <1>2, WorkersApart
  <2> QED
    BY <1>0, <1>01, <2>1, OthersKeepMaps
<1>3. ASSUME Poll(v) PROVE WorkerMaps(v)'
  BY <1>0, <1>02, <1>3 DEF TypeOK, Poll, WorkerMaps
<1>4. ASSUME ListFails(v) PROVE WorkerMaps(v)'
  <2>1. pc'[v] \in {"idle", "org"}
    BY <1>0, <1>4, LeaveType DEF ListFails
  <2> QED
    BY <1>0, <1>02, <1>4, <2>1 DEF TypeOK, ListFails, WorkerMaps
<1>5. ASSUME ListRuns(v) PROVE WorkerMaps(v)'
  <2>0. PICK S \in Listings(Org(v)) : \E T \in CutShort(S) :
          scan' = [scan EXCEPT ![v] = T]
    BY <1>5 DEF ListRuns
  <2>1. PICK T \in CutShort(S) : scan' = [scan EXCEPT ![v] = T]
    BY <2>0
  <2>2. \A r \in T : OrgOf[r] = Org(v) /\ phase[r] # "new"
    BY DEF Listings, CutShort, RowsOf, HasRow
  <2>3. Org(v)' = Org(v) /\ scan'[v] = T /\ pc'[v] = "scan" /\ pc[v] = "org"
    BY <1>0, <1>5, <2>1 DEF TypeOK, ListRuns, Org
  <2> QED
    BY <1>0, <1>02, <1>5, <2>2, <2>3 DEF ListRuns, WorkerMaps
<1>6. ASSUME ScanRun(v) PROVE WorkerMaps(v)'
  <2>1. PICK r \in scan[v] :
          /\ scan' = [scan EXCEPT ![v] = @ \ {r}]
          /\ IF ActionsDenied[r] = 0 THEN UNCHANGED <<count, runIDs>>
             ELSE Reads(v, r)
    BY <1>6 DEF ScanRun
  <2>2. /\ r \in Runs /\ OrgOf[r] = Org(v) /\ phase[r] # "new"
        /\ pc[v] = "scan" /\ pc'[v] = "scan" /\ Org(v)' = Org(v)
    BY <1>0, <1>01, <1>6, <2>1 DEF ScanRun, WorkerMaps, Org
  <2>3. \A k \in Keys : OwnRuns(Org(v), k[1])' = OwnRuns(Org(v), k[1])
    BY <1>6, <2>2 DEF ScanRun, OwnRuns
  <2>4. /\ \A k \in Keys : runIDs'[v][k] \subseteq OwnRuns(Org(v), k[1])
        /\ \A k \in Keys : count'[v][k] > 0 => runIDs'[v][k] # {}
    <3>1. CASE ActionsDenied[r] = 0
      BY <1>0, <2>1, <2>2, <3>1 DEF WorkerMaps
    <3>2. CASE ActionsDenied[r] # 0
      <4>1. PICK n \in [AllTools -> Nat] : Adds(v, r, n)
        BY <2>1, <2>2, <3>2, ReadsAdds
      <4>2. ActionsDenied[r] > 0 /\ r \in OwnRuns(Org(v), AgentOf[r])
        BY <2>2, <3>2 DEF OwnRuns
      <4> SUFFICES ASSUME NEW k \in Keys
                   PROVE  /\ runIDs'[v][k] \subseteq OwnRuns(Org(v), k[1])
                          /\ count'[v][k] > 0 => runIDs'[v][k] # {}
        OBVIOUS
      <4>3. /\ count'[v][k] = IF k[1] = AgentOf[r] THEN count[v][k] + n[k[2]]
                                                   ELSE count[v][k]
            /\ runIDs'[v][k] = IF k[1] = AgentOf[r] /\ n[k[2]] > 0
                               THEN runIDs[v][k] \cup {r} ELSE runIDs[v][k]
        <5>1. TypeOK /\ r \in Runs
          BY <1>0, <2>2
        <5> QED
          BY <4>1, <5>1 DEF Adds, TypeOK
      <4>4. /\ runIDs[v][k] \subseteq OwnRuns(Org(v), k[1])
            /\ count[v][k] > 0 => runIDs[v][k] # {}
            /\ count[v][k] \in Nat /\ n[k[2]] \in Nat
        BY <1>0, <2>2, <4>1 DEF WorkerMaps, TypeOK, Keys
      <4>5. CASE k[1] = AgentOf[r] /\ n[k[2]] > 0
        <5>1. runIDs'[v][k] = runIDs[v][k] \cup {r}
          BY <4>3, <4>5
        <5> QED
          BY <4>2, <4>4, <4>5, <5>1
      <4>6. CASE ~(k[1] = AgentOf[r] /\ n[k[2]] > 0)
        <5>1. runIDs'[v][k] = runIDs[v][k] /\ count'[v][k] = count[v][k]
          BY <4>3, <4>4, <4>6
        <5> QED
          BY <4>4, <5>1
      <4> QED
        BY <4>5, <4>6
    <3> QED
      BY <3>1, <3>2
  <2>5. scan'[v] \subseteq scan[v]
    BY <1>0, <2>1 DEF TypeOK
  <2>6. patterns'[v] = {} /\ gap'[v] = {}
    BY <1>0, <1>6, <2>2 DEF ScanRun, WorkerMaps
  <2>7. \A k \in Keys : runIDs'[v][k] \subseteq OwnRuns(Org(v), k[1])
    BY <2>4
  <2>8. \A k \in Keys : runIDs'[v][k] \subseteq OwnRuns(Org(v), k[1])'
    BY <2>7, <2>3
  <2> QED
    BY <1>0, <1>6, <2>2, <2>3, <2>4, <2>5, <2>6, <2>8 DEF WorkerMaps, ScanRun
<1>7. ASSUME DetectDenialPatterns(v) PROVE WorkerMaps(v)'
  <2>1. /\ Org(v)' = Org(v) /\ pc[v] = "scan" /\ pc'[v] = "classify"
        /\ patterns'[v] = {k \in Keys : count[v][k] >= Threshold}
        /\ scan'[v] = {} /\ gap'[v] = {}
    BY <1>0, <1>7 DEF TypeOK, DetectDenialPatterns, Org, WorkerMaps
  <2>2. \A k \in Keys : OwnRuns(Org(v), k[1])' = OwnRuns(Org(v), k[1])
    BY <1>7, <2>1 DEF DetectDenialPatterns, OwnRuns
  <2>7. \A k \in Keys : runIDs'[v][k] \subseteq OwnRuns(Org(v), k[1])
    BY <1>0, <1>7, <2>1 DEF WorkerMaps, DetectDenialPatterns
  <2>8. \A k \in Keys : runIDs'[v][k] \subseteq OwnRuns(Org(v), k[1])'
    BY <2>7, <2>2
  <2> QED
    BY <1>0, <1>7, <2>1, <2>2, <2>8 DEF WorkerMaps, DetectDenialPatterns
<1>8. ASSUME ClassifyDenial(v) PROVE WorkerMaps(v)'
  <2>1. PICK j \in patterns[v], isGap \in BOOLEAN :
          /\ patterns' = [patterns EXCEPT ![v] = @ \ {j}]
          /\ gap' = [gap EXCEPT ![v] = IF isGap THEN {j} ELSE {}]
          /\ pc' = [pc EXCEPT ![v] = IF isGap THEN "insert" ELSE "classify"]
    BY <1>8 DEF ClassifyDenial
  <2>2. /\ Org(v)' = Org(v) /\ pc[v] = "classify" /\ pc'[v] \in {"classify", "insert"}
        /\ patterns'[v] \cup gap'[v] \subseteq patterns[v] /\ scan'[v] = {}
        /\ pc'[v] # "insert" => gap'[v] = {}
    BY <1>0, <1>8, <2>1 DEF TypeOK, ClassifyDenial, Org, WorkerMaps
  <2>3. \A k \in Keys : OwnRuns(Org(v), k[1])' = OwnRuns(Org(v), k[1])
    BY <1>8, <2>2 DEF ClassifyDenial, OwnRuns
  <2> QED
    BY <1>0, <1>8, <2>2, <2>3 DEF WorkerMaps, ClassifyDenial
<1>9. ASSUME InsertProposal(v) PROVE WorkerMaps(v)'
  <2>1. /\ Org(v)' = Org(v) /\ pc[v] = "insert" /\ pc'[v] = "classify"
        /\ gap'[v] = {} /\ scan'[v] = {}
    BY <1>0, <1>9 DEF TypeOK, InsertProposal, Org, WorkerMaps
  <2>2. \A k \in Keys : OwnRuns(Org(v), k[1])' = OwnRuns(Org(v), k[1])
    BY <1>9, <2>1 DEF InsertProposal, OwnRuns
  <2>7. \A k \in Keys : runIDs'[v][k] \subseteq OwnRuns(Org(v), k[1])
    BY <1>0, <1>9, <2>1 DEF WorkerMaps, InsertProposal
  <2>8. \A k \in Keys : runIDs'[v][k] \subseteq OwnRuns(Org(v), k[1])'
    BY <2>7, <2>2
  <2> QED
    BY <1>0, <1>9, <2>1, <2>2, <2>8 DEF WorkerMaps, InsertProposal
<1>10. ASSUME ProcessedOrg(v) PROVE WorkerMaps(v)'
  <2>1. pc'[v] \in {"idle", "org"}
    BY <1>0, <1>10, LeaveType DEF ProcessedOrg
  <2> QED
    BY <1>0, <1>02, <1>10, <2>1 DEF TypeOK, ProcessedOrg, WorkerMaps
<1>11. ASSUME Restart(v) PROVE WorkerMaps(v)'
  BY <1>0, <1>02, <1>11 DEF TypeOK, Restart, WorkerMaps
<1>12. ASSUME UNCHANGED <<phase, wvars>> PROVE WorkerMaps(v)'
  BY <1>0, <1>01, <1>12, OthersKeepMaps
<1> QED
  BY <1>1, <1>2, <1>3, <1>4, <1>5, <1>6, <1>7, <1>8, <1>9, <1>10, <1>11, <1>12
     DEF Next, WorkerStep, vars, UpdateProposalStatus, AuditDecision

(* How a step changes the table: not at all, by one new proposal of a      *)
(* worker, or by the decision of a request that arrives.                   *)
LEMMA TableStep ==
  ASSUME TypeOK, [Next]_vars
  PROVE  \/ proposals' = proposals
         \/ \E w \in Workers : \E k \in gap[w] :
              /\ pc[w] = "insert" /\ k \in Keys
              /\ proposals' = Append(proposals, NewProposal(w, k))
              /\ UNCHANGED <<phase, req, audit, unaudited>>
         \/ \E q \in Reqs, o \in Orgs, i \in Ids, verdict \in Sent :
              /\ UpdateProposalStatus(q, o, i, verdict)
              /\ Update(q, o, i, verdict)
<1>1. ASSUME NEW w \in Workers, InsertProposal(w)
      PROVE  \/ proposals' = proposals
             \/ \E k \in gap[w] :
                  /\ pc[w] = "insert" /\ k \in Keys
                  /\ proposals' = Append(proposals, NewProposal(w, k))
                  /\ UNCHANGED <<phase, req, audit, unaudited>>
  <2>1. PICK k \in gap[w] : Insert(w, k) \/ proposals' = proposals
    BY <1>1 DEF InsertProposal
  <2>2. k \in Keys /\ pc[w] = "insert"
    BY <1>1, <2>1 DEF TypeOK, InsertProposal
  <2> QED
    BY <1>1, <2>1, <2>2 DEF Insert, InsertProposal
<1>2. ASSUME NEW q \in Reqs, NEW o \in Orgs, NEW i \in Ids, NEW verdict \in Sent,
             UpdateProposalStatus(q, o, i, verdict)
      PROVE  proposals' = proposals \/ Update(q, o, i, verdict)
  BY <1>2 DEF UpdateProposalStatus
<1>3. ASSUME NEW w \in Workers, WorkerStep(w) \/ Restart(w), ~InsertProposal(w)
      PROVE  proposals' = proposals
  BY <1>3 DEF WorkerStep, Restart, Poll, ListFails, ListRuns, ScanRun,
              DetectDenialPatterns, ClassifyDenial, ProcessedOrg
<1>4. ASSUME NEW r \in Runs, Upload(r) \/ Remove(r) PROVE proposals' = proposals
  BY <1>4 DEF Upload, Remove, Store
<1>5. ASSUME NEW q \in Reqs, AuditDecision(q) PROVE proposals' = proposals
  BY <1>5 DEF AuditDecision
<1>6. CASE UNCHANGED vars
  BY <1>6 DEF vars
<1> QED
  BY <1>1, <1>2, <1>3, <1>4, <1>5, <1>6 DEF Next

(* A run that was uploaded never becomes new again. *)
LEMMA PhaseStep ==
  ASSUME TypeOK, [Next]_vars
  PROVE  \A r \in Runs : phase[r] # "new" => phase'[r] # "new"
<1>1. ASSUME NEW r \in Runs, Upload(r) \/ Remove(r)
      PROVE  \A s \in Runs : phase[s] # "new" => phase'[s] # "new"
  BY <1>1 DEF TypeOK, Upload, Remove, Store
<1>2. ASSUME NEW w \in Workers, WorkerStep(w) \/ Restart(w) PROVE phase' = phase
  BY <1>2 DEF WorkerStep, Restart, Poll, ListFails, ListRuns, ScanRun,
              DetectDenialPatterns, ClassifyDenial, InsertProposal, ProcessedOrg
<1>3. ASSUME NEW q \in Reqs, AuditDecision(q) PROVE phase' = phase
  BY <1>3 DEF AuditDecision
<1>4. ASSUME NEW q \in Reqs, NEW o \in Orgs, NEW i \in Ids, NEW verdict \in Sent,
             UpdateProposalStatus(q, o, i, verdict)
      PROVE  phase' = phase
  BY <1>4 DEF UpdateProposalStatus
<1>5. CASE UNCHANGED vars
  BY <1>5 DEF vars
<1> QED
  BY <1>1, <1>2, <1>3, <1>4, <1>5 DEF Next

(* The evidence of one proposal is the worker's own map at the insert. *)
OwnEvidence(p) ==
  /\ p.runs # {}
  /\ \A r \in p.runs : /\ OrgOf[r] = p.org /\ AgentOf[r] = p.agent
                       /\ ActionsDenied[r] > 0 /\ phase[r] # "new"

LEMMA EvidenceStep == IndInv /\ [Next]_vars => EvidenceOwnRuns'
<1> SUFFICES ASSUME IndInv, [Next]_vars PROVE EvidenceOwnRuns'
  OBVIOUS
<1>0. /\ TypeOK /\ MapsOK /\ proposals \in Seq(Proposal)
      /\ \A i \in DOMAIN proposals : OwnEvidence(proposals[i])
  BY DEF IndInv, EvidenceOwnRuns, OwnEvidence, TypeOK
<1> SUFFICES \A i \in DOMAIN proposals' : OwnEvidence(proposals[i])'
  BY DEF EvidenceOwnRuns, OwnEvidence
<1>1. ASSUME NEW p \in Proposal, OwnEvidence(p),
             NEW n, n.runs = p.runs, n.org = p.org, n.agent = p.agent
      PROVE  /\ n.runs # {}
             /\ \A r \in n.runs : /\ OrgOf[r] = n.org /\ AgentOf[r] = n.agent
                                  /\ ActionsDenied[r] > 0 /\ phase'[r] # "new"
  <2>1. p.runs \subseteq Runs
    BY DEF Proposal
  <2> QED
    BY <1>0, <1>1, <2>1, PhaseStep DEF OwnEvidence
<1>2. CASE proposals' = proposals
  BY <1>0, <1>1, <1>2 DEF OwnEvidence
<1>3. ASSUME NEW w \in Workers, NEW k \in gap[w], pc[w] = "insert", k \in Keys,
             proposals' = Append(proposals, NewProposal(w, k))
      PROVE  \A i \in DOMAIN proposals' : OwnEvidence(proposals[i])'
  <2>1. /\ runIDs[w][k] \subseteq OwnRuns(Org(w), k[1])
        /\ runIDs[w][k] # {}
    <3>1. count[w][k] \in Nat /\ count[w][k] >= Threshold
      BY <1>0, <1>3 DEF MapsOK, TypeOK
    <3>2. count[w][k] > 0
      BY <3>1, GovernanceAssumption
    <3> QED
      BY <1>0, <1>3, <3>2 DEF MapsOK
  <2>2. OwnEvidence(NewProposal(w, k))
    BY <2>1 DEF OwnEvidence, NewProposal, OwnRuns
  <2>3. NewProposal(w, k) \in Proposal
    <3>1. count[w][k] \in Nat /\ runIDs[w][k] \in SUBSET Runs /\ Org(w) \in Orgs
      BY <1>0, <1>3, OrgType DEF TypeOK
    <3>2. k[1] \in Agents /\ k[2] \in AllTools
      BY <1>3 DEF Keys
    <3> QED
      BY <3>1, <3>2 DEF NewProposal, Proposal
  <2> SUFFICES ASSUME NEW i \in DOMAIN proposals'
               PROVE  OwnEvidence(proposals[i])'
    OBVIOUS
  <2> DEFINE new == NewProposal(w, k)
  <2> HIDE DEF new
  <2>4. /\ i \in 1..(Len(proposals) + 1)
        /\ proposals'[i] = IF i = Len(proposals) + 1 THEN new ELSE proposals[i]
    BY <1>0, <1>3 DEF new
  <2>5. CASE i = Len(proposals) + 1
    <3>1. proposals'[i] = new
      BY <2>4, <2>5
    <3> QED
      BY <1>1, <2>2, <2>3, <3>1 DEF OwnEvidence, new
  <2>6. CASE i # Len(proposals) + 1
    <3>1. i \in DOMAIN proposals /\ proposals'[i] = proposals[i]
      BY <1>0, <2>4, <2>6
    <3>2. proposals[i] \in Proposal /\ OwnEvidence(proposals[i])
      BY <1>0, <3>1
    <3> QED
      BY <1>1, <3>1, <3>2 DEF OwnEvidence
  <2> QED
    BY <2>5, <2>6
<1>4. ASSUME NEW q \in Reqs, NEW o \in Orgs, NEW i \in Ids, NEW verdict \in Sent,
             Update(q, o, i, verdict)
      PROVE  \A j \in DOMAIN proposals' : OwnEvidence(proposals[j])'
  <2>1. verdict \in Verdicts
    BY GovernanceAssumption
  <2> SUFFICES ASSUME NEW j \in DOMAIN proposals' PROVE OwnEvidence(proposals[j])'
    OBVIOUS
  <2>2. /\ j \in DOMAIN proposals
        /\ \/ proposals'[j] = proposals[j]
           \/ proposals'[j] = [proposals[j] EXCEPT !.status = verdict, !.by = {q}]
    <3>1. CASE Found(o, i)
      <4>1. /\ proposals' = [proposals EXCEPT ![i].status = verdict, ![i].by = {q}]
            /\ i \in DOMAIN proposals
        BY <1>4, <3>1 DEF Update, Found
      <4> QED
        BY <1>0, <4>1
    <3>2. CASE ~Found(o, i)
      BY <1>4, <3>2 DEF Update
    <3> QED
      BY <3>1, <3>2
  <2>3. proposals[j] \in Proposal /\ OwnEvidence(proposals[j])
    BY <1>0, <2>2
  <2>4. /\ proposals'[j].runs = proposals[j].runs
        /\ proposals'[j].org = proposals[j].org
        /\ proposals'[j].agent = proposals[j].agent
    BY <2>2, <2>3 DEF Proposal
  <2> QED
    BY <1>1, <2>3, <2>4 DEF OwnEvidence
<1> QED
  BY <1>0, <1>2, <1>3, <1>4, TableStep

(* A decision changes at most one row, the one it names, to its verdict. *)
LEMMA UpdateRows ==
  ASSUME TypeOK, NEW q \in Reqs, NEW o \in Orgs, NEW i \in Ids,
         NEW verdict \in Sent, Update(q, o, i, verdict)
  PROVE  /\ DOMAIN proposals' = DOMAIN proposals
         /\ \A j \in DOMAIN proposals :
              \/ proposals'[j] = proposals[j]
              \/ /\ j = i /\ Found(o, i)
                 /\ proposals'[j].org = proposals[j].org
                 /\ proposals'[j].status = verdict /\ proposals'[j].by = {q}
         /\ Found(o, i) => proposals'[i].status = verdict
<1>1. proposals \in Seq(Proposal)
  BY DEF TypeOK
<1>2. CASE Found(o, i)
  <2>1. /\ proposals' = [proposals EXCEPT ![i].status = verdict, ![i].by = {q}]
        /\ i \in DOMAIN proposals
    BY <1>2 DEF Update, Found
  <2>2. proposals[i] \in Proposal
    BY <1>1, <2>1
  <2>3. /\ proposals'[i] = [proposals[i] EXCEPT !.status = verdict, !.by = {q}]
        /\ \A j \in DOMAIN proposals : j # i => proposals'[j] = proposals[j]
        /\ DOMAIN proposals' = DOMAIN proposals
    BY <1>1, <2>1
  <2>4. /\ proposals'[i].org = proposals[i].org
        /\ proposals'[i].status = verdict /\ proposals'[i].by = {q}
    BY <2>2, <2>3 DEF Proposal
  <2> QED
    BY <1>2, <2>3, <2>4
<1>3. CASE ~Found(o, i)
  BY <1>3 DEF Update
<1> QED
  BY <1>2, <1>3

(* A row is decided by request q: its audit row is written, will be, or    *)
(* was lost to a database error.                                           *)
DecidedBy(i, q) ==
  /\ q \in DOMAIN req
  /\ req[q].id = i /\ req[q].org = proposals[i].org
  /\ req[q].status = proposals[i].status
  /\ q \in audit \cup unaudited \/ req[q].at = "audit"

(* auditLog: a request about to be audited is audited, or its audit row is *)
(* lost to a database error; no other request moves.                       *)
LEMMA AuditStep ==
  ASSUME IndInv, NEW q \in Reqs, AuditDecision(q)
  PROVE  DecisionsOK' /\ DecisionAudited'
<1>0. /\ TypeOK /\ DecisionsOK /\ DecisionAudited
      /\ q \in DOMAIN req /\ req[q].at = "audit" /\ req[q] \in Request
  BY DEF IndInv, AuditDecision, Audits, TypeOK
<1>1. /\ DOMAIN req' = DOMAIN req /\ proposals' = proposals
      /\ \A x \in DOMAIN req : /\ req'[x].id = req[x].id
                               /\ req'[x].org = req[x].org
                               /\ req'[x].status = req[x].status
                               /\ x # q => req'[x].at = req[x].at
      /\ req'[q].at = "200"
  <2>1. req' = [req EXCEPT ![q].at = "200"] /\ proposals' = proposals
    BY DEF AuditDecision, Done
  <2>2. \A x \in DOMAIN req : req[x] \in Request
    BY <1>0 DEF TypeOK
  <2> QED
    BY <1>0, <2>1, <2>2 DEF Request
<1>2. /\ audit \subseteq audit' /\ audit' \subseteq audit \cup {q}
      /\ unaudited \subseteq unaudited' /\ q \in audit' \cup unaudited'
  BY DEF AuditDecision
<1>3. Found(req[q].org, req[q].id) /\ proposals[req[q].id].status # "pending"
  BY <1>0 DEF DecisionsOK
<1>4. DecisionsOK'
  BY <1>0, <1>1, <1>2 DEF DecisionsOK, Found
<1>5. \A i \in DOMAIN proposals : \A x \in proposals[i].by :
        DecidedBy(i, x) => DecidedBy(i, x)'
  BY <1>1, <1>2 DEF DecidedBy
<1>6. \A i \in DOMAIN proposals : proposals[i].status # "pending" =>
        \E x \in proposals[i].by : DecidedBy(i, x)
  BY <1>0 DEF DecisionAudited, DecidedBy
<1>7. \A i \in DOMAIN proposals' : proposals'[i].status # "pending" =>
        \E x \in proposals'[i].by : DecidedBy(i, x)'
  BY <1>1, <1>5, <1>6
<1>8. \A x \in audit' : /\ Found(req[x].org, req[x].id)'
                        /\ proposals'[req'[x].id].status # "pending"
  BY <1>0, <1>1, <1>2, <1>3 DEF DecisionAudited, DecisionsOK, Found
<1> QED
  BY <1>4, <1>7, <1>8 DEF DecisionAudited, DecidedBy

(* The arrival of a decision: the row it changes is its own trail, and the *)
(* rows other requests decided keep a verdict.                             *)
LEMMA DecideStep ==
  ASSUME IndInv, NEW q \in Reqs, NEW o \in Orgs, NEW i \in Ids, NEW verdict \in Sent,
         UpdateProposalStatus(q, o, i, verdict)
  PROVE  DecisionsOK' /\ DecisionAudited'
<1>0. /\ TypeOK /\ DecisionsOK /\ DecisionAudited /\ q \notin DOMAIN req
      /\ audit' = audit
  BY DEF IndInv, UpdateProposalStatus
<1>00. verdict # "pending"
  BY GovernanceAssumption DEF Verdicts
<1>1. PICK label \in {"audit", "404", "500"} :
        /\ req' = [x \in DOMAIN req \cup {q} |-> IF x = q
                    THEN [at |-> label, org |-> o, id |-> i, status |-> verdict]
                    ELSE req[x]]
        /\ \/ /\ label = (IF Found(o, i) THEN "audit" ELSE "404")
              /\ Update(q, o, i, verdict) /\ UNCHANGED unaudited
           \/ /\ label = "500" /\ unaudited' = unaudited \cup {q}
              /\ Update(q, o, i, verdict) \/ UNCHANGED proposals
  BY DEF UpdateProposalStatus
<1>2. /\ DOMAIN req' = DOMAIN req \cup {q}
      /\ \A x \in DOMAIN req : req'[x] = req[x]
      /\ req'[q].at = label /\ req'[q].org = o /\ req'[q].id = i
      /\ req'[q].status = verdict
  BY <1>0, <1>1
<1>3. unaudited \subseteq unaudited'
  BY <1>1
<1>4. /\ DOMAIN proposals' = DOMAIN proposals
      /\ \A j \in DOMAIN proposals :
           \/ proposals'[j] = proposals[j]
           \/ /\ j = i /\ Found(o, i)
              /\ proposals'[j].org = proposals[j].org
              /\ proposals'[j].status = verdict /\ proposals'[j].by = {q}
  <2>1. CASE UNCHANGED proposals
    BY <2>1
  <2>2. CASE Update(q, o, i, verdict)
    BY <1>0, <2>2, UpdateRows
  <2> QED
    BY <1>1, <2>1, <2>2
<1>5. \A j \in DOMAIN proposals :
        /\ proposals'[j].org = proposals[j].org
        /\ proposals[j].status # "pending" => proposals'[j].status # "pending"
  BY <1>00, <1>4
<1>6. /\ Found(o, i) => \/ label = "audit" /\ proposals'[i].status = verdict
                        \/ label = "500" /\ q \in unaudited'
      /\ label = "audit" => Found(o, i) /\ proposals'[i].status = verdict
  <2>1. CASE label = "500" /\ unaudited' = unaudited \cup {q}
    BY <2>1
  <2>2. CASE label = (IF Found(o, i) THEN "audit" ELSE "404") /\ Update(q, o, i, verdict)
    <3>1. Found(o, i) => proposals'[i].status = verdict
      BY <1>0, <2>2, UpdateRows
    <3> QED
      BY <2>2, <3>1
  <2> QED
    BY <1>1, <2>1, <2>2
<1>6b. \A p, n : /\ Found(p, n) => Found(p, n)'
                 /\ Found(p, n) /\ proposals[n].status # "pending"
                      => proposals'[n].status # "pending"
  BY <1>4, <1>5 DEF Found
<1>7. DecisionsOK'
  <2>1. audit' \subseteq DOMAIN req'
    BY <1>0, <1>2 DEF DecisionsOK
  <2> SUFFICES ASSUME NEW x \in DOMAIN req', req'[x].at = "audit"
               PROVE  /\ Found(req[x].org, req[x].id)'
                      /\ proposals'[req'[x].id].status # "pending"
    BY <2>1 DEF DecisionsOK
  <2>2. CASE x = q
    BY <1>00, <1>2, <1>4, <1>5, <1>6, <2>2 DEF Found
  <2>3. CASE x # q
    <3>1. /\ x \in DOMAIN req /\ req'[x] = req[x]
          /\ Found(req[x].org, req[x].id)
          /\ proposals[req[x].id].status # "pending"
      BY <1>0, <1>2, <2>3 DEF DecisionsOK
    <3> QED
      BY <1>6b, <3>1 DEF Found
  <2> QED
    BY <2>2, <2>3
<1>8. ASSUME NEW j \in DOMAIN proposals', proposals'[j].status # "pending"
      PROVE  \E x \in proposals'[j].by : DecidedBy(j, x)'
  <2>1. CASE proposals'[j] = proposals[j]
    <3>1. PICK x \in proposals[j].by : DecidedBy(j, x)
      BY <1>0, <1>4, <1>8, <2>1 DEF DecisionAudited, DecidedBy
    <3>2. DecidedBy(j, x)'
      BY <1>0, <1>2, <1>3, <2>1, <3>1 DEF DecidedBy
    <3> QED
      BY <2>1, <3>1, <3>2
  <2>2. CASE proposals'[j] # proposals[j]
    <3>1. /\ j = i /\ proposals[j].org = o /\ label \in {"audit", "500"}
          /\ label = "500" => q \in unaudited'
          /\ proposals'[j].status = verdict /\ proposals'[j].by = {q}
          /\ proposals'[j].org = proposals[j].org
      BY <1>4, <1>6, <1>8, <2>2 DEF Found
    <3>2. DecidedBy(j, q)'
      BY <1>2, <3>1 DEF DecidedBy
    <3> QED
      BY <3>1, <3>2
  <2> QED
    BY <2>1, <2>2
<1>9. \A x \in audit' : /\ Found(req[x].org, req[x].id)'
                        /\ proposals'[req'[x].id].status # "pending"
  <2> SUFFICES ASSUME NEW x \in audit'
               PROVE  /\ Found(req[x].org, req[x].id)'
                      /\ proposals'[req'[x].id].status # "pending"
    OBVIOUS
  <2>1. /\ x \in DOMAIN req /\ req'[x] = req[x]
        /\ Found(req[x].org, req[x].id)
        /\ proposals[req[x].id].status # "pending"
    BY <1>0, <1>2 DEF DecisionAudited, DecisionsOK
  <2> QED
    BY <1>6b, <2>1 DEF Found
<1> QED
  BY <1>7, <1>8, <1>9 DEF DecisionAudited, DecidedBy

(* Every step keeps the audit trail of the decisions: a worker only adds   *)
(* pending rows at the end of the table.                                   *)
LEMMA DecisionStep == IndInv /\ [Next]_vars => DecisionsOK' /\ DecisionAudited'
<1> SUFFICES ASSUME IndInv, [Next]_vars PROVE DecisionsOK' /\ DecisionAudited'
  OBVIOUS
<1>0. TypeOK /\ DecisionsOK /\ DecisionAudited /\ proposals \in Seq(Proposal)
  BY DEF IndInv, TypeOK
<1>1. ASSUME NEW q \in Reqs, NEW o \in Orgs, NEW i \in Ids, NEW verdict \in Sent,
             UpdateProposalStatus(q, o, i, verdict)
      PROVE  DecisionsOK' /\ DecisionAudited'
  BY <1>1, DecideStep
<1>2. ASSUME NEW q \in Reqs, AuditDecision(q) PROVE DecisionsOK' /\ DecisionAudited'
  BY <1>2, AuditStep
<1>3. ASSUME UNCHANGED <<proposals, req, audit, unaudited>>
      PROVE  DecisionsOK' /\ DecisionAudited'
  BY <1>0, <1>3 DEF DecisionsOK, DecisionAudited, Found
<1>4. ASSUME NEW w \in Workers, NEW k \in gap[w],
             proposals' = Append(proposals, NewProposal(w, k)),
             UNCHANGED <<req, audit, unaudited>>
      PROVE  DecisionsOK' /\ DecisionAudited'
  <2> DEFINE new == NewProposal(w, k)
  <2>1. new.status = "pending"
    BY DEF NewProposal
  <2> HIDE DEF new
  <2>2. /\ DOMAIN proposals = 1..Len(proposals) /\ Len(proposals) \in Nat
        /\ DOMAIN proposals' = 1..(Len(proposals) + 1)
        /\ proposals'[Len(proposals) + 1] = new
        /\ \A i \in DOMAIN proposals : proposals'[i] = proposals[i]
    BY <1>0, <1>4 DEF new
  <2>3. \A p, n : Found(p, n) => Found(p, n)' /\ proposals'[n] = proposals[n]
    BY <2>2 DEF Found
  <2>4. DecisionsOK'
    <3> SUFFICES ASSUME NEW x \in DOMAIN req', req'[x].at = "audit"
                 PROVE  /\ Found(req[x].org, req[x].id)'
                        /\ proposals'[req'[x].id].status # "pending"
      BY <1>0, <1>4 DEF DecisionsOK
    <3>1. /\ Found(req[x].org, req[x].id)
          /\ proposals[req[x].id].status # "pending"
      BY <1>0, <1>4 DEF DecisionsOK
    <3> QED
      BY <1>4, <2>3, <3>1 DEF Found
  <2>5. ASSUME NEW j \in DOMAIN proposals', proposals'[j].status # "pending"
        PROVE  \E x \in proposals'[j].by : DecidedBy(j, x)'
    <3>1. j \in DOMAIN proposals /\ proposals'[j] = proposals[j]
      BY <2>1, <2>2, <2>5
    <3>2. PICK x \in proposals[j].by : DecidedBy(j, x)
      BY <1>0, <2>5, <3>1 DEF DecisionAudited, DecidedBy
    <3> QED
      BY <1>4, <3>1, <3>2 DEF DecidedBy
  <2>6. ASSUME NEW x \in audit'
        PROVE  /\ Found(req[x].org, req[x].id)'
               /\ proposals'[req'[x].id].status # "pending"
    <3>1. /\ Found(req[x].org, req[x].id)
          /\ proposals[req[x].id].status # "pending"
      BY <1>0, <1>4, <2>6 DEF DecisionAudited
    <3> QED
      BY <1>4, <2>3, <3>1 DEF Found
  <2> QED
    BY <2>4, <2>5, <2>6 DEF DecisionAudited, DecidedBy
<1>5. ASSUME NEW w \in Workers, WorkerStep(w) \/ Restart(w)
      PROVE  UNCHANGED <<req, audit, unaudited>>
  BY <1>5 DEF WorkerStep, Restart, Poll, ListFails, ListRuns, ScanRun,
              DetectDenialPatterns, ClassifyDenial, InsertProposal, ProcessedOrg
<1>6. ASSUME NEW w \in Workers, WorkerStep(w) \/ Restart(w)
      PROVE  \/ proposals' = proposals
             \/ \E k \in gap[w] : proposals' = Append(proposals, NewProposal(w, k))
  <2>1. CASE InsertProposal(w)
    BY <2>1 DEF InsertProposal, Insert
  <2>2. CASE ~InsertProposal(w)
    BY <1>6, <2>2 DEF WorkerStep, Restart, Poll, ListFails, ListRuns, ScanRun,
                      DetectDenialPatterns, ClassifyDenial, ProcessedOrg
  <2> QED
    BY <2>1, <2>2
<1>7. ASSUME NEW w \in Workers, WorkerStep(w) \/ Restart(w)
      PROVE  DecisionsOK' /\ DecisionAudited'
  BY <1>3, <1>4, <1>5, <1>6, <1>7
<1>8. ASSUME NEW r \in Runs, Upload(r) \/ Remove(r)
      PROVE  DecisionsOK' /\ DecisionAudited'
  BY <1>3, <1>8 DEF Upload, Remove, Store
<1>9. CASE UNCHANGED vars
  BY <1>3, <1>9 DEF vars
<1> QED
  BY <1>1, <1>2, <1>7, <1>8, <1>9 DEF Next

(* The inductive invariant holds of every reachable state. *)
THEOREM Inductive == Spec => []IndInv
<1>1. Init => IndInv
  BY InitInv
<1>2. IndInv /\ [Next]_vars => IndInv'
  BY TypeStep, MapsStep, EvidenceStep, DecisionStep DEF IndInv
<1> QED
  BY <1>1, <1>2, PTL DEF Spec

(* A worker is idle exactly when its poll has no org left, and every       *)
(* variable keeps its type.                                                *)
THEOREM TypeCorrect == Spec => []TypeOK
<1>1. IndInv => TypeOK
  BY DEF IndInv
<1> QED
  BY <1>1, Inductive, PTL

(* DetectDenialPatterns: whatever workers, uploads, deletions, failures    *)
(* and restarts interleave, a proposal names only runs of its own org and  *)
(* agent, and at least one.                                                *)
THEOREM EvidenceFromOwnRuns == Spec => []EvidenceOwnRuns
<1>1. IndInv => EvidenceOwnRuns
  BY DEF IndInv
<1> QED
  BY <1>1, Inductive, PTL

(* decideProposal: concurrent decisions of one proposal, and any number of *)
(* failed database calls, leave the status with a trail of its own.        *)
THEOREM DecisionsAudited == Spec => []DecisionAudited
<1>1. IndInv => DecisionAudited
  BY DEF IndInv
<1> QED
  BY <1>1, Inductive, PTL

(* What one step may do to the row i. *)
RowKept(i) ==
  LET p == proposals[i]  n == proposals'[i] IN
  /\ i \in DOMAIN proposals'
  /\ n = [p EXCEPT !.status = n.status, !.by = n.by]
  /\ p.status # "pending" => n.status # "pending"
  /\ p # n => \E q \in (DOMAIN req') \ DOMAIN req :
                req'[q].org = p.org /\ req'[q].id = i

(* A row a step leaves as it is, is kept. *)
LEMMA SameRowKept ==
  ASSUME NEW i \in DOMAIN proposals, proposals[i] \in Proposal,
         i \in DOMAIN proposals', proposals'[i] = proposals[i]
  PROVE  RowKept(i)
<1>1. proposals[i] = [proposals[i] EXCEPT !.status = proposals[i].status,
                                          !.by = proposals[i].by]
  BY DEF Proposal
<1> QED
  BY <1>1 DEF RowKept

(* A step keeps every row of the table. *)
LEMMA RowsStep ==
  ASSUME TypeOK, [Next]_vars, NEW i \in DOMAIN proposals
  PROVE  RowKept(i)
<1>0. proposals \in Seq(Proposal) /\ proposals[i] \in Proposal
  BY DEF TypeOK
<1>1. CASE proposals' = proposals
  BY <1>0, <1>1, SameRowKept
<1>2. ASSUME NEW new, proposals' = Append(proposals, new)
      PROVE  RowKept(i)
  <2>1. i \in DOMAIN proposals' /\ proposals'[i] = proposals[i]
    BY <1>0, <1>2
  <2> QED
    BY <1>0, <2>1, SameRowKept
<1>3. ASSUME NEW q \in Reqs, NEW o \in Orgs, NEW id \in Ids, NEW verdict \in Sent,
             UpdateProposalStatus(q, o, id, verdict), Update(q, o, id, verdict)
      PROVE  RowKept(i)
  <2>1. CASE i = id /\ Found(o, id)
    <3>1. /\ proposals' = [proposals EXCEPT ![id].status = verdict, ![id].by = {q}]
          /\ proposals[i].org = o
      BY <1>3, <2>1 DEF Update, Found
    <3>2. /\ i \in DOMAIN proposals'
          /\ proposals'[i] = [proposals[i] EXCEPT !.status = verdict, !.by = {q}]
      BY <1>0, <2>1, <3>1
    <3>3. proposals'[i].status = verdict /\ proposals'[i].by = {q}
      BY <1>0, <3>2 DEF Proposal
    <3>4. verdict # "pending"
      BY GovernanceAssumption DEF Verdicts
    <3>5. /\ q \in (DOMAIN req') \ DOMAIN req
          /\ req'[q].org = o /\ req'[q].id = id
      BY <1>3 DEF UpdateProposalStatus
    <3> QED
      BY <2>1, <3>1, <3>2, <3>3, <3>4, <3>5 DEF RowKept
  <2>2. CASE ~(i = id /\ Found(o, id))
    <3>1. i \in DOMAIN proposals' /\ proposals'[i] = proposals[i]
      BY <1>0, <1>3, <2>2 DEF Update, Found
    <3> QED
      BY <1>0, <3>1, SameRowKept
  <2> QED
    BY <2>1, <2>2
<1> QED
  BY <1>1, <1>2, <1>3, TableStep

(* No step, of however many workers and requests, removes or rewrites a    *)
(* proposal; only a decision of the proposal's own org changes its status. *)
THEOREM RowsKept == Spec => ProposalsKept
<1>1. ASSUME TypeOK, [Next]_vars
      PROVE  [\A i \in DOMAIN proposals : RowKept(i)]_vars
  BY <1>1, RowsStep
<1> QED
  BY <1>1, TypeCorrect, PTL DEF Spec, ProposalsKept, RowKept


(***************************************************************************)
(* The counts.                                                             *)
(***************************************************************************)

(* The denials of finitely many runs are finitely many. *)
LEMMA DeniedFinite ==
  ASSUME NEW n \in [Runs -> Nat], NEW S \in SUBSET Runs
  PROVE  IsFiniteSet(Denied(n, S)) /\ Total(n, S) \in Nat
<1> DEFINE f == [r \in S |-> {r} \X (1..n[r])]
           T == {{r} \X (1..n[r]) : r \in S}
<1>1. IsFiniteSet(S)
  BY GovernanceAssumption, FS_Subset
<1>2. f \in Surjection(S, T)
  BY DEF Surjection
<1>3. IsFiniteSet(T)
  BY <1>1, <1>2, FS_Surjection
<1>4. ASSUME NEW r \in S PROVE IsFiniteSet({r} \X (1..n[r]))
  <2>1. IsFiniteSet({r}) /\ n[r] \in Nat
    BY FS_Singleton
  <2>2. IsFiniteSet(1..n[r])
    BY <2>1, FS_Interval
  <2> QED
    BY <2>1, <2>2, FS_Product
<1>5. IsFiniteSet(UNION T)
  <2>1. \A X \in T : IsFiniteSet(X)
    BY <1>4
  <2> HIDE DEF T
  <2> QED
    BY <1>3, <2>1, FS_UNION
<1>6. IsFiniteSet(Denied(n, S))
  BY <1>5 DEF Denied
<1> QED
  BY <1>6, FS_CardinalityType DEF Total

(* One run more. *)
LEMMA TotalAdds ==
  ASSUME NEW n \in [Runs -> Nat], NEW S \in SUBSET Runs, NEW r \in Runs, r \notin S
  PROVE  Total(n, S \cup {r}) = Total(n, S) + n[r]
<1> DEFINE D == Denied(n, S)
           E == {r} \X (1..n[r])
<1>1. Denied(n, S \cup {r}) = D \cup E
  BY DEF Denied
<1>2. D \cap E = {}
  BY DEF Denied
<1>3. IsFiniteSet(D) /\ Cardinality(D) \in Nat
  BY DeniedFinite DEF Total
<1>4. n[r] \in Nat
  OBVIOUS
<1>5. IsFiniteSet(1..n[r]) /\ Cardinality(1..n[r]) = n[r]
  BY <1>4, FS_Interval
<1>6. IsFiniteSet({r}) /\ Cardinality({r}) = 1
  BY FS_Singleton
<1>7. IsFiniteSet(E) /\ Cardinality(E) = Cardinality({r}) * Cardinality(1..n[r])
  BY <1>5, <1>6, FS_Product
<1>8. Cardinality(E) = n[r]
  BY <1>4, <1>5, <1>6, <1>7
<1> HIDE DEF D, E
<1>9. Cardinality(D \cup E) = Cardinality(D) + Cardinality(E) - Cardinality(D \cap E)
  BY <1>3, <1>7, FS_Union
<1>10. Cardinality(D \cap E) = 0
  BY <1>2, FS_EmptySet
<1>11. Cardinality(D \cup E) = Cardinality(D) + n[r]
  BY <1>3, <1>4, <1>8, <1>9, <1>10
<1> QED
  BY <1>1, <1>11 DEF Total, D

(* What a run may contribute. *)
LEMMA Contributions ==
  ASSUME NEW t \in AllTools
  PROVE  /\ AtLeast(t) \in [Runs -> Nat] /\ AtMost(t) \in [Runs -> Nat]
         /\ \A r \in Runs : /\ AtLeast(t)[r] <= Denials[r][t] /\ Denials[r][t] <= AtMost(t)[r]
                            /\ t = Unknown => /\ AtLeast(t)[r] <= ActionsDenied[r]
                                              /\ ActionsDenied[r] <= AtMost(t)[r]
<1>1. \A r \in Runs : Denials[r][t] \in Nat /\ ActionsDenied[r] \in Nat
  BY GovernanceAssumption
<1> QED
  BY <1>1 DEF AtLeast, AtMost, Least, Greatest

(* An empty map adds up. *)
LEMMA EmptyAddsUp ==
  ASSUME NEW t \in AllTools
  PROVE  AddsUp(0, t, {})
<1>1. \A n : Denied(n, {}) = {}
  BY DEF Denied
<1>2. \A n : Total(n, {}) = 0
  BY <1>1, FS_EmptySet DEF Total
<1> QED
  BY <1>2 DEF AddsUp

(* A total that takes up a run with what it may contribute adds up. *)
LEMMA AddsUpMore ==
  ASSUME NEW t \in AllTools, NEW S \in SUBSET Runs, NEW r \in Runs, r \notin S,
         NEW c \in Nat, NEW d \in Nat, AddsUp(c, t, S),
         AtLeast(t)[r] <= d, d <= AtMost(t)[r]
  PROVE  AddsUp(c + d, t, S \cup {r})
<1>1. AtLeast(t) \in [Runs -> Nat] /\ AtMost(t) \in [Runs -> Nat]
  BY Contributions
<1>2. /\ Total(AtLeast(t), S \cup {r}) = Total(AtLeast(t), S) + AtLeast(t)[r]
      /\ Total(AtMost(t), S \cup {r}) = Total(AtMost(t), S) + AtMost(t)[r]
  BY <1>1, TotalAdds
<1>3. Total(AtLeast(t), S) \in Nat /\ Total(AtMost(t), S) \in Nat
  BY <1>1, DeniedFinite
<1>4. AtLeast(t)[r] \in Nat /\ AtMost(t)[r] \in Nat
  BY <1>1
<1> QED
  BY <1>2, <1>3, <1>4 DEF AddsUp

(* TotalsOK, of one worker. *)
WorkerTotals(w) ==
  /\ \A k \in Keys : /\ AddsUp(count[w][k], k[2], runIDs[w][k])
                     /\ runIDs[w][k] \cap scan[w] = {}
  /\ \A k \in gap[w] : <<Org(w), k[1], k[2]>> \in Gaps \/ count[w][k] > FallbackCount

LEMMA TotalsByWorker == TotalsOK <=> \A w \in Workers : WorkerTotals(w)
BY DEF TotalsOK, WorkerTotals

(* An empty map is in order, whatever the worker is about to look at. *)
LEMMA NoTotals ==
  ASSUME NEW k \in Keys
  PROVE  AddsUp(NoCounts[k], k[2], NoRuns[k]) /\ \A S : NoRuns[k] \cap S = {}
<1>1. k[2] \in AllTools /\ NoCounts[k] = 0 /\ NoRuns[k] = {}
  BY DEF Keys, NoCounts, NoRuns
<1> QED
  BY <1>1, EmptyAddsUp

(* The map of a worker that reads a run goes on adding up. *)
LEMMA ReadsAddUp ==
  ASSUME TypeOK, NEW w \in Workers, WorkerTotals(w), NEW r \in scan[w],
         ActionsDenied[r] # 0, Reads(w, r), NEW k \in Keys
  PROVE  /\ AddsUp(count'[w][k], k[2], runIDs'[w][k])
         /\ runIDs'[w][k] \subseteq runIDs[w][k] \cup {r}
<1>1. r \in Runs /\ k[2] \in AllTools
  BY DEF TypeOK, Keys
<1>2. \E n \in {Parsed(r), Unparsed(r)} : Adds(w, r, n)
  BY DEF Reads
<1>3. PICK n \in {Parsed(r), Unparsed(r)} : Adds(w, r, n)
  BY <1>2
<1>4. n \in [AllTools -> Nat]
  BY <1>1, GovernanceAssumption DEF Parsed, Unparsed
<1> DEFINE d == n[k[2]]
<1>5. d \in Nat
  BY <1>1, <1>4
<1>6. d > 0 => AtLeast(k[2])[r] <= d /\ d <= AtMost(k[2])[r]
  BY <1>1, <1>3, Contributions DEF Parsed, Unparsed
<1>7. /\ count'[w][k] = IF k[1] = AgentOf[r] THEN count[w][k] + d ELSE count[w][k]
      /\ runIDs'[w][k] = IF k[1] = AgentOf[r] /\ d > 0 THEN runIDs[w][k] \cup {r}
                                                       ELSE runIDs[w][k]
  BY <1>3 DEF Adds, TypeOK
<1>8. /\ AddsUp(count[w][k], k[2], runIDs[w][k]) /\ r \notin runIDs[w][k]
      /\ count[w][k] \in Nat /\ runIDs[w][k] \in SUBSET Runs
  BY DEF WorkerTotals, TypeOK
<1> HIDE DEF d
<1>9. CASE k[1] = AgentOf[r] /\ d > 0
  <2>1. AddsUp(count[w][k] + d, k[2], runIDs[w][k] \cup {r})
    BY <1>1, <1>5, <1>6, <1>8, <1>9, AddsUpMore
  <2> QED
    BY <1>7, <1>9, <2>1
<1>10. CASE ~(k[1] = AgentOf[r] /\ d > 0)
  <2>1. count'[w][k] = count[w][k] /\ runIDs'[w][k] = runIDs[w][k]
    BY <1>5, <1>7, <1>8, <1>10
  <2> QED
    BY <1>8, <2>1
<1> QED
  BY <1>9, <1>10

(* Every worker goes on counting each run once. *)
LEMMA TotalsStep ==
  ASSUME IndInv, TotalsOK, [Next]_vars
  PROVE  TotalsOK'
<1> SUFFICES ASSUME NEW v \in Workers PROVE WorkerTotals(v)'
  BY DEF TotalsOK, WorkerTotals
<1>0. TypeOK /\ WorkerTotals(v) /\ MapsOK
  BY TotalsByWorker DEF IndInv
<1>1. ASSUME todo'[v] = todo[v], scan'[v] = scan[v], gap'[v] = gap[v],
             count'[v] = count[v], runIDs'[v] = runIDs[v]
      PROVE  WorkerTotals(v)'
  BY <1>0, <1>1 DEF WorkerTotals, Org
<1>2. ASSUME NEW w \in Workers, w # v, WorkerStep(w) \/ Restart(w) PROVE WorkerTotals(v)'
  BY <1>0, <1>1, <1>2, WorkersApart
<1>3. ASSUME scan'[v] = scan[v] \/ runIDs[v] = NoRuns, gap'[v] = {},
             count'[v] = count[v], runIDs'[v] = runIDs[v]
      PROVE  WorkerTotals(v)'
  BY <1>0, <1>3, NoTotals DEF WorkerTotals
<1>4. ASSUME Poll(v) \/ ListFails(v) \/ ListRuns(v) PROVE WorkerTotals(v)'
  <2>1. /\ runIDs[v] = NoRuns /\ gap[v] = {} /\ UNCHANGED <<count, runIDs, gap>>
    BY <1>0, <1>4 DEF MapsOK, Poll, ListFails, ListRuns
  <2> QED
    BY <1>3, <2>1
<1>5. ASSUME ScanRun(v) PROVE WorkerTotals(v)'
  <2>1. PICK r \in scan[v] :
          /\ scan' = [scan EXCEPT ![v] = @ \ {r}]
          /\ IF ActionsDenied[r] = 0 THEN UNCHANGED <<count, runIDs>> ELSE Reads(v, r)
    BY <1>5 DEF ScanRun
  <2>2. scan'[v] = scan[v] \ {r} /\ gap'[v] = {}
    BY <1>0, <1>5, <2>1 DEF TypeOK, ScanRun, MapsOK
  <2>3. \A k \in Keys : /\ AddsUp(count'[v][k], k[2], runIDs'[v][k])
                        /\ runIDs'[v][k] \subseteq runIDs[v][k] \cup {r}
    <3>1. CASE ActionsDenied[r] = 0
      BY <1>0, <2>1, <3>1 DEF WorkerTotals
    <3>2. CASE ActionsDenied[r] # 0
      BY <1>0, <2>1, <3>2, ReadsAddUp
    <3> QED
      BY <3>1, <3>2
  <2>4. \A k \in Keys : runIDs'[v][k] \cap scan'[v] = {}
    BY <1>0, <2>2, <2>3 DEF WorkerTotals
  <2> QED
    BY <2>2, <2>3, <2>4 DEF WorkerTotals, AddsUp
<1>6. ASSUME DetectDenialPatterns(v) \/ InsertProposal(v) PROVE WorkerTotals(v)'
  <2>1. gap'[v] = {} /\ UNCHANGED <<scan, count, runIDs>>
    BY <1>0, <1>6 DEF TypeOK, MapsOK, DetectDenialPatterns, InsertProposal
  <2> QED
    BY <1>3, <2>1
<1>7. ASSUME ClassifyDenial(v) PROVE WorkerTotals(v)'
  <2>1. PICK k \in patterns[v], isGap \in BOOLEAN :
          /\ \/ isGap = IsGap(v, k)
             \/ isGap \in {FALSE, IsGapFallback(v, k)}
          /\ gap' = [gap EXCEPT ![v] = IF isGap THEN {k} ELSE {}]
    BY <1>7 DEF ClassifyDenial
  <2>2. UNCHANGED <<todo, scan, count, runIDs>>
    BY <1>7 DEF ClassifyDenial
  <2>3. gap'[v] = IF isGap THEN {k} ELSE {}
    BY <1>0, <2>1 DEF TypeOK
  <2>4. isGap => <<Org(v), k[1], k[2]>> \in Gaps \/ count[v][k] > FallbackCount
    BY <2>1 DEF IsGap, IsGapFallback
  <2>5. Org(v)' = Org(v)
    BY <2>2 DEF Org
  <2> QED
    BY <1>0, <2>2, <2>3, <2>4, <2>5 DEF WorkerTotals
<1>8. ASSUME ProcessedOrg(v) \/ Restart(v) PROVE WorkerTotals(v)'
  <2>1. count'[v] = NoCounts /\ runIDs'[v] = NoRuns /\ gap'[v] = {}
    BY <1>0, <1>8 DEF TypeOK, MapsOK, ProcessedOrg, Restart
  <2> QED
    BY <2>1, NoTotals DEF WorkerTotals
<1>9. CASE UNCHANGED wvars
  BY <1>1, <1>9
<1>10. \/ UNCHANGED wvars \/ \E w \in Workers : WorkerStep(w) \/ Restart(w)
  BY DEF Next, vars, Upload, Remove, Store, UpdateProposalStatus, AuditDecision
<1> QED
  BY <1>2, <1>4, <1>5, <1>6, <1>7, <1>8, <1>9, <1>10 DEF WorkerStep

(* The evidence of a proposal. *)
Sound(p) ==
  /\ p.count >= Threshold
  /\ <<p.org, p.agent, p.tool>> \in Gaps \/ p.count > FallbackCount
  /\ AddsUp(p.count, p.tool, p.runs)

LEMMA SumsStep ==
  ASSUME IndInv, TotalsOK, EvidenceAddsUp, [Next]_vars
  PROVE  EvidenceAddsUp'
<1>0. TypeOK /\ MapsOK /\ proposals \in Seq(Proposal)
  BY DEF IndInv, TypeOK
<1>1. ASSUME NEW i \in DOMAIN proposals PROVE Sound(proposals'[i])
  <2>1. RowKept(i) /\ proposals[i] \in Proposal
    BY <1>0, RowsStep
  <2>2. /\ proposals'[i].count = proposals[i].count /\ proposals'[i].tool = proposals[i].tool
        /\ proposals'[i].runs = proposals[i].runs /\ proposals'[i].org = proposals[i].org
        /\ proposals'[i].agent = proposals[i].agent
    BY <2>1 DEF RowKept, Proposal
  <2>3. Sound(proposals[i])
    BY DEF EvidenceAddsUp, Sound
  <2> QED
    BY <2>2, <2>3 DEF Sound
<1>2. ASSUME NEW w \in Workers, NEW k \in gap[w] PROVE Sound(NewProposal(w, k))
  <2>1. k \in Keys
    BY <1>0 DEF TypeOK
  <2>2. /\ count[w][k] >= Threshold /\ AddsUp(count[w][k], k[2], runIDs[w][k])
        /\ <<Org(w), k[1], k[2]>> \in Gaps \/ count[w][k] > FallbackCount
    BY <1>0, <2>1 DEF MapsOK, TotalsOK
  <2> QED
    BY <2>2 DEF Sound, NewProposal
<1>3. ASSUME NEW i \in DOMAIN proposals' PROVE Sound(proposals'[i])
  <2>1. CASE i \in DOMAIN proposals
    BY <1>1, <2>1
  <2>2. CASE i \notin DOMAIN proposals
    <3>0. PICK w \in Workers : \E k \in gap[w] : proposals' = Append(proposals, NewProposal(w, k))
      <4>1. CASE proposals' = proposals
        BY <1>3, <2>2, <4>1
      <4>2. ASSUME NEW q \in Reqs, NEW o \in Orgs, NEW j \in Ids, NEW verdict \in Sent,
                   Update(q, o, j, verdict)
            PROVE  FALSE
        <5>1. DOMAIN proposals' = DOMAIN proposals
          BY <1>0, <4>2, UpdateRows
        <5> QED
          BY <1>3, <2>2, <5>1
      <4> QED
        BY <1>0, <4>1, <4>2, TableStep DEF IndInv
    <3>1. PICK k \in gap[w] : proposals' = Append(proposals, NewProposal(w, k))
      BY <3>0
    <3> DEFINE new == NewProposal(w, k)
    <3>2. Sound(new)
      BY <1>2
    <3> HIDE DEF new
    <3>3. proposals' = Append(proposals, new)
      BY <3>1 DEF new
    <3>4. proposals'[i] = new
      BY <1>0, <1>3, <2>2, <3>3
    <3> QED
      BY <3>2, <3>4
  <2> QED
    BY <2>1, <2>2
<1> QED
  BY <1>3 DEF EvidenceAddsUp, Sound, AddsUp

(* DetectDenialPatterns and InsertProposal: the denial_count of a proposal *)
(* is what the traces of its run_ids add up to, reaches the threshold, and *)
(* belongs to a gap or to a fallback, although runs are uploaded and       *)
(* deleted, calls fail and workers restart while they count.               *)
THEOREM EvidenceCounted == Spec => []EvidenceAddsUp
<1>1. Init => TotalsOK /\ EvidenceAddsUp
  BY NoTotals DEF Init, TotalsOK, EvidenceAddsUp
<1>2. IndInv /\ TotalsOK /\ EvidenceAddsUp /\ [Next]_vars => TotalsOK' /\ EvidenceAddsUp'
  BY TotalsStep, SumsStep
<1> QED
  BY <1>1, <1>2, Inductive, PTL DEF Spec


=============================================================================
