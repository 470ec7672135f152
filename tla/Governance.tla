----------------------------- MODULE Governance -----------------------------
(***************************************************************************)
(* The governance worker (cmd/relic-governance, internal/governance) and   *)
(* the proposals it writes, next to the API handlers that decide them      *)
(* (internal/api/proposals.go).                                            *)
(*                                                                         *)
(* Every poll walks the orgs in order.  For one org the worker lists the   *)
(* newest runs, downloads the trace of each run with denials, adds the     *)
(* denials up by agent and tool, asks a language model about every total   *)
(* that reaches the threshold and inserts a proposal for each gap.  Nothing*)
(* is locked: uploads, deletions and decisions happen between any two of   *)
(* these calls, several workers may poll at once, and a worker that dies   *)
(* starts again from an empty map.                                         *)
(***************************************************************************)
EXTENDS Naturals, FiniteSets, Sequences

CONSTANTS
  Orgs, OrgOrder,         \* org ids, and the order ListOrgs returns them in
  Agents, Tools, Unknown, \* agent names, tool names, the tool "unknown"
  Runs,                   \* run ids
  OrgOf, AgentOf, Started,\* what the row of a run says
  ActionsDenied,          \* its actions_denied column
  Denials,                \* hard denials by tool in its trace
  ListLimit, Threshold,   \* the constants 500 and 5 of the worker
  FallbackCount,          \* the constant 10 of ClassifyDenial
  HasKey, HasS3,          \* is the model, is the bucket configured
  Gaps,                   \* <<org, agent, tool>> the model calls a gap
  FailingOrgs,            \* orgs whose ListRuns may fail any number of times
  Workers, Reqs,          \* worker processes; decisions sent to the API
  Ids, Sent,              \* the proposal ids they name, the verdicts they send
  Stored,                 \* runs uploaded before the worker is started
  MaxFaults, MaxPerKey    \* bounds: faults; proposals kept for one key

AllTools == Tools \cup {Unknown}
Keys     == Agents \X AllTools
OrgKeys  == Orgs \X Agents \X AllTools
Verdicts == {"approved", "rejected", "dismissed"}

ASSUME GovernanceAssumption ==
  /\ OrgOrder \in Seq(Orgs)
  /\ Unknown \notin Tools
  /\ IsFiniteSet(Runs)
  /\ OrgOf \in [Runs -> Orgs] /\ AgentOf \in [Runs -> Agents]
  /\ Started \in [Runs -> Nat]
  /\ ActionsDenied \in [Runs -> Nat]
  /\ Denials \in [Runs -> [AllTools -> Nat]]
  /\ ListLimit \in Nat /\ Threshold \in Nat \ {0} /\ FallbackCount \in Nat
  /\ HasKey \in BOOLEAN /\ HasS3 \in BOOLEAN
  /\ Gaps \subseteq OrgKeys
  /\ FailingOrgs \subseteq Orgs
  /\ Ids \subseteq Nat /\ Sent \subseteq Verdicts /\ Stored \subseteq Runs
  /\ MaxFaults \in Nat /\ MaxPerKey \in Nat \ {0}

VARIABLES
  phase,      \* how much of a run is stored: its row, its object, both
  pc, todo,   \* where a worker is; the orgs its poll has left
  scan,       \* runs it listed and has not looked at
  count,      \* DenialPattern.Count by key
  runIDs,     \* DenialPattern.RunIDs by key
  patterns,   \* keys above the threshold, not yet classified
  gap,        \* the key whose proposal is about to be inserted
  proposals,  \* table proposals, in insertion order
  req,        \* the decision requests that have arrived
  audit,      \* requests whose audit_events row is written
  unaudited,  \* history: requests that met a database error
  faults      \* faults so far

wvars == <<pc, todo, scan, count, runIDs, patterns, gap>>
vars  == <<phase, wvars, proposals, req, audit, unaudited, faults>>

Phases == {"new", "row", "full", "object", "gone"}
HasRow(r)    == phase[r] \in {"row", "full"}
HasObject(r) == phase[r] \in {"full", "object"}

Proposal == [org : Orgs, agent : Agents, tool : AllTools, count : Nat,
             runs : SUBSET Runs, status : {"pending"} \cup Verdicts,
             by : SUBSET Reqs]
Request  == [at : {"audit", "200", "404", "500"}, org : Orgs, id : Ids,
             status : Verdicts]

NoCounts == [k \in Keys |-> 0]
NoRuns   == [k \in Keys |-> {}]

TypeOK ==
  /\ phase \in [Runs -> Phases]
  /\ pc \in [Workers -> {"idle", "org", "scan", "classify", "insert"}]
  /\ todo \in [Workers -> Seq(Orgs)]
  /\ \A w \in Workers : pc[w] = "idle" <=> todo[w] = <<>>
  /\ scan \in [Workers -> SUBSET Runs]
  /\ count \in [Workers -> [Keys -> Nat]]
  /\ runIDs \in [Workers -> [Keys -> SUBSET Runs]]
  /\ patterns \in [Workers -> SUBSET Keys]
  /\ gap \in [Workers -> SUBSET Keys]
  /\ proposals \in Seq(Proposal)
  /\ DOMAIN req \subseteq Reqs /\ \A q \in DOMAIN req : req[q] \in Request
  /\ audit \subseteq Reqs /\ unaudited \subseteq Reqs
  /\ faults \in 0..MaxFaults

Init ==
  /\ phase = [r \in Runs |-> IF r \in Stored THEN "full" ELSE "new"]
  /\ pc = [w \in Workers |-> "idle"]
  /\ todo = [w \in Workers |-> <<>>]
  /\ scan = [w \in Workers |-> {}]
  /\ count = [w \in Workers |-> NoCounts]
  /\ runIDs = [w \in Workers |-> NoRuns]
  /\ patterns = [w \in Workers |-> {}]
  /\ gap = [w \in Workers |-> {}]
  /\ proposals = <<>>
  /\ req = <<>>
  /\ audit = {} /\ unaudited = {}
  /\ faults = 0

Fault   == faults < MaxFaults /\ faults' = faults + 1
NoFault == UNCHANGED faults

(***************************************************************************)
(* The trace store: an upload inserts the row before the object exists,    *)
(* and a deletion removes the row before the object.                       *)
(***************************************************************************)
Store(r, from, to) ==
  /\ phase[r] = from /\ phase' = [phase EXCEPT ![r] = to]
  /\ UNCHANGED <<wvars, proposals, req, audit, unaudited, faults>>

Upload(r) == Store(r, "new", "row") \/ Store(r, "row", "full")
Remove(r) == \/ Store(r, "row", "gone") \/ Store(r, "full", "object")
             \/ Store(r, "object", "gone")

(***************************************************************************)
(* Worker.poll and Proposer.ProcessOrg.                                    *)
(***************************************************************************)
Org(w) == Head(todo[w])

(* ListOrgs; when it fails the worker waits for the next tick. *)
Poll(w) ==
  /\ pc[w] = "idle"
  /\ \E n \in 1..Len(OrgOrder) :
       /\ (n = Len(OrgOrder) /\ NoFault) \/ Fault
       /\ todo' = [todo EXCEPT ![w] = SubSeq(OrgOrder, 1, n)]
  /\ pc' = [pc EXCEPT ![w] = "org"]
  /\ UNCHANGED <<phase, scan, count, runIDs, patterns, gap, proposals, req,
                 audit, unaudited>>

(* The org is finished or has failed: on to the next one. *)
Leave(w) ==
  /\ todo' = [todo EXCEPT ![w] = Tail(@)]
  /\ pc' = [pc EXCEPT ![w] = IF Len(todo[w]) = 1 THEN "idle" ELSE "org"]

(* Mutant of ListFails: one org's error ends the poll. *)
ListFailsEndsPoll(w) ==
  /\ pc[w] = "org"
  /\ IF Org(w) \in FailingOrgs THEN NoFault ELSE Fault
  /\ todo' = [todo EXCEPT ![w] = <<>>]
  /\ pc' = [pc EXCEPT ![w] = "idle"]
  /\ UNCHANGED <<phase, scan, count, runIDs, patterns, gap, proposals, req,
                 audit, unaudited>>

ListFails(w) ==
  /\ pc[w] = "org"
  /\ IF Org(w) \in FailingOrgs THEN NoFault ELSE Fault
  /\ Leave(w)
  /\ UNCHANGED <<phase, scan, count, runIDs, patterns, gap, proposals, req,
                 audit, unaudited>>

RowsOf(o) == {r \in Runs : HasRow(r) /\ OrgOf[r] = o}

(* ORDER BY started_at DESC LIMIT: the order of equal times is open. *)
Listings(o) ==
  {S \in SUBSET RowsOf(o) :
     /\ Cardinality(S) <= ListLimit
     /\ S # RowsOf(o) => Cardinality(S) = ListLimit
     /\ \A r \in S, s \in RowsOf(o) \ S : Started[r] >= Started[s]}

(* What is left of a listing when the rows stop coming. *)
CutShort(S) == {T \in SUBSET S : \A r \in T, s \in S \ T : Started[r] >= Started[s]}

(* The window of seven days the caller passes is not used, and an error    *)
(* between two rows is not noticed.                                        *)
ListRuns(w) ==
  /\ pc[w] = "org"
  /\ \E S \in Listings(Org(w)) : \E T \in CutShort(S) :
       /\ (T = S /\ NoFault) \/ Fault
       /\ scan' = [scan EXCEPT ![w] = T]
  /\ pc' = [pc EXCEPT ![w] = "scan"]
  /\ UNCHANGED <<phase, todo, count, runIDs, patterns, gap, proposals, req,
                 audit, unaudited>>

(* What a run adds: its denials by tool, or, when the trace cannot be      *)
(* read, everything its row counts as denied, under "unknown".             *)
Parsed(r)   == Denials[r]
Unparsed(r) == [t \in AllTools |-> IF t = Unknown THEN ActionsDenied[r] ELSE 0]

(* Mutant of Adds: a run is listed only when it opens the pattern. *)
AddsFirstRunOnly(w, r, n) ==
  /\ count' = [count EXCEPT ![w] =
       [k \in Keys |-> IF k[1] = AgentOf[r] THEN @[k] + n[k[2]] ELSE @[k]]]
  /\ runIDs' = [runIDs EXCEPT ![w] =
       [k \in Keys |-> IF k[1] = AgentOf[r] /\ n[k[2]] > 0 /\ @[k] = {}
                       THEN {r} ELSE @[k]]]

(* The counts and run ids of the patterns the run belongs to. *)
Adds(w, r, n) ==
  /\ count' = [count EXCEPT ![w] =
       [k \in Keys |-> IF k[1] = AgentOf[r] THEN @[k] + n[k[2]] ELSE @[k]]]
  /\ runIDs' = [runIDs EXCEPT ![w] =
       [k \in Keys |-> IF k[1] = AgentOf[r] /\ n[k[2]] > 0
                       THEN @[k] \cup {r} ELSE @[k]]]

(* parseTraceDenials: the download or the decoding can fail. *)
Reads(w, r) ==
  \/ HasS3 /\ HasObject(r) /\ NoFault /\ Adds(w, r, Parsed(r))
  \/ HasS3 /\ HasObject(r) /\ Fault /\ Adds(w, r, Unparsed(r))
  \/ ~(HasS3 /\ HasObject(r)) /\ NoFault /\ Adds(w, r, Unparsed(r))

ScanRun(w) ==
  /\ pc[w] = "scan"
  /\ \E r \in scan[w] :
       /\ \A s \in scan[w] : Started[r] >= Started[s]
       /\ scan' = [scan EXCEPT ![w] = @ \ {r}]
       /\ IF ActionsDenied[r] = 0 THEN NoFault /\ UNCHANGED <<count, runIDs>>
          ELSE Reads(w, r)
  /\ UNCHANGED <<phase, pc, todo, patterns, gap, proposals, req, audit, unaudited>>

DetectDenialPatterns(w) ==
  /\ pc[w] = "scan" /\ scan[w] = {} /\ NoFault
  /\ patterns' = [patterns EXCEPT ![w] = {k \in Keys : count[w][k] >= Threshold}]
  /\ pc' = [pc EXCEPT ![w] = "classify"]
  /\ UNCHANGED <<phase, todo, scan, count, runIDs, gap, proposals, req, audit,
                 unaudited>>

(* IsGap as the model answers, and the fallback for an unusable answer. *)
IsGap(w, k)         == HasKey /\ <<Org(w), k[1], k[2]>> \in Gaps
IsGapFallback(w, k) == HasKey /\ count[w][k] > FallbackCount

(* One pattern: a failed call and a correct denial both skip it.  The      *)
(* patterns come out of a Go map in any order.                             *)
ClassifyDenial(w) ==
  /\ pc[w] = "classify"
  /\ \E k \in patterns[w] :
       /\ patterns' = [patterns EXCEPT ![w] = @ \ {k}]
       /\ \E isGap \in BOOLEAN :
            /\ \/ NoFault /\ isGap = IsGap(w, k)
               \/ HasKey /\ Fault /\ isGap \in {FALSE, IsGapFallback(w, k)}
            /\ gap' = [gap EXCEPT ![w] = IF isGap THEN {k} ELSE {}]
            /\ pc' = [pc EXCEPT ![w] = IF isGap THEN "insert" ELSE "classify"]
  /\ UNCHANGED <<phase, todo, scan, count, runIDs, proposals, req, audit,
                 unaudited>>

(* GenerateProposal: the rule allows the tool, the evidence is the pattern. *)
NewProposal(w, k) ==
  [org |-> Org(w), agent |-> k[1], tool |-> k[2], count |-> count[w][k],
   runs |-> runIDs[w][k], status |-> "pending", by |-> {}]

SameKey(p, o, k) == p.org = o /\ p.agent = k[1] /\ p.tool = k[2]
Copies(o, k) ==
  Cardinality({i \in DOMAIN proposals : SameKey(proposals[i], o, k)})

(* Mutant of Insert: a proposal that exists is brought up to date. *)
InsertRefreshes(w, k) ==
  proposals' = IF Copies(Org(w), k) = 0
    THEN Append(proposals, NewProposal(w, k))
    ELSE [i \in DOMAIN proposals |->
           IF SameKey(proposals[i], Org(w), k)
           THEN [proposals[i] EXCEPT !.count = count[w][k], !.runs = runIDs[w][k]]
           ELSE proposals[i]]

(* Every poll inserts again; a proposal beyond MaxPerKey is not kept. *)
Insert(w, k) ==
  proposals' = IF Copies(Org(w), k) < MaxPerKey
               THEN Append(proposals, NewProposal(w, k)) ELSE proposals

InsertProposal(w) ==
  /\ pc[w] = "insert"
  /\ \E k \in gap[w] : \/ NoFault /\ Insert(w, k)
                       \/ Fault /\ UNCHANGED proposals
                       \/ Fault /\ Insert(w, k)
  /\ gap' = [gap EXCEPT ![w] = {}]
  /\ pc' = [pc EXCEPT ![w] = "classify"]
  /\ UNCHANGED <<phase, todo, scan, count, runIDs, patterns, req, audit, unaudited>>

(* Mutant of ProcessedOrg: the map outlives the call. *)
ProcessedOrgKeepsMap(w) ==
  /\ pc[w] = "classify" /\ patterns[w] = {} /\ NoFault
  /\ Leave(w)
  /\ UNCHANGED <<phase, scan, count, runIDs, patterns, gap, proposals, req,
                 audit, unaudited>>

(* ProcessOrg returns; the map of the patterns is local to it. *)
ProcessedOrg(w) ==
  /\ pc[w] = "classify" /\ patterns[w] = {} /\ NoFault
  /\ Leave(w)
  /\ count' = [count EXCEPT ![w] = NoCounts]
  /\ runIDs' = [runIDs EXCEPT ![w] = NoRuns]
  /\ UNCHANGED <<phase, scan, patterns, gap, proposals, req, audit, unaudited>>

(* The process dies and is started again; nothing of the poll survives. *)
Restart(w) ==
  /\ pc[w] # "idle" /\ Fault
  /\ pc' = [pc EXCEPT ![w] = "idle"]
  /\ todo' = [todo EXCEPT ![w] = <<>>]
  /\ scan' = [scan EXCEPT ![w] = {}]
  /\ count' = [count EXCEPT ![w] = NoCounts]
  /\ runIDs' = [runIDs EXCEPT ![w] = NoRuns]
  /\ patterns' = [patterns EXCEPT ![w] = {}]
  /\ gap' = [gap EXCEPT ![w] = {}]
  /\ UNCHANGED <<phase, proposals, req, audit, unaudited>>

(***************************************************************************)
(* The decision handlers: decideProposal.                                  *)
(***************************************************************************)
(* The row UpdateProposalStatus updates; its status does not matter. *)
Found(o, i) == i \in DOMAIN proposals /\ proposals[i].org = o

Update(q, o, i, verdict) ==
  proposals' = IF Found(o, i)
    THEN [proposals EXCEPT ![i].status = verdict, ![i].by = {q}]
    ELSE proposals

(* Request q of a member of org o decides proposal i. *)
UpdateProposalStatus(q, o, i, verdict) ==
  /\ q \notin DOMAIN req
  /\ \E label \in {"audit", "404", "500"} :
       /\ req' = [x \in DOMAIN req \cup {q} |-> IF x = q
                   THEN [at |-> label, org |-> o, id |-> i, status |-> verdict]
                   ELSE req[x]]
       /\ \/ /\ label = (IF Found(o, i) THEN "audit" ELSE "404")
             /\ NoFault /\ Update(q, o, i, verdict) /\ UNCHANGED unaudited
          \/ /\ label = "500"
             /\ Fault /\ unaudited' = unaudited \cup {q}
             /\ Update(q, o, i, verdict) \/ UNCHANGED proposals
  /\ UNCHANGED <<phase, wvars, audit>>

Audits(q) == q \in DOMAIN req /\ req[q].at = "audit"
Done(q)   == req' = [req EXCEPT ![q].at = "200"]

(* Mutant of AuditDecision: dismissals are not audited. *)
AuditDecisionNotDismiss(q) ==
  /\ Audits(q) /\ NoFault
  /\ audit' = IF req[q].status = "dismissed" THEN audit ELSE audit \cup {q}
  /\ Done(q)
  /\ UNCHANGED <<phase, wvars, proposals, unaudited>>

(* auditLog, whose failure the client does not see. *)
AuditDecision(q) ==
  /\ Audits(q)
  /\ \/ NoFault /\ audit' = audit \cup {q} /\ UNCHANGED unaudited
     \/ Fault /\ unaudited' = unaudited \cup {q} /\ UNCHANGED audit
  /\ Done(q)
  /\ UNCHANGED <<phase, wvars, proposals>>

WorkerStep(w) ==
  \/ Poll(w) \/ ListFails(w) \/ ListRuns(w) \/ ScanRun(w)
  \/ DetectDenialPatterns(w) \/ ClassifyDenial(w) \/ InsertProposal(w)
  \/ ProcessedOrg(w)

Next ==
  \/ \E r \in Runs : Upload(r) \/ Remove(r)
  \/ \E w \in Workers : WorkerStep(w) \/ Restart(w)
  \/ \E q \in Reqs, o \in Orgs, i \in Ids, verdict \in Sent :
       UpdateProposalStatus(q, o, i, verdict)
  \/ \E q \in Reqs : AuditDecision(q)

(* The ticker fires for ever, so a worker that can move moves. *)
Spec == Init /\ [][Next]_vars /\ \A w \in Workers : WF_vars(WorkerStep(w))

-----------------------------------------------------------------------------
(***************************************************************************)
(* Properties.                                                             *)
(***************************************************************************)

(* A proposal's evidence names runs of its own org and agent, at least     *)
(* one, each uploaded and indexed with denials: the map of                 *)
(* DetectDenialPatterns never carries a run from one org to the next,      *)
(* although workers, uploads, deletions and restarts interleave.           *)
EvidenceOwnRuns ==
  \A i \in DOMAIN proposals :
    LET p == proposals[i] IN
    /\ p.runs # {}
    /\ \A r \in p.runs : /\ OrgOf[r] = p.org /\ AgentOf[r] = p.agent
                         /\ ActionsDenied[r] > 0 /\ phase[r] # "new"

Least(m, n)    == IF m < n THEN m ELSE n
Greatest(m, n) == IF m < n THEN n ELSE m

(* The denials of the runs of S when run r has n[r] of them, and the total. *)
Denied(n, S) == UNION {{r} \X (1..n[r]) : r \in S}
Total(n, S)  == Cardinality(Denied(n, S))

(* What a run may contribute to a tool: what its trace says, and under     *)
(* "unknown" its nameless denials or, when its trace could not be read,    *)
(* all of them.                                                            *)
AtLeast(t) == [r \in Runs |-> IF t = Unknown THEN Least(Denials[r][t], ActionsDenied[r])
                                            ELSE Denials[r][t]]
AtMost(t)  == [r \in Runs |-> IF t = Unknown THEN Greatest(Denials[r][t], ActionsDenied[r])
                                            ELSE Denials[r][t]]

(* The count of a pattern is what the traces of its runs add up to. *)
AddsUp(c, t, S) == c >= Total(AtLeast(t), S) /\ c <= Total(AtMost(t), S)

(* denial_count is what the traces of run_ids add up to for denied_tool,   *)
(* exactly for a named tool; it reaches the threshold (detector.go:126;    *)
(* the comment at :61 wants more, see AboveThreshold below), and the       *)
(* proposal belongs to a gap or to a fallback.                             *)
EvidenceAddsUp ==
  \A i \in DOMAIN proposals :
    LET p == proposals[i] IN
    /\ p.count >= Threshold
    /\ <<p.org, p.agent, p.tool>> \in Gaps \/ p.count > FallbackCount
    /\ AddsUp(p.count, p.tool, p.runs)

(* decideProposal leaves a trail: the status of a decided proposal is the  *)
(* verdict of a request of its own org whose audit row is written or about *)
(* to be, unless that request met a database error; and an audit row never *)
(* speaks of a proposal that was not decided (a 404).                      *)
DecisionAudited ==
  /\ \A i \in DOMAIN proposals :
       proposals[i].status # "pending" =>
         \E q \in proposals[i].by :
           /\ q \in DOMAIN req
           /\ req[q].id = i /\ req[q].org = proposals[i].org
           /\ req[q].status = proposals[i].status
           /\ q \in audit \cup unaudited \/ req[q].at = "audit"
  /\ \A q \in audit : /\ Found(req[q].org, req[q].id)
                     /\ proposals[req[q].id].status # "pending"

(* No step of the worker touches a proposal that exists: rows stay, their  *)
(* evidence stays, a decided one never becomes pending again, and a status *)
(* changes only by a request of the proposal's own org.                    *)
ProposalsKept ==
  [][\A i \in DOMAIN proposals :
       LET p == proposals[i]  n == proposals'[i] IN
       /\ i \in DOMAIN proposals'
       /\ n = [p EXCEPT !.status = n.status, !.by = n.by]
       /\ p.status # "pending" => n.status # "pending"
       /\ p # n => \E q \in (DOMAIN req') \ DOMAIN req :
                     req'[q].org = p.org /\ req'[q].id = i]_vars

(* The denials of a tool the next listing of a healthy org would add up. *)
Visible(o, a, t) ==
  \A S \in Listings(o) :
    Total([r \in Runs |-> Denials[r][t]],
      {r \in S : AgentOf[r] = a /\ ActionsDenied[r] > 0 /\ HasObject(r)})
    >= Threshold

(* A gap that stays visible, with as many denials as the threshold or      *)
(* more, is proposed in the end: the next poll repeats whatever an error   *)
(* or a restart cut short, and an org that fails on every poll does not    *)
(* keep the others from being processed.                                   *)
GapsProposed ==
  \A g \in {h \in Gaps : h[1] \notin FailingOrgs /\ h[3] # Unknown} :
    <>[]Visible(g[1], g[2], g[3])
      => <>(\E i \in DOMAIN proposals :
              SameKey(proposals[i], g[1], <<g[2], g[3]>>))

-----------------------------------------------------------------------------
(* The runs a worker has gathered for the org it is in, by key. *)
OwnRuns(o, a) == {r \in Runs : /\ OrgOf[r] = o /\ AgentOf[r] = a
                               /\ ActionsDenied[r] > 0 /\ phase[r] # "new"}

(* The maps of a worker: empty between orgs, and inside an org filled from *)
(* its own runs; a key has a count only if a run was listed for it.        *)
MapsOK ==
  \A w \in Workers :
    /\ IF pc[w] \in {"idle", "org"}
       THEN count[w] = NoCounts /\ runIDs[w] = NoRuns
       ELSE \A k \in Keys : runIDs[w][k] \subseteq OwnRuns(Org(w), k[1])
    /\ pc[w] # "scan" => scan[w] = {}
    /\ pc[w] \notin {"classify", "insert"} => patterns[w] = {}
    /\ pc[w] # "insert" => gap[w] = {}
    /\ \A r \in scan[w] : OrgOf[r] = Org(w) /\ phase[r] # "new"
    /\ \A k \in Keys : count[w][k] > 0 => runIDs[w][k] # {}
    /\ \A k \in patterns[w] \cup gap[w] : count[w][k] >= Threshold

(* A request that will write, or has written, its audit row decided a      *)
(* proposal of its org.                                                    *)
DecisionsOK ==
  /\ audit \subseteq DOMAIN req
  /\ \A q \in DOMAIN req : req[q].at = "audit" =>
       /\ Found(req[q].org, req[q].id)
       /\ proposals[req[q].id].status # "pending"

IndInv == TypeOK /\ MapsOK /\ DecisionsOK /\ EvidenceOwnRuns /\ DecisionAudited

(* A worker counts each run once: what it has still to look at is not in   *)
(* its map, and the map adds up; a key it is about to propose is a gap.    *)
TotalsOK ==
  \A w \in Workers :
    /\ \A k \in Keys : /\ AddsUp(count[w][k], k[2], runIDs[w][k])
                       /\ runIDs[w][k] \cap scan[w] = {}
    /\ \A k \in gap[w] : <<Org(w), k[1], k[2]>> \in Gaps \/ count[w][k] > FallbackCount

SumInv == IndInv /\ TotalsOK /\ EvidenceAddsUp

(***************************************************************************)
(* What a comment of the code promises and the code does not keep.         *)
(***************************************************************************)

(* DetectDenialPatterns: "If a tool is denied more than threshold times in *)
(* the window, it returns a DenialPattern".  The code returns one from     *)
(* threshold denials on.                                                   *)
AboveThreshold == \A i \in DOMAIN proposals : proposals[i].count > Threshold
=============================================================================
