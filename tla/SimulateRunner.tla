--------------------------- MODULE SimulateRunner ---------------------------
(***************************************************************************)
(* The policy simulator of one API server (internal/simulate/runner.go and *)
(* internal/api/simulate.go): a map of jobs in memory, a goroutine per job *)
(* and, while the job fetches traces, a goroutine per run, of which at     *)
(* most Fanout download at a time.  Runs are uploaded and deleted under    *)
(* it, S3 and Postgres fail, the job's deadline passes at any moment and   *)
(* the process may be restarted, which forgets everything.                 *)
(***************************************************************************)
EXTENDS PolicyEval

CONSTANTS
  Jobs,                   \* job ids
  Requests,               \* what clients ask: org, agent, window, valid, policy
  Orgs, Agents, Runs,
  OrgOf, AgentOf,         \* what the row of a run says
  Age,                    \* days since it started
  Trace,                  \* the action events of its trace, in order
  MaxRunsPerSim, Fanout,  \* the constants 200 and 4 of the runner
  Windows,                \* 1, 7 and 30
  Stored,                 \* runs that are stored at the start
  MaxFaults               \* bound on faults and restarts

(* An event of a run is its position in the trace. *)
Events == Runs \X Nat
Event(e) == Trace[e[1]][e[2]]

ASSUME SimulateAssumption ==
  /\ IsFiniteSet(Runs)
  /\ \A q \in Requests : q.org \in Orgs /\ q.agent \in Agents /\ q.valid \in BOOLEAN
  /\ OrgOf \in [Runs -> Orgs] /\ AgentOf \in [Runs -> Agents]
  /\ Age \in [Runs -> Nat] /\ Windows \subseteq Nat
  /\ DOMAIN Trace = Runs
  /\ \A r \in Runs : Len(Trace[r]) \in Nat /\ DOMAIN Trace[r] = 1..Len(Trace[r])
  /\ \A r \in Runs : \A i \in DOMAIN Trace[r] : Rank[Trace[r][i].target] \in Nat
  /\ \A q \in Requests : LET p == q.policy IN
       /\ Len(p.rules) \in Nat /\ DOMAIN p.rules = 1..Len(p.rules)
       /\ p.maxActions \in Int /\ p.maxDuration \in Int
  /\ MaxRunsPerSim \in Nat /\ Fanout \in Nat \ {0} /\ MaxSamples \in Nat
  /\ Stored \subseteq Runs /\ MaxFaults \in Nat

VARIABLES
  phase,    \* how much of a run is stored: its row, its object, both
  req,      \* the request of each accepted job
  status,   \* Job.Status of the jobs in the map
  result,   \* Job.Result, as a set of at most one
  pc,       \* where the goroutine of a job is
  expired,  \* jobs whose context has reached its deadline
  listed,   \* runs a job has listed
  gor,      \* where the goroutine of each listed run is
  sem,      \* slots of the semaphore in use
  resCh,    \* buffered results: events of one run, or its error
  out,      \* events collected
  firstErr, \* jobs that collected an error
  faults    \* faults so far

jobvars == <<req, status, result, pc, expired, listed, gor, sem, resCh, out, firstErr>>
vars    == <<phase, jobvars, faults>>

HasRow(r)    == phase[r] \in {"row", "full"}
HasObject(r) == phase[r] \in {"full", "object"}

Statuses == {"none", "pending", "running", "done", "error"}
PCs      == {"none", "start", "list", "collect", "over"}
GorPCs   == {"none", "wait", "download", "extract", "sent", "failed"}
Final    == {"done", "error"}

(* The pieces of a trace a goroutine can send: a prefix, or an error. *)
Piece(r, n) == [i \in 1..n |-> <<r, i>>]
Message == [run : Runs, n : Nat, err : BOOLEAN]

TypeOK ==
  /\ phase \in [Runs -> {"new", "row", "full", "object", "gone"}]
  /\ DOMAIN req \subseteq Jobs /\ \A j \in DOMAIN req : req[j] \in Requests
  /\ status \in [Jobs -> Statuses]
  /\ pc \in [Jobs -> PCs]
  /\ expired \subseteq Jobs
  /\ listed \in [Jobs -> SUBSET Runs]
  /\ gor \in [Jobs -> [Runs -> GorPCs]]
  /\ sem \in [Jobs -> 0..Fanout]
  /\ resCh \in [Jobs -> Seq(Message)]
  /\ out \in [Jobs -> Seq(Events)]
  /\ firstErr \subseteq Jobs
  /\ faults \in 0..MaxFaults
  /\ DOMAIN result = Jobs /\ \A j \in Jobs : status[j] = "done" <=> result[j] # {}

Init ==
  /\ phase = [r \in Runs |-> IF r \in Stored THEN "full" ELSE "new"]
  /\ req = <<>>
  /\ status = [j \in Jobs |-> "none"]
  /\ result = [j \in Jobs |-> {}]
  /\ pc = [j \in Jobs |-> "none"]
  /\ expired = {}
  /\ listed = [j \in Jobs |-> {}]
  /\ gor = [j \in Jobs |-> [r \in Runs |-> "none"]]
  /\ sem = [j \in Jobs |-> 0]
  /\ resCh = [j \in Jobs |-> <<>>]
  /\ out = [j \in Jobs |-> <<>>]
  /\ firstErr = {}
  /\ faults = 0

Fault   == faults < MaxFaults /\ faults' = faults + 1
NoFault == UNCHANGED faults

(* The trace store: rows come before objects and go before them. *)
Store(r, from, to) ==
  /\ phase[r] = from /\ phase' = [phase EXCEPT ![r] = to]
  /\ UNCHANGED <<jobvars, faults>>

Upload(r) == Store(r, "new", "row") \/ Store(r, "row", "full")
Remove(r) == \/ Store(r, "row", "gone") \/ Store(r, "full", "object")
             \/ Store(r, "object", "gone")

(* SubmitJob; a request that does not validate is a 400 and leaves no job. *)
SubmitJob(j, q) ==
  /\ j \notin DOMAIN req
  /\ q.valid /\ q.window \in Windows
  /\ req' = [x \in DOMAIN req \cup {j} |-> IF x = j THEN q ELSE req[x]]
  /\ status' = [status EXCEPT ![j] = "pending"]
  /\ pc' = [pc EXCEPT ![j] = "start"]
  /\ UNCHANGED <<phase, result, expired, listed, gor, sem, resCh, out, firstErr, faults>>

(* run: the status, then the context with its deadline. *)
Start(j) ==
  /\ pc[j] = "start"
  /\ status' = [status EXCEPT ![j] = "running"]
  /\ pc' = [pc EXCEPT ![j] = "list"]
  /\ UNCHANGED <<phase, req, result, expired, listed, gor, sem, resCh, out, firstErr,
                 faults>>

(* The deadline of jobTimeout passes. *)
Timeout(j) ==
  /\ pc[j] \in {"list", "collect"} /\ j \notin expired
  /\ expired' = expired \cup {j}
  /\ UNCHANGED <<phase, req, status, result, pc, listed, gor, sem, resCh, out, firstErr,
                 faults>>

finishError(j) ==
  /\ status' = [status EXCEPT ![j] = "error"]
  /\ pc' = [pc EXCEPT ![j] = "over"]
  /\ UNCHANGED result

finishDone(j, res) ==
  /\ status' = [status EXCEPT ![j] = "done"]
  /\ result' = [result EXCEPT ![j] = {res}]
  /\ pc' = [pc EXCEPT ![j] = "over"]

InWindow(j) ==
  {r \in Runs : /\ HasRow(r) /\ OrgOf[r] = req[j].org /\ AgentOf[r] = req[j].agent
                /\ Age[r] <= req[j].window}

(* The newest rows, at most n. *)
Listings(j, n) ==
  {S \in SUBSET InWindow(j) :
     /\ Cardinality(S) = (IF Cardinality(InWindow(j)) < n
                          THEN Cardinality(InWindow(j)) ELSE n)
     /\ \A r \in S, s \in InWindow(j) \ S : Age[r] <= Age[s]}

NoDiff == [newlyDenied |-> 0, newlyAllowed |-> 0, unchanged |-> 0,
           totalEvaluated |-> 0, samples |-> <<>>]
Scanned(diff, n) == [diff |-> diff, runsScanned |-> n]

(* ListRunsForSimulate fails, or the deadline has passed. *)
ListFails(j) ==
  /\ pc[j] = "list" /\ ((j \in expired /\ NoFault) \/ Fault)
  /\ finishError(j)
  /\ UNCHANGED <<phase, req, expired, listed, gor, sem, resCh, out, firstErr>>

(* fetchEvents starts a goroutine for each run. *)
FanOut(j, S) ==
  /\ listed' = [listed EXCEPT ![j] = S]
  /\ gor' = [gor EXCEPT ![j] = [r \in Runs |-> IF r \in S THEN "wait" ELSE "none"]]
  /\ pc' = [pc EXCEPT ![j] = "collect"]
  /\ UNCHANGED <<status, result>>

(* ListRunsForSimulate.  Rows that stop coming, by a fault or the          *)
(* deadline, are not noticed: rows.Err is not asked for.                   *)
ListRuns(j) ==
  /\ pc[j] = "list"
  /\ \E n \in 0..MaxRunsPerSim : \E S \in Listings(j, n) :
       /\ IF j \in expired \/ n = MaxRunsPerSim THEN NoFault ELSE Fault
       /\ IF S = {}
          THEN finishDone(j, Scanned(NoDiff, 0)) /\ UNCHANGED <<listed, gor>>
          ELSE FanOut(j, S)
  /\ UNCHANGED <<phase, req, expired, sem, resCh, out, firstErr>>

(* sem <- struct{}{}: the goroutine waits for one of Fanout slots. *)
Acquire(j, r) ==
  /\ gor[j][r] = "wait" /\ sem[j] < Fanout
  /\ sem' = [sem EXCEPT ![j] = @ + 1]
  /\ gor' = [gor EXCEPT ![j][r] = "download"]
  /\ UNCHANGED <<phase, req, status, result, pc, expired, listed, resCh, out, firstErr,
                 faults>>

(* Mutant of Send: the slot is given back on success only. *)
SendKeepsSlot(j, r, msg) ==
  /\ resCh' = [resCh EXCEPT ![j] = Append(@, msg)]
  /\ gor' = [gor EXCEPT ![j][r] = IF msg.err THEN "failed" ELSE "sent"]
  /\ sem' = IF msg.err THEN sem ELSE [sem EXCEPT ![j] = @ - 1]

(* The result is buffered and the deferred calls run. *)
Send(j, r, msg) ==
  /\ resCh' = [resCh EXCEPT ![j] = Append(@, msg)]
  /\ gor' = [gor EXCEPT ![j][r] = IF msg.err THEN "failed" ELSE "sent"]
  /\ sem' = [sem EXCEPT ![j] = @ - 1]

Failed(r) == [run |-> r, n |-> 0, err |-> TRUE]

(* s3.Download: it fails when there is no object, when S3 fails and when   *)
(* the deadline has passed.                                                *)
Download(j, r) ==
  /\ gor[j][r] = "download"
  /\ \/ /\ HasObject(r) /\ j \notin expired /\ NoFault
        /\ gor' = [gor EXCEPT ![j][r] = "extract"]
        /\ UNCHANGED <<sem, resCh>>
     \/ /\ IF HasObject(r) /\ j \notin expired THEN Fault ELSE NoFault
        /\ Send(j, r, Failed(r))
  /\ UNCHANGED <<phase, req, status, result, pc, expired, listed, out, firstErr>>

(* ExtractActionEvents reads the body to its end, or up to where reading   *)
(* fails; what was read before an error counts, unless it is nothing.      *)
Extract(j, r) ==
  /\ gor[j][r] = "extract"
  /\ \/ /\ j \notin expired /\ NoFault
        /\ Send(j, r, [run |-> r, n |-> Len(Trace[r]), err |-> FALSE])
     \/ /\ IF j \in expired THEN NoFault ELSE Fault
        /\ \E n \in 0..Len(Trace[r]) :
             Send(j, r, [run |-> r, n |-> n, err |-> n = 0])
  /\ UNCHANGED <<phase, req, status, result, pc, expired, listed, out, firstErr>>

(* Mutant of Collect: an error discards what was collected. *)
CollectOrDiscard(j) ==
  LET msg == Head(resCh[j])
  IN /\ pc[j] = "collect" /\ resCh[j] # <<>> /\ NoFault
     /\ resCh' = [resCh EXCEPT ![j] = Tail(@)]
     /\ out' = [out EXCEPT ![j] = IF msg.err THEN <<>> ELSE @ \o Piece(msg.run, msg.n)]
     /\ firstErr' = IF msg.err THEN firstErr \cup {j} ELSE firstErr
     /\ UNCHANGED <<phase, req, status, result, pc, expired, listed, gor, sem>>

(* for r := range resCh *)
Collect(j) ==
  LET msg == Head(resCh[j])
  IN /\ pc[j] = "collect" /\ resCh[j] # <<>> /\ NoFault
     /\ resCh' = [resCh EXCEPT ![j] = Tail(@)]
     /\ out' = [out EXCEPT ![j] = IF msg.err THEN @ ELSE @ \o Piece(msg.run, msg.n)]
     /\ firstErr' = IF msg.err THEN firstErr \cup {j} ELSE firstErr
     /\ UNCHANGED <<phase, req, status, result, pc, expired, listed, gor, sem>>

(* wg.Wait, close(resCh). *)
Closed(j) == \A r \in listed[j] : gor[j][r] \in {"sent", "failed"}

(* Mutant of FetchFailed: one failed trace fails the job. *)
FetchFailedAny(j) == j \in firstErr

FetchFailed(j) == out[j] = <<>> /\ j \in firstErr

(* The channel is closed and empty: an error, or the simulation. *)
Finish(j) ==
  /\ pc[j] = "collect" /\ Closed(j) /\ resCh[j] = <<>> /\ NoFault
  /\ \/ FetchFailed(j) /\ finishError(j)
     \/ ~FetchFailed(j) /\ finishDone(j, Scanned(
          Simulate(req[j].policy, [i \in DOMAIN out[j] |-> Event(out[j][i])]),
          Cardinality(listed[j])))
  /\ UNCHANGED <<phase, req, expired, listed, gor, sem, resCh, out, firstErr>>

(* The process is restarted: map and goroutines are gone. *)
Restart ==
  /\ \E j \in Jobs : status[j] # "none"
  /\ Fault
  /\ status' = [j \in Jobs |-> "none"]
  /\ result' = [j \in Jobs |-> {}]
  /\ pc' = [j \in Jobs |-> "none"]
  /\ expired' = {}
  /\ listed' = [j \in Jobs |-> {}]
  /\ gor' = [j \in Jobs |-> [r \in Runs |-> "none"]]
  /\ sem' = [j \in Jobs |-> 0]
  /\ resCh' = [j \in Jobs |-> <<>>]
  /\ out' = [j \in Jobs |-> <<>>]
  /\ firstErr' = {}
  /\ UNCHANGED <<phase, req>>

JobStep(j) == \/ Start(j) \/ ListFails(j) \/ ListRuns(j) \/ Collect(j) \/ Finish(j)
RunStep(j, r) == Acquire(j, r) \/ Download(j, r) \/ Extract(j, r)

Next ==
  \/ \E r \in Runs : Upload(r) \/ Remove(r)
  \/ \E j \in Jobs, q \in Requests : SubmitJob(j, q)
  \/ \E j \in Jobs : JobStep(j) \/ Timeout(j)
  \/ \E j \in Jobs, r \in Runs : RunStep(j, r)
  \/ Restart

Spec == Init /\ [][Next]_vars

(* Goroutines that can run do run, and calls return. *)
FairSpec == /\ Spec
            /\ \A j \in Jobs : WF_vars(JobStep(j))
            /\ \A j \in Jobs, r \in Runs : WF_vars(RunStep(j, r))

-----------------------------------------------------------------------------
(***************************************************************************)
(* Properties.                                                             *)
(***************************************************************************)

Got(j) == {out[j][i] : i \in DOMAIN out[j]}

OwnRun(j, r) == /\ OrgOf[r] = req[j].org /\ AgentOf[r] = req[j].agent
                /\ Age[r] <= req[j].window

(* A simulation sees the runs of its own org, agent and window only,       *)
(* however many jobs of other orgs run beside it: what is collected, or    *)
(* waits in the channel, comes from runs the job's own query listed.       *)
EventsOfOwnRuns ==
  \A j \in Jobs :
    /\ \A i \in DOMAIN out[j] : out[j][i][1] \in listed[j]
    /\ \A i \in DOMAIN resCh[j] : resCh[j][i].run \in listed[j]
    /\ \A r \in listed[j] : OwnRun(j, r)

(* fetchEvents: whatever the order in which goroutines finish and fail, no *)
(* event is collected twice and each run from its beginning; and while no  *)
(* body breaks off, the runs whose traces were fetched are there to the    *)
(* last event, whichever others could not be.                              *)
EventsWhole ==
  \A j \in Jobs :
    /\ Cardinality(Got(j)) = Len(out[j])
    /\ \A e \in Got(j) : \A i \in 1..e[2] : <<e[1], i>> \in Got(j)
    /\ Cardinality(listed[j]) <= MaxRunsPerSim
    /\ status[j] \in Final /\ j \notin expired /\ faults = 0 =>
         \A r \in Runs : gor[j][r] = "sent" =>
           \A i \in DOMAIN Trace[r] : <<r, i>> \in Got(j)

(* Would the candidate deny the event, in any mode?  Some rule decides it  *)
(* that no earlier rule precedes, or the default does.                     *)
WouldDeny(p, e) ==
  LET Hit(n) == Matches(e, p.rules[n])
      First(n) == Hit(n) /\ \A m \in 1..(n - 1) : ~Hit(m)
  IN \/ \E n \in DOMAIN p.rules : First(n) /\ p.rules[n].action = "deny"
     \/ (\A n \in DOMAIN p.rules : ~Hit(n)) /\ p.default = "deny"

WasDenied(e) == e.oldAuth \in {"deny", "audit_deny", "would_deny"}

ToDeny(j)  == {e \in Got(j) : ~WasDenied(Event(e)) /\ WouldDeny(req[j].policy, Event(e))}
ToAllow(j) == {e \in Got(j) : WasDenied(Event(e)) /\ ~WouldDeny(req[j].policy, Event(e))}
Least(m, n) == IF m < n THEN m ELSE n

Counted(j, d) ==
  /\ d.newlyDenied = Cardinality(ToDeny(j)) /\ d.newlyAllowed = Cardinality(ToAllow(j))
  /\ d.newlyDenied + d.newlyAllowed + d.unchanged = d.totalEvaluated
  /\ d.totalEvaluated = Len(out[j])

Shown(j, d) ==
  LET k == Least(MaxSamples, Cardinality(ToDeny(j)))
      rank(n) == Rank[d.samples[n].target]
  IN /\ Len(d.samples) = k + Least(MaxSamples, Cardinality(ToAllow(j)))
     /\ \A n \in DOMAIN d.samples :
          \E e \in (IF n <= k THEN ToDeny(j) ELSE ToAllow(j)) : d.samples[n] = Event(e)
     /\ \A n \in 1..(Len(d.samples) - 1) : n = k \/ rank(n) <= rank(n + 1)

(* A finished job counts exactly the verdicts its candidate turns round,   *)
(* in either direction and in every mode, and shows as many of them as the *)
(* cap allows for each direction, denials first and by target.             *)
ResultExact ==
  \A j \in Jobs : \A res \in result[j] : Counted(j, res.diff) /\ Shown(j, res.diff)

(* A missing or unreadable trace does not fail a job that read another     *)
(* one's events, and a job that lists something and still fails has met an *)
(* error.                                                                  *)
FailsSoft ==
  \A j \in Jobs : status[j] = "error" =>
    out[j] = <<>> /\ (listed[j] = {} \/ j \in firstErr)

InFlight(j) == {r \in Runs : gor[j][r] \in {"download", "extract"}}

(* The semaphore counts the goroutines that hold a body or wait for one,   *)
(* on every path through them, and so bounds them.                         *)
SlotsAccounted ==
  \A j \in Jobs : sem[j] = Cardinality(InFlight(j)) /\ Cardinality(InFlight(j)) <= Fanout

(* "pending -> running -> (done | error)": a poll never sees a job go      *)
(* back, nor another answer once there was one, until a restart forgets it.*)
Lifecycle ==
  [][\A j \in Jobs :
       \/ status'[j] = status[j] /\ result'[j] = result[j]
       \/ <<status[j], status'[j]>> \in {<<"none", "pending">>, <<"pending", "running">>}
       \/ status[j] = "running" /\ status'[j] \in Final
       \/ status' = [x \in Jobs |-> "none"]]_vars

(* Every job ends, also when traces are missing, S3 fails or the deadline  *)
(* passes, unless the process is restarted.                                *)
JobsFinish ==
  \A j \in Jobs : status[j] = "pending" ~> status[j] \in Final \cup {"none"}

-----------------------------------------------------------------------------
(* The status says where the goroutine of the job is, and until it has     *)
(* listed its runs the job has touched nothing.                            *)
StatusOK ==
  \A j \in Jobs :
    /\ pc[j] = "none" <=> status[j] = "none"
    /\ pc[j] = "start" <=> status[j] = "pending"
    /\ pc[j] \in {"list", "collect"} <=> status[j] = "running"
    /\ pc[j] # "none" => j \in DOMAIN req
    /\ pc[j] \in {"none", "start", "list"} =>
         /\ listed[j] = {} /\ out[j] = <<>> /\ resCh[j] = <<>> /\ j \notin firstErr
         /\ gor[j] = [r \in Runs |-> "none"]
    /\ \A r \in Runs : gor[j][r] # "none" => r \in listed[j]

IndInv == TypeOK /\ StatusOK /\ EventsOfOwnRuns /\ SlotsAccounted /\ FailsSoft

(* A goroutine sends one message, of the kind it ends with, and its events *)
(* are collected from that message alone.                                  *)
InChannel(j, r) == \E i \in DOMAIN resCh[j] : resCh[j][i].run = r
Undisturbed(j)  == faults = 0 /\ j \notin expired
SentOnce ==
  \A j \in Jobs : \A i \in DOMAIN resCh[j] :
    LET m == resCh[j][i]
    IN /\ gor[j][m.run] = IF m.err THEN "failed" ELSE "sent"
       /\ \A e \in Got(j) : e[1] # m.run
       /\ \A k \in DOMAIN resCh[j] : resCh[j][k].run = m.run => k = i
       /\ m.n <= Len(Trace[m.run])
       /\ ~m.err /\ Undisturbed(j) => m.n = Len(Trace[m.run])
CollectedOK ==
  \A j \in Jobs :
    /\ \A e \in Got(j) : gor[j][e[1]] = "sent" /\ e[2] \in DOMAIN Trace[e[1]]
    /\ pc[j] = "over" => resCh[j] = <<>> /\ Closed(j)
    /\ Undisturbed(j) =>
         \A r \in Runs : gor[j][r] = "sent" =>
           InChannel(j, r) \/ \A i \in DOMAIN Trace[r] : <<r, i>> \in Got(j)

WholeInv == IndInv /\ SentOnce /\ CollectedOK /\ EventsWhole

=============================================================================
