----------------------------- MODULE TraceStore -----------------------------
(***************************************************************************)
(* The run index (Postgres table `runs`) and the trace objects (S3 bucket) *)
(* of the control plane, and everything that writes them concurrently: the *)
(* upload, delete and download handlers of internal/api/traces.go and the  *)
(* retention workers of internal/retention, one per replica.               *)
(*                                                                         *)
(* No transaction spans the two stores, so a handler is split at each call *)
(* to one of them.  A call can be answered, can fail without effect, or    *)
(* can take effect and lose its answer; a client can disconnect, which     *)
(* cancels r.Context() and makes every later call of that handler fail;    *)
(* and the process can crash between two calls.  Each request is served    *)
(* once: Reqs bounds how many there are.                                   *)
(***************************************************************************)
EXTENDS Naturals, FiniteSets

CONSTANTS
  Orgs, Agents, Runs,  \* org ids; agent names and run ids found in traces
  Traces,              \* trace bodies (and identity headers), as uploaded
  AgentOf, RunOf,      \* what the handler reads from them
  Refused,             \* the traces ParseAndVerify or the run id check rejects
  NoTrace,             \* the body of a request that carries none
  Registered,          \* <<org, agent>> pairs with a row in `agents`
  Reqs, Workers,       \* HTTP requests; retention workers
  TTL, MaxTime,        \* retention period; bound of the clock
  BatchSize,           \* retention.Config.BatchSize
  Faults               \* which of FaultKinds may happen

FaultKinds == {"db", "s3", "cancel", "crash"}

ASSUME TraceStoreAssumption ==
  /\ AgentOf \in [Traces -> Agents]
  /\ RunOf \in [Traces -> Runs]
  /\ Refused \subseteq Traces
  /\ NoTrace \notin Traces
  /\ Registered \subseteq Orgs \X Agents
  /\ Reqs \cap Workers = {}
  /\ TTL \in Nat /\ MaxTime \in Nat
  /\ BatchSize \in Nat \ {0}
  /\ Faults \subseteq FaultKinds

VARIABLES
  now,        \* the clock
  rows,       \* table runs, primary key (org_id, id)
  objs,       \* the bucket
  lastSeen,   \* agents.last_seen
  audit,      \* requests that wrote an audit_events row
  call,       \* the request: operation, org, run, body
  pc,         \* where each handler is
  keys,       \* storage keys Postgres returned to a handler or a sweep, for S3
  cancelled,  \* requests whose client has gone away
  resp,       \* the response of each request
  got,        \* the object a download returned
  tainted     \* history: runs hit by an overlap or by an unrepaired fault

vars == <<now, rows, objs, lastSeen, audit, call, pc, keys, cancelled, resp,
          got, tainted>>

Ids     == Orgs \X Runs
Keys    == [org : Orgs, agent : Agents, run : Runs]
Rows    == [org : Orgs, run : Runs, trace : Traces, exp : Nat]
Objects == [key : Keys, org : Orgs, trace : Traces]
Procs   == Reqs \cup Workers

Calls == [op : {"upload"}, org : Orgs, run : Runs, trace : Traces]
         \cup [op : {"delete", "read"}, org : Orgs, run : Runs, trace : {NoTrace}]
PCs   == {"start", "dup", "put", "rollback", "touch", "s3del", "download", "done"}
Resps == {"none", "201", "200dup", "200", "204", "302", "400", "404", "500"}

(* The storage key <org>/<agent>/<run>.trtrace.gz. *)
StorageKey(o, t) == [org |-> o, agent |-> AgentOf[t], run |-> RunOf[t]]

(* Mutant of RowsOf: a run is looked up by its id alone. *)
RowsOfAnyOrg(o, r) == {x \in rows : x.run = r}

(* The row GetRun and DeleteRun find. *)
RowsOf(o, r) == {x \in rows : x.org = o /\ x.run = r}
ObjsOf(o, r) == {x \in objs : x.key.org = o /\ x.key.run = r}
IdOf(q)      == <<call[q].org, call[q].run>>
KeyIdsOf(p)  == {<<k.org, k.run>> : k \in keys[p]}

(* Uploads that own a row without (yet) owning its object, and handlers or *)
(* sweeps that removed a row and have yet to remove its object.            *)
Uploaders(o, r) == {q \in Reqs : pc[q] \in {"put", "rollback"} /\ IdOf(q) = <<o, r>>}
Deleters(o, r)  == {p \in Procs : /\ <<o, r>> \in KeyIdsOf(p)
                                  /\ p \in Reqs => pc[p] = "s3del"}
Busy(id)        == Uploaders(id[1], id[2]) \cup Deleters(id[1], id[2]) # {}

TypeOK ==
  /\ now \in 0..MaxTime
  /\ rows \subseteq Rows
  /\ objs \subseteq Objects
  /\ lastSeen \in [Registered -> Nat]
  /\ audit \subseteq Reqs
  /\ call \in [Reqs -> Calls]
  /\ pc \in [Reqs -> PCs]
  /\ keys \in [Procs -> SUBSET Keys]
  /\ cancelled \subseteq Reqs
  /\ resp \in [Reqs -> Resps]
  /\ got \in [Reqs -> SUBSET Objects]
  /\ tainted \subseteq Ids

Init ==
  /\ now = 0
  /\ rows = {} /\ objs = {}
  /\ lastSeen = [a \in Registered |-> 0]
  /\ audit = {}
  /\ call \in [Reqs -> {c \in Calls : c.op = "upload" => c.run = RunOf[c.trace]}]
  /\ pc = [q \in Reqs |-> "start"]
  /\ keys = [p \in Procs |-> {}]
  /\ cancelled = {}
  /\ resp = [q \in Reqs |-> "none"]
  /\ got = [q \in Reqs |-> {}]
  /\ tainted = {}

(***************************************************************************)
(* How a call to Postgres or S3 made for request q can end.                *)
(***************************************************************************)
Answered(q)     == q \notin cancelled
FailsClean(q, store) == store \in Faults \/ q \in cancelled
FailsAfter(q, store) == store \in Faults /\ q \notin cancelled

Goto(q, label)   == pc' = [pc EXCEPT ![q] = label]
Respond(q, code) == Goto(q, "done") /\ resp' = [resp EXCEPT ![q] = code]
TaintIf(b, id)   == tainted' = IF b THEN tainted \cup {id} ELSE tainted

(***************************************************************************)
(* POST /v1/traces: handleUploadTrace.                                     *)
(***************************************************************************)
At(q, op, label) == call[q].op = op /\ pc[q] = label

(* ParseAndVerify fails: 4xx, and an audit row when the chain was broken. *)
UploadRefused(q) ==
  /\ At(q, "upload", "start") /\ call[q].trace \in Refused
  /\ Respond(q, "400")
  /\ audit' \in {audit, audit \cup {q}}
  /\ UNCHANGED <<now, rows, objs, lastSeen, call, keys, cancelled, got, tainted>>

NewRow(q) == [org |-> call[q].org, run |-> call[q].run, trace |-> call[q].trace,
              exp |-> now + TTL]

(* Mutant of InsertRun: ON CONFLICT DO UPDATE. *)
InsertRunUpserts(q) ==
  /\ At(q, "upload", "start") /\ call[q].trace \notin Refused
  /\ rows' = (rows \ RowsOf(call[q].org, call[q].run)) \cup {NewRow(q)}
  /\ Goto(q, "put")
  /\ UNCHANGED <<now, objs, lastSeen, audit, call, keys, cancelled, resp, got, tainted>>

(* InsertRun: the primary key turns a second row into ErrRunAlreadyExists. *)
InsertRun(q) ==
  /\ At(q, "upload", "start") /\ call[q].trace \notin Refused
  /\ \/ /\ Answered(q)
        /\ RowsOf(call[q].org, call[q].run) = {}
        /\ rows' = rows \cup {NewRow(q)}
        /\ TaintIf(Busy(IdOf(q)), IdOf(q))
        /\ Goto(q, "put") /\ UNCHANGED resp
     \/ /\ Answered(q)
        /\ RowsOf(call[q].org, call[q].run) # {}
        /\ Goto(q, "dup") /\ UNCHANGED <<rows, resp, tainted>>
     \/ /\ FailsClean(q, "db")
        /\ Respond(q, "500") /\ UNCHANGED <<rows, tainted>>
     \/ /\ FailsAfter(q, "db")
        /\ RowsOf(call[q].org, call[q].run) = {}
        /\ rows' = rows \cup {NewRow(q)}
        /\ TaintIf(TRUE, IdOf(q))
        /\ Respond(q, "500")
  /\ UNCHANGED <<now, objs, lastSeen, audit, call, keys, cancelled, got>>

(* The existing row is looked up again to answer the re-upload; a row that *)
(* has gone in the meantime, or a failed lookup, is an index error.        *)
AnswerDuplicate(q) ==
  /\ pc[q] = "dup"
  /\ \/ /\ Answered(q) /\ RowsOf(call[q].org, call[q].run) # {}
        /\ Respond(q, "200dup")
     \/ /\ FailsClean(q, "db") \/ RowsOf(call[q].org, call[q].run) = {}
        /\ Respond(q, "500")
  /\ UNCHANGED <<now, rows, objs, lastSeen, audit, call, keys, cancelled, got, tainted>>

Stored(q) == [key |-> StorageKey(call[q].org, call[q].trace), org |-> call[q].org,
              trace |-> call[q].trace]
PutObject(q) == objs' = {x \in objs : x.key # Stored(q).key} \cup {Stored(q)}

(* s3.UploadBytes: any error sends the handler to the rollback. *)
UploadBytes(q) ==
  /\ pc[q] = "put"
  /\ \/ /\ Answered(q)
        /\ PutObject(q) /\ Goto(q, "touch") /\ UNCHANGED tainted
     \/ /\ FailsClean(q, "s3")
        /\ Goto(q, "rollback") /\ UNCHANGED <<objs, tainted>>
     \/ /\ FailsAfter(q, "s3")
        /\ PutObject(q) /\ Goto(q, "rollback") /\ TaintIf(TRUE, IdOf(q))
  /\ UNCHANGED <<now, rows, lastSeen, audit, call, keys, cancelled, resp, got>>

(* Mutant of RollBackInsert: the row stays when the upload fails. *)
RollBackNothing(q) ==
  /\ pc[q] = "rollback"
  /\ Respond(q, "500")
  /\ UNCHANGED <<now, rows, objs, lastSeen, audit, call, keys, cancelled, got, tainted>>

(* The rollback deletes by (org, run), with the request's own context. *)
RollBackInsert(q) ==
  /\ pc[q] = "rollback"
  /\ \/ /\ Answered(q)
        /\ rows' = rows \ RowsOf(call[q].org, call[q].run)
        /\ UNCHANGED tainted
     \/ /\ FailsClean(q, "db")
        /\ TaintIf(TRUE, IdOf(q)) /\ UNCHANGED rows
  /\ Respond(q, "500")
  /\ UNCHANGED <<now, objs, lastSeen, audit, call, keys, cancelled, got>>

(* UpdateAgentLastSeen and auditLog; a failure of either is only logged. *)
FinishUpload(q) ==
  LET a == <<call[q].org, AgentOf[call[q].trace]>>
  IN /\ pc[q] = "touch"
     /\ \/ /\ Answered(q) /\ a \in Registered
           /\ lastSeen' = [lastSeen EXCEPT ![a] = now]
        \/ /\ FailsClean(q, "db") \/ a \notin Registered
           /\ UNCHANGED lastSeen
     /\ \/ Answered(q) /\ audit' = audit \cup {q}
        \/ FailsClean(q, "db") /\ UNCHANGED audit
     /\ Respond(q, "201")
     /\ UNCHANGED <<now, rows, objs, call, keys, cancelled, got, tainted>>

(***************************************************************************)
(* DELETE /v1/traces/{runID}: handleDeleteTrace.                           *)
(***************************************************************************)
(* DeleteRun returns the storage key of the row it removed. *)
DeleteRun(q) ==
  LET gone == RowsOf(call[q].org, call[q].run)
  IN /\ At(q, "delete", "start")
     /\ \/ /\ Answered(q) /\ gone # {}
           /\ rows' = rows \ gone
           /\ keys' = [keys EXCEPT ![q] = {StorageKey(x.org, x.trace) : x \in gone}]
           /\ TaintIf(Busy(IdOf(q)), IdOf(q))
           /\ Goto(q, "s3del") /\ UNCHANGED resp
        \/ /\ Answered(q) /\ gone = {}
           /\ Respond(q, "404") /\ UNCHANGED <<rows, keys, tainted>>
        \/ /\ FailsClean(q, "db")
           /\ Respond(q, "500") /\ UNCHANGED <<rows, keys, tainted>>
        \/ /\ FailsAfter(q, "db") /\ gone # {}
           /\ rows' = rows \ gone
           /\ TaintIf(TRUE, IdOf(q))
           /\ Respond(q, "500") /\ UNCHANGED keys
     /\ UNCHANGED <<now, objs, lastSeen, audit, call, cancelled, got>>

RemoveObjects(ks) == objs' = {x \in objs : x.key \notin ks}

(* s3.Delete, then the audit row, then 204 whatever S3 answered. *)
DeleteObject(q) ==
  /\ pc[q] = "s3del"
  /\ \/ /\ Answered(q) \/ FailsAfter(q, "s3")
        /\ RemoveObjects(keys[q]) /\ UNCHANGED tainted
     \/ /\ FailsClean(q, "s3")
        /\ TaintIf(TRUE, IdOf(q)) /\ UNCHANGED objs
  /\ keys' = [keys EXCEPT ![q] = {}]
  /\ \/ Answered(q) /\ audit' = audit \cup {q}
     \/ FailsClean(q, "db") /\ UNCHANGED audit
  /\ Respond(q, "204")
  /\ UNCHANGED <<now, rows, lastSeen, call, cancelled, got>>

(***************************************************************************)
(* GET /v1/traces/{runID}/events: handleGetTraceEvents.                    *)
(***************************************************************************)
(* The storage key is read from the row and used later: in a redirect to a *)
(* presigned URL or, with ?inline=1, by this handler.  A database error is *)
(* answered as a missing run.                                              *)
LookupForDownload(q) ==
  LET found == RowsOf(call[q].org, call[q].run)
  IN /\ At(q, "read", "start")
     /\ \/ /\ Answered(q) /\ found # {}
           /\ \/ /\ Goto(q, "download") /\ UNCHANGED resp
                 /\ keys' = [keys EXCEPT ![q] = {StorageKey(x.org, x.trace) : x \in found}]
              \/ Respond(q, "302") /\ UNCHANGED keys
              \/ FailsClean(q, "s3") /\ Respond(q, "500") /\ UNCHANGED keys
        \/ /\ FailsClean(q, "db") \/ found = {}
           /\ Respond(q, "404") /\ UNCHANGED keys
     /\ UNCHANGED <<now, rows, objs, lastSeen, audit, call, cancelled, got, tainted>>

Download(q) ==
  LET found == {x \in objs : x.key \in keys[q]}
  IN /\ pc[q] = "download"
     /\ \/ /\ Answered(q) /\ found # {}
           /\ got' = [got EXCEPT ![q] = found]
           /\ Respond(q, "200")
        \/ /\ FailsClean(q, "s3") \/ found = {}
           /\ Respond(q, "500") /\ UNCHANGED got
     /\ keys' = [keys EXCEPT ![q] = {}]
     /\ UNCHANGED <<now, rows, objs, lastSeen, audit, call, cancelled, tainted>>

(***************************************************************************)
(* The retention worker: one sweep is ReapExpiredRuns and then one         *)
(* goroutine per returned row that deletes its object.                     *)
(***************************************************************************)
Expired(x) == x.exp < now

(* Mutant of Candidates: LIMIT before the test of expires_at, and the      *)
(* newest rows first: fresh rows keep the expired ones out of the batch.   *)
CandidatesNewest ==
  LET batch == {S \in SUBSET rows :
                  /\ Cardinality(S) = IF Cardinality(rows) < BatchSize
                                      THEN Cardinality(rows) ELSE BatchSize
                  /\ \A x \in S, y \in rows \ S : x.exp >= y.exp}
  IN {{x \in S : Expired(x)} : S \in batch}

(* The inner SELECT: the oldest BatchSize expired rows. *)
Candidates ==
  LET expired == {x \in rows : Expired(x)}
  IN {S \in SUBSET expired :
        /\ Cardinality(S) = IF Cardinality(expired) < BatchSize
                            THEN Cardinality(expired) ELSE BatchSize
        /\ \A x \in S, y \in expired \ S : x.exp <= y.exp}

(* The outer DELETE: WHERE id IN (...), the id alone, of whatever org. *)
Reaped(S) == {x \in rows : \E y \in S : y.run = x.run}

ReapIds(gone) == {<<x.org, x.run>> : x \in gone}

ReapExpiredRuns(w) ==
  /\ keys[w] = {}
  /\ \E S \in Candidates :
       LET gone == Reaped(S)
       IN /\ gone # {}
          /\ rows' = rows \ gone
          /\ \/ /\ keys' = [keys EXCEPT ![w] = {StorageKey(x.org, x.trace) : x \in gone}]
                /\ tainted' = tainted \cup {id \in ReapIds(gone) : Busy(id)}
             \/ /\ "db" \in Faults            \* committed, but the answer is lost
                /\ tainted' = tainted \cup ReapIds(gone)
                /\ UNCHANGED keys
  /\ UNCHANGED <<now, objs, lastSeen, audit, call, pc, cancelled, resp, got>>

SweepObject(w) ==
  \E k \in keys[w] :
    /\ keys' = [keys EXCEPT ![w] = @ \ {k}]
    /\ \/ RemoveObjects({k}) /\ UNCHANGED tainted
       \/ /\ "s3" \in Faults
          /\ TaintIf(TRUE, <<k.org, k.run>>) /\ UNCHANGED objs
    /\ UNCHANGED <<now, rows, lastSeen, audit, call, pc, cancelled, resp, got>>

(***************************************************************************)
(* Time, clients and crashes.                                              *)
(***************************************************************************)
Tick ==
  /\ now < MaxTime
  /\ now' = now + 1
  /\ UNCHANGED <<rows, objs, lastSeen, audit, call, pc, keys, cancelled, resp, got,
                 tainted>>

Disconnect(q) ==
  /\ "cancel" \in Faults
  /\ pc[q] # "done" /\ q \notin cancelled
  /\ cancelled' = cancelled \cup {q}
  /\ UNCHANGED <<now, rows, objs, lastSeen, audit, call, pc, keys, resp, got, tainted>>

(* The process dies with the handler in it: no answer, nothing undone. *)
CrashHandler(q) ==
  /\ "crash" \in Faults
  /\ pc[q] \notin {"start", "done"}
  /\ Goto(q, "done")
  /\ keys' = [keys EXCEPT ![q] = {}]
  /\ TaintIf(pc[q] \in {"put", "rollback", "s3del"}, IdOf(q))
  /\ UNCHANGED <<now, rows, objs, lastSeen, audit, call, cancelled, resp, got>>

CrashSweep(w) ==
  /\ "crash" \in Faults
  /\ keys[w] # {}
  /\ keys' = [keys EXCEPT ![w] = {}]
  /\ tainted' = tainted \cup {<<k.org, k.run>> : k \in keys[w]}
  /\ UNCHANGED <<now, rows, objs, lastSeen, audit, call, pc, cancelled, resp, got>>

Handler(q) ==
  \/ UploadRefused(q) \/ InsertRun(q) \/ AnswerDuplicate(q) \/ UploadBytes(q)
  \/ RollBackInsert(q) \/ FinishUpload(q)
  \/ DeleteRun(q) \/ DeleteObject(q)
  \/ LookupForDownload(q) \/ Download(q)

Next ==
  \/ \E q \in Reqs : Handler(q) \/ Disconnect(q) \/ CrashHandler(q)
  \/ \E w \in Workers : ReapExpiredRuns(w) \/ SweepObject(w) \/ CrashSweep(w)
  \/ Tick

Spec == Init /\ [][Next]_vars

(* The ticker fires for ever and every S3 call returns; nothing is assumed *)
(* of clients, of the clock or of the handlers.                            *)
Fairness == \A w \in Workers : WF_vars(ReapExpiredRuns(w)) /\ WF_vars(SweepObject(w))

FairSpec == Spec /\ Fairness

(***************************************************************************)
(* Properties.                                                             *)
(***************************************************************************)

(* The state one run is in as long as no fault was left unrepaired on it   *)
(* and no two operations overlapped on it: an upload owns the row and      *)
(* there is no object before the PUT; a delete or a sweep has removed the  *)
(* row and owns what is left of the object; otherwise there is neither row *)
(* nor object, or a row and, under its storage key, the very trace the row *)
(* was computed from.                                                      *)
Consistent(o, r) ==
  LET up  == Uploaders(o, r)
      del == Deleters(o, r)
  IN /\ \A p, q \in up \cup del : p = q
     /\ \A q \in up :
          /\ \E x \in RowsOf(o, r) : x.trace = call[q].trace
          /\ ObjsOf(o, r) = {}
     /\ \A p \in del :
          /\ RowsOf(o, r) = {}
          /\ \A x \in ObjsOf(o, r) : x.key \in keys[p]
     /\ up \cup del = {} =>
          \/ RowsOf(o, r) = {} /\ ObjsOf(o, r) = {}
          \/ \E x \in RowsOf(o, r) :
               ObjsOf(o, r) = {[key |-> StorageKey(o, x.trace), org |-> o, trace |-> x.trace]}

(* handleUploadTrace inserts before it uploads and rolls back when the     *)
(* upload fails, handleDeleteTrace and the retention sweep delete the row  *)
(* before the object: index and bucket agree on every run on which no two  *)
(* operations overlapped and no failure was left unrepaired.  Re-uploads   *)
(* of an existing run, refused uploads, failed PUTs that are rolled back   *)
(* and a sweep of other runs are no excuse.                                *)
CleanRunsConsistent == \A o \in Orgs, r \in Runs : <<o, r>> \notin tainted => Consistent(o, r)

(* Tenant isolation of the bucket: what the download handler streams to an *)
(* org is a trace of the run it asked for that this same org uploaded.     *)
ServedOwnTrace ==
  \A q \in Reqs : \A x \in got[q] : x.org = call[q].org /\ RunOf[x.trace] = call[q].run

(* "Idempotent": re-uploading a run replaces neither its row (and so its   *)
(* expiry) nor its stored trace.                                           *)
WriteOnce ==
  [][/\ \A x \in rows, y \in rows' : x.org = y.org /\ x.run = y.run => x = y
     /\ \A x \in objs, y \in objs' :
          x.key = y.key /\ <<x.key.org, x.key.run>> \notin tainted' => x = y]_vars

(* Retention: a row whose expires_at has passed does not stay, whatever    *)
(* the number of expired rows, batches and failed S3 deletes.              *)
ExpiredRowsReaped ==
  \A o \in Orgs, r \in Runs :
    (\E x \in RowsOf(o, r) : Expired(x)) ~> ~(\E x \in RowsOf(o, r) : Expired(x))

(***************************************************************************)
(* The inductive invariant behind these properties (TraceStore_proofs).    *)
(***************************************************************************)

(* The primary key (org_id, id): a run has at most one row. *)
OneRowPerRun == \A x, y \in rows : x.org = y.org /\ x.run = y.run => x = y

(* Each handler is in a step of its own operation, and holds storage keys, *)
(* all of the run it was called for, only between its two stores.          *)
HandlersOK ==
  \A q \in Reqs :
    /\ call[q].op = "upload" => call[q].run = RunOf[call[q].trace]
    /\ pc[q] \in {"dup", "put", "rollback", "touch"} => call[q].op = "upload"
    /\ pc[q] \notin {"s3del", "download"} => keys[q] = {}
    /\ pc[q] = "s3del" => keys[q] # {}
    /\ \A k \in keys[q] : k.org = call[q].org /\ k.run = call[q].run

(* Rows and objects are filed under the org that uploaded them and the run *)
(* named in the trace, one object per key.                                 *)
FiledByOwner ==
  /\ \A x \in rows : x.run = RunOf[x.trace]
  /\ \A x \in objs : x.org = x.key.org /\ RunOf[x.trace] = x.key.run
  /\ \A x, y \in objs : x.key = y.key => x = y

IndInv == TypeOK /\ OneRowPerRun /\ HandlersOK /\ FiledByOwner /\ ServedOwnTrace
          /\ CleanRunsConsistent

(***************************************************************************)
(* What a comment of the code promises and the code does not keep.         *)
(***************************************************************************)

(* ReapExpiredRuns "deletes up to `limit` runs whose expires_at is older   *)
(* than `before`": a row that leaves the table in a sweep had expired.     *)
ReapOnlyExpired ==
  [][(\E w \in Workers : ReapExpiredRuns(w)) => \A x \in rows \ rows' : Expired(x)]_vars
=============================================================================
