# A TLA+ model of the Relic control plane

The Relic platform stores the traces that agent runtimes upload, indexes and
expires them, shows what agents do on a live feed, and distributes policies to
the agents. It is a Go API server (`cmd/relic-api`), run in several replicas
against one Postgres database and one S3 bucket, with a governance worker
(`cmd/relic-governance`) beside it. This directory models its
stateful core in TLA+, checks the models with TLC on small instances, and
proves their main properties with TLAPS for every instance.

`PROJECT.json` lists components, runs, mutants, theorems, hazards and, for each
definition, the source lines it models.

## Inventory

| Component | State | Operations | Hard behaviour | What makes it correct |
|---|---|---|---|---|
| Trace ingest, download, delete (`internal/api/traces.go`, `internal/storage`) | table `runs`, S3 bucket, `agents.last_seen`, `audit_events` | upload, re-upload, delete, download | no transaction spans Postgres and S3; calls fail before or after taking effect; clients disconnect; processes crash; requests overlap | row and object agree; re-uploads change nothing; an org only ever gets its own traces |
| Retention worker (`internal/retention`) | the batch of a sweep | reap rows, delete their objects | one worker per replica; races with uploads; batches; failing S3 | every expired row goes, and only those |
| Live feed, policy feed (`internal/livefeed`, `internal/policyfeed`) | subscriptions, bounded channels, listener goroutine, drop counter | publish, dispatch, subscribe, close, shut down | goroutines, full channels, closing twice, sending on a closed channel, a broken LISTEN connection | own org, own filter, publish order, no duplicates; drops counted; channels closed once; Close returns |
| Policy sets, labels, applied state (`internal/api/policy_sets.go`, `internal/api/agents.go`) | tables `policy_sets`, `agents`, `agent_labels` | save a set, set labels, register, update a policy, pull, report | multi-step saves and READ COMMITTED transactions race; notifications get lost | versions are in order; notified agents match; tenants are separate; the notified policy arrives |
| Policy evaluation (`internal/policy`) | none; an engine with a policy pointer and a ring buffer of tools that only runtimes use | evaluate, simulate (swap, record) | order of overlapping rules, modes, limits | the first match decides; the simulator counts what the rules decide |
| Governance worker, proposals (`internal/governance`, `internal/api/proposals.go`) | the map of one poll, table `proposals`, `audit_events` | poll, list, scan, classify, insert, decide | traces come and go between listing and reading; orgs that fail; restarts; polling repeats; concurrent decisions | evidence is the org's own and adds up; gaps are proposed in the end; decisions are audited |
| Simulation jobs (`internal/simulate`, `internal/api/simulate.go`) | job table in memory; per job a semaphore, a channel, a goroutine per run | submit, run, poll | goroutines that fail, a deadline, traces that vanish, partial listings, restarts, no eviction | own runs only, each event once; failures of single traces are soft; every job ends, in one final state |
| Trace parser, integrity chain, readers of stored traces (`internal/trace`, `internal/governance/detector.go`) | the summary being built, the lines kept, the previous MAC | parse, verify, extract events, count denials | lost, repeated, swapped, changed or foreign lines, broken streams, the limit of events, keys that are set or not | the summary is what the lines say; verified means sealed; the readers agree |
| Identity, sessions, API keys, OIDC (`internal/auth`, `internal/storage/identity.go`, `internal/api/middleware`, `identity_handlers.go`, `orgs.go`) | users, organizations, API keys, SCIM tokens, invitations, SSO secrets, sessions; the environment of each replica | bootstrap, onboard, sign up, provision, reset, log in, admit, create, revoke, save SSO | replicas that bootstrap together or have different peppers and keys; deaths in between; revocation between two steps of a request; audit rows that fail | one admin; accounts are kept; revoked is revoked; nobody acts on another org; what was done is audited |
| Migrations (`internal/migrate`) | the schema, `schema_migrations` | `migrate up` | no transaction or lock; crash between apply and record; two runs at once; changing configurations | what is recorded is applied, in order; races leave nothing half done |
| Rate limiter, CSRF (`internal/api/middleware`) | buckets per key | allow, evict | time, eviction | no more than the configured rate |
| Start and shutdown (`cmd/relic-api/main.go`) | server, pool, hubs, workers, deferred closes | start, serve, drain, close | a pool that hubs, handlers, jobs and workers share; streams that stay open; the order of the closes | requests end; shutdown ends, and cuts nothing off before its deadline |
| Backup, restore (`cmd/relic-api/backup.go`) | the bundle, the target database and bucket | dump, list, copy, extract, load, push | the server goes on meanwhile; ignored errors; deaths half way; repeated attempts | a restore that completes is exact; settled runs are served again |
| Evidence export, trust, billing, metrics | single tables | sequential commands, CRUD | none that interleaves | not modelled |

How they interact: handlers, workers and hubs of all replicas share the
database and the bucket; a save of a policy set publishes on a Postgres channel
that the policy feed of every replica listens to; the runtime at the other end
of its SSE stream pulls its policy and reports it through two more handlers;
uploads bump `agents.last_seen`; retention removes what uploads created; the
governance worker reads the index and the bucket and writes proposals that
members decide through the API; simulation jobs read index and bucket from
inside an API server and evaluate a candidate policy; both hubs, all handlers,
jobs and workers draw on one pool of connections, which shutdown closes after
the hubs; uploads are parsed once, and stored traces are read again by jobs and
the governance worker; a backup reads database and bucket beside all of them;
migrations and boots of all replicas meet in one database without a lock.

## Modules

| Module | Models |
|---|---|
| `TraceStore` | index and bucket, upload, delete and download handlers, retention workers, faults |
| `MCTraceStore` | its instances for TLC |
| `TraceStore_proofs` | its theorems |
| `LossyFeed` | abstract: what a feed promises its subscribers |
| `FeedHub` | the hubs of all replicas and their SSE handlers; implements `LossyFeed` |
| `MCFeedHub` | its instances for TLC |
| `FeedHub_proofs` | its theorems, the refinement among them |
| `PolicyDistribution` | policy sets, selectors, labels, per-agent policies, runtimes |
| `MCPolicyDistribution` | its instances for TLC |
| `PolicyDistribution_proofs` | its theorems |
| `Governance` | the governance worker, its proposals and their decisions |
| `MCGovernance` | its instance for TLC |
| `Governance_proofs` | its theorems |
| `PolicyEval` | evaluation of policies and the comparison of verdicts, as operators |
| `SimulateRunner` | the simulation jobs of an API server, their goroutines, and `PolicyEval` on what they collect |
| `MCSimulateRunner` | its instance for TLC |
| `SimulateRunner_proofs` | its theorems |
| `Deployment` | `migrate up`, server boots and everything that adds an organization or a user |
| `MCDeployment` | its instance for TLC |
| `ServerLifecycle` | one server process from boot to exit: pool, hubs, handlers, jobs, workers, shutdown |
| `MCServerLifecycle` | its instance for TLC |
| `TraceParser` | a trace file on its way through the parser, the verification of its chain and the two later readers |
| `MCTraceParser` | its instance for TLC |
| `TraceParser_proofs` | its theorems |
| `Identity` | credentials, identity settings, the middleware and the audit trail, on replicas with environments of their own |
| `MCIdentity` | its instance for TLC |
| `Identity_proofs` | its theorems |
| `Backup` | backup and restore beside a running server |
| `MCBackup` | its instance for TLC |
| `Operations_proofs` | the theorems of `Deployment`, `ServerLifecycle` and `Backup` |

### TraceStore

Requests (`Reqs`) are chosen in `Init` and each is served once; `pc` says which
call to Postgres or S3 a handler makes next, one action per call. A call is
answered, fails without effect, or takes effect and loses its answer
(`Answered`, `FailsClean`, `FailsAfter`); `Disconnect` cancels `r.Context()`,
after which every call of that handler fails, the rollback's `DeleteRun`
included; `CrashHandler` and `CrashSweep` end a handler or a sweep anywhere.
`rows` is keyed by (org, run), objects by the storage key, which also contains
the agent. A trace is a value with an agent and a run; parsing is the set
`Refused`. The clock is bounded by `MaxTime`.

`tainted` is a history variable: the runs on which two operations overlapped
between their calls or on which a failure was left unrepaired (a lost answer, a
failed rollback, a crash). Everything else, re-uploads, refused uploads, failed
PUTs that are rolled back, deletes, sweeps, faults on other runs, must leave
index and bucket in agreement (`CleanRunsConsistent`).

### FeedHub

`dispatch`, `Subscribe`, the `closeFn` and the locked part of `Hub.Close` hold
`h.mu` and are one step each; `run()` is split between receiving a notification
and dispatching it, so a hub may close, and clients may leave, while it holds
one. Postgres delivers notifications to all listeners in the same order. Events
of orgs without a subscriber are the value 0 (`PublishElsewhere`).
`StopListener` is the one-second deadline of `WaitForNotification`: the listener
looks at `stopCh` only when nothing has arrived, that is, with an empty `wire`.
`Hub.Close` therefore waits for ever while other orgs publish at least once a
second, and `feed_shutdown` bounds the events. `DbDown` and `DbUp` are a restart
of Postgres; `run()` returns on the error and nothing starts it again. `from`,
`upto` and `seen` are history variables.

### PolicyDistribution

A save resolves its selector, writes the set, notifies the resolved agents one
by one and answers; a label change is a READ COMMITTED transaction whose DELETE
sees what was committed when it started and waits for rows other transactions
are deleting (`blockers`). Label rows remember the transaction that inserted
them, because a row that is deleted and inserted again is a different row to a
DELETE that started before. `ResolveSelector` is the query, with its OR and its
count. Runtimes are external and are modelled by the calls they make, as
`docs/api.md` and the comments of the handlers describe them. The feed between
save and runtime loses notes at will, as `LossyFeed` allows; a runtime reads
from a note only that there is an update, so the set `notes[a]` has no order.

### Governance

A poll takes the orgs one by one; `pc` says which call the worker makes next:
list the runs, read a trace, classify a pattern, insert a proposal. The row and
the object of a run appear and disappear separately (`phase`), in the order in
which the upload and the delete handler write them, so a listed run may have no
object when it is read. `Denials` and `ActionsDenied` are what a trace and its
row say; the answer of the language model is the constant `Gaps`, or a fault,
after which the call has failed or the threshold decides. `FailingOrgs` may fail
on every poll, at no cost; all other faults and restarts count against
`MaxFaults`. Proposals beyond `MaxPerKey` for one org, agent and tool are not
kept: each poll inserts again, and only the first copies matter to the
properties. A decision is two steps, the update and the audit row; `by` stands
for `decided_by` and `unaudited` is a history variable. The queries of the
governance worker and `ResolveSelector` do not look at `rows.Err`, so a fault
may also cut a list of orgs, runs or agents short without anyone noticing
(`Poll`, `CutShort`, `ResolveForSave`).

### PolicyEval and SimulateRunner

`PolicyEval` gives `Evaluate`, `Simulate` and `sortSamples` as operators; a glob
is the set of the values it matches and an event is a record with the recorded
verdict. In `SimulateRunner` `pc[j]` is the goroutine of a job and `gor[j][r]`
the one that fetches run `r` for it: it waits for a slot (`Acquire`), downloads,
extracts, and sends one message to the buffered channel `resCh`, giving back its
slot in the same step (nothing it does in between can block). `expired` says
that the job's context is over: from then on calls fail, or have just returned.
A body that breaks off yields the events before the break, and an error only if
there are none. Rows and objects come and go as in `Governance`. A run's events
are positions of the constant `Trace`, so `out` tells which event was collected
and `Simulate` sees the event itself. `Restart` forgets all jobs; their ids are
not used again. A request that does not validate leaves no job behind.
`ResultExact` restates the counts and samples from the set of collected events,
without the order of arrival, counters or modes. The audit row that the submit
handler writes after the job has started is left out.

### Deployment

A process is off, migrating, booting or serving; `pc` names its next statement
and every statement is one action, because neither `Up` nor
`bootstrapLocalAdmin` uses a transaction or a lock (the two idempotent statements
of `createAuthUsersStub` are one step; a file is one `Exec`, which Postgres runs
as one transaction). Processes start at any time, as a migration with one of
`Configs` or as a server in one of the three modes, and `Die` anywhere. A file is
a value; `Idempotent` are the files that may run again on a schema that has
them. `migrations/README.md` asks that of all files, but the older ones (001, for
example) are plain `CREATE TABLE`. `HalfAppliedByFault` shows when it matters: an
applied file is without its row only while somebody is about to record it, or
after a process died between `Exec` and `INSERT`; on such a file, if it is not
idempotent, every later run stops. A user is a row under its address (addresses
compare as values; the code lowers their case), an organization its slug.

In the bootstrap the count of local users is stale when the inserts come, and
only the unique slug `primary` keeps a second replica from adding a second
admin; the replica that loses exits and finds the admin when it is started
again. The price: if the first dies between organization and user, if the
admin's address belongs to a user of another provider, or if somebody onboarded
an organization `primary`, each later boot in local mode stops at the slug. The
properties hold then too, as no server serves without its admin; only an operator
can repair it. The `create-user` command that a comment in `main.go` mentions
does not exist, so local users come from the bootstrap alone. `HandleCreateOrg`
needs a token without an organization, which only Supabase issues. Failed
requests that change nothing are not actions.

### ServerLifecycle

`main` follows `main()`; `defers` is its stack of deferred closes. Those of
contexts and of tracing, which has a deadline of its own, and the pool of an
optional read replica, which works like the first, are left out. `held` is who has a
connection of the pool: a hub for good, everybody else for one statement at a
time, and nobody waits for a connection while having one. A hub is reduced to
what `FeedHub` shows of it: closing it ends its streams, and Close returns when
its listener is gone. The listener waits for a notification (`Notified`, of
which the pool and the streams see nothing else), dispatches it and waits again
(`WaitsAgain`), and looks at `stopCh` only after a second without one
(`SilentSecond`): while notifications keep coming it never does, and
`ShutdownEnds` has to suppose that the channels fall silent in the end
(`ChannelsFallSilent`). A worker has always a next statement; a
job has a context that shutdown does not cancel. `http.Server.Shutdown` waits
for all handlers, streams included, or for its deadline; as streams last as long
as their clients, a server with an open stream takes the whole ten seconds, and
only then the hubs close. With `MaxConns` = 2 `RequestsEnd` is false, for the
hubs have both connections, and with 1 the boot never ends; three is the least
that works, and the run has exactly three.

### TraceParser

A line is a body, a MAC and a form (an object, blank, not JSON, too long). The
runtime is external: it appends lines, sealing the i-th of run r with the MAC
`<<r, i>>`, and `Fault` loses, repeats, swaps or changes a line or breaks the
stream off. `ScanLine` and `EndScan` are `parse`, `VerifyLine` and `ChainHolds`
`verifyChain`; what is accepted is stored and read by `ExtractActionEvents`
and then `parseDeniedToolsNDJSON`. Each decodes a line in its own way, and a body
says what each finds: `parse` takes single keys, by their exact names, out of a
map; the other two unmarshal into structs of their own (`policy.ActionEvent`,
`traceActionEvent`), which accept a key in any case (`lax`) and fail as a whole
on a field of the wrong type (`fits`: a `run` that is not a string only fails
the first, such a `tool` only the second); governance also takes `type` for `t`,
and trims blanks that JSON does not know (`padded`), which makes it read lines that
are malformed to the others. The fields of a run's end are set one by one, each
by the last line that has a valid one (`end`). HMAC is taken to be collision-free. The
governance reader has no limit of lines, counts `deny` only, and forgets all it
has counted when the stream breaks off. `ReadersAgree` says what remains: each
later reader gets the lines that are actions, or denials, to it among those
`parse` counted, and where every line is `Plain` what they see is in the summary.

The code and its documents disagree three times here. `actionevents.go` says
"Defensive parsing mirrors Parse()" and that it returns one event for each
`t:"action"` line; an action with a field of the wrong type is in the summary
but not in the events, and one keyed `T` is in the events but not in the
summary. `docs/THREAT_MODEL.md:149` says that `RELIC_REQUIRE_SEALED_TRACES`
rejects uploads whose chain does not verify; `parse` accepts a sealed trace
unverified when it is truncated, which one malformed line suffices for
(`parser.go:221`). And `loadTraceMasterSecret` is commented "Failure to decode
is fatal" where it logs and goes on without a key.

### Identity

A request is admitted by the middleware, compared with the org in its path,
executes one statement and writes its audit row, each in a step of its own
(`pc`), on a replica `at` with an environment (`env`; the secrets key is
`RELIC_SECRETS_KEY` or, without it, the JWT secret). `Restart` gives a replica
another environment and ends what it was doing. Tokens are known by the row they
belong to and hashes by what they were keyed with (`salt`), so that a lookup
under both hashes (`Validates`) finds a row exactly when one of the two salts
is the row's. Creating a row takes any free id; ids that requests name are
arbitrary, other orgs' included. `stale`, `done` and `faulty` are history
variables. A user without an organization is refused everywhere and is left out;
so is a change of the JWT secret.

What the code does, where its comments say otherwise: nothing calls
`CreateSession` or `IsSessionRevoked`, so revoking a session has no effect on its
token, which is good until it expires (`identity.go:269` says "The middleware
checks revoked_at on every request"). An audit row is best effort, after the
statement. Setting a pepper makes SCIM tokens unusable that were hashed with the
secrets key, while API keys from before it stay valid (`AdmissionExact`).
A secrets key that is hex and between 16 and 31 bytes long is not usable: `b[:32]`
in `secretsKey` is out of range.

### Backup

A run is its storage key. The dump is one snapshot; the keys are listed, and the
objects read one by one, later, while uploads and deletes of the server go on in
their two steps (`at`). `unsettled` is a history variable: runs that had no
object, or were being stored or deleted, when the dump was taken, or that were
stored or deleted while the backup ran. The bundle is whole, cut short (a death,
or a close whose error is ignored), or without a dump. psql executes the dump
statement by statement and stops at the first error; what was executed stays.
Nothing checks that the target is empty: the dump loads into any database that
has none of its names (`used` is `no` or `beside`), and stops at the first name
that is taken, by an earlier restore or by anything else (`clashing`). A restore
without `S3_BUCKET` is one whose pushes all fail with a warning. The pages of
`ListKeys` are one step, and a backup command runs once.

`RestoreExact` has consequences for operators: a restore that stopped half way,
or whose blobs could not be pushed, needs a database without the names of the
dump to be repeated, and the advice of `ops/migrate.sh:25` to restore after a
failed migration works only after emptying the database.
`docs/DEPLOYMENT.md:164` restores "against an empty database"; one in use beside
the names of the dump keeps its other content. `docs/UPGRADING.md:68` says of
restore that it does not touch S3, but blobs of the bundle are pushed.
`blob_count` of the manifest counts listed keys, skipped ones too.

## Runs

Passing runs:

| Run | Shows | Bounds |
|---|---|---|
| `trace_faults` | consistency of clean runs, tenant isolation of downloads, write-once, and that every expired row is reaped, with every fault | two requests, two workers, two orgs, two run ids that both may use, two traces with different keys and one refused; batches of one id: a sweep deletes the rows of that id in every org, so it is two expired ids that need two sweeps. Two requests are what it takes to overlap; a worker is the third party. The retention period is the unit of the clock (`MaxTime` two of them); as the run checks liveness, `MCSpec` breaks the symmetry of orgs and requests in its initial states; deletes and downloads name the first run id, uploads either |
| `feed_delivery` | channel discipline, no send on a closed channel, drops counted exactly, refinement of `LossyFeed` | two replicas, two connections on either, channels of one slot, two events for them or for others, unlimited traffic of other orgs |
| `feed_shutdown` | `Hub.Close` returns and all streams end, also after Postgres went away | one hub, two connections; events bounded, so the channel falls silent |
| `policy_races` | order of saves and that no version is skipped, truth of notifications, exactness of selectors, overwriting of labels, tenant isolation of policies | two multi-step requests of eight kinds, an agent of the same name in two orgs, all single-statement requests at any time, faults |
| `simulate_jobs` | jobs end; each trace is collected whole and once; exact counts and samples; soft failure | one job (jobs share only the map and the store), three runs of two orgs, one with flips in both directions and one without actions; one slot, so that goroutines wait; one sample a direction; two faults or restarts; candidates of every mode and of both rule orders |
| `deploy_boot` | records of migrations are true, races leave no half-applied file, servers have their admin, accounts are kept, every run ends | two processes, so that any two statements race; two core files, one not idempotent, a Supabase and an RLS file; migrations under two configurations, servers in all modes; two addresses, two slugs; one death |
| `governance_proposals` | evidence of proposals, their permanence, the trail of decisions, and that a gap is proposed in the end | two orgs, the first of which may fail for ever; three runs, of which two make up a pattern in two ways; one fault or restart; two concurrent decisions of the first proposal |
| `server_shutdown` | no request is refused a connection and no stream cut before the deadline of the shutdown; shutdown ends; requests end | both hubs and three connections, so that a request, a stream, a job and a worker compete for one; notifications without bound, silent in the end for `ShutdownEnds` only |
| `trace_uploads` | the summary of an accepted trace, the meaning of verified, the agreement of the readers | up to four lines with a limit of three, so that files are below, at and above it; six bodies, some of which the three readers understand differently (keys in another case, `type`, fields of another type, an end without an exit code), two runs, one fault of any kind, Unicode blanks among them; a chain required or not, and a requirement without a key: 5.2 million states |
| `identity_requests` | who is admitted, that nobody acts on another org, that what was done is audited | two requests, each with any credential, org, operation and argument (`MCAsked`: the user stays in its org and alone reads the SSO configuration and revokes sessions); two orgs, two rows, a replica that restarts with any of four environments at any time |
| `backup_restore` | exactness of restores, completeness of hot backups | two runs, so that one may change while the other is settled; two attempts to restore, into a database that is empty, in use beside the names of the dump, or in use with a name that clashes |

Some comments promise what the code does not keep. Of three, TLC shows the
counterexample:

| Configuration | The comment | The code |
|---|---|---|
| `TraceStore_reap.cfg` (run `trace_reap`), property `ReapOnlyExpired` | `postgres.go:415`: the reaper "deletes up to `limit` runs whose expires_at is older than `before`" | `ReapExpiredRuns` deletes `WHERE id IN (...)` although the key is (org, id), so an expired run of one org takes fresh runs of other orgs with the same id along |
| `FeedHub_drops.cfg` with `MCFeedHub`, property `DropsOncePerEvent` | `hub.go:138`: `dropped` counts events that could not be enqueued "to at least one subscriber's channel", so an event counts once | `dispatch` adds one for every full channel: an event that two slow consumers lose counts twice. What holds, one for each event and subscription, is `DropsCounted` |
| `Governance_threshold.cfg` with `MCGovernance`, property `AboveThreshold` | `detector.go:61`: a tool is reported when it is denied "more than threshold times" | `p.Count >= threshold`: a tool denied exactly threshold times is proposed, as `GapsProposed` and `EvidenceAddsUp` have it |

The first is a fault of the code. In the other two the counter and the
threshold are one thing in the comment and another in the statement; their
configurations are kept beside the runs, to be checked by hand
(`tlc -config FeedHub_drops.cfg MCFeedHub`, `tlc -config Governance_threshold.cfg MCGovernance`).

Further disagreements between comments and code, found while modelling:

- the rollback of a failed upload uses the request's context, which is cancelled
  when the client is gone, so the row stays without object, although
  `traces.go:172` says "so we don't leave a phantom index entry" (the models have
  this behaviour: `tainted` in `TraceStore`);
- after the LISTEN connection breaks `run()` returns and nothing restarts it;
  `hub.go:188` says that the server then fails its health checks, but `/readyz`
  pings Postgres and S3 only, so the replica is ready again with a dead feed
  (`DbDown` in `FeedHub`);
- a runtime that is told of a policy set pulls `agents.policy_yaml`
  (`agents.go:117`), which no save of a set writes; `policy_sets.go:41` says that
  it pulls the YAML of the set;
- the governance worker ignores its window of days: it counts the denials of the
  newest 500 runs of any age;
- `hub.go:56` says that slow consumers drop the oldest event and that the SSE
  writer logs a warning; `dispatch` drops the newest, and nothing is logged
  (`Dispatch` in `FeedHub`);
- `hub.go:197` says that Close can interrupt `WaitForNotification` cleanly; it
  does only after a second without a notification (`StopListener` in `FeedHub`,
  `SilentSecond` in `ServerLifecycle`);
- those of the trace parser, of identity and of restore, in their sections.

`CHECK_DEADLOCK FALSE`: these systems may stop, when every request is served and
the bounded clock or log is used up. `deploy_boot` checks deadlock: a process can
always be started.

Symmetry is used on orgs, requests, workers, replicas and connections in runs
without liveness properties (and on row ids in `identity_requests`, runs in
`backup_restore`); the operators treat the members of these sets alike.

### Fairness

`trace_faults`: the ticker of `Worker.Run` fires for ever and an S3 call
returns, so sweeping is weakly fair. Handlers, clients and the clock need not
move. `feed_shutdown`: a goroutine that can run does run: the listener, the
`main` that waits in Close, and a handler with something to read or a closed
channel. Publishers, clients and Postgres coming back are not assumed fair.
`governance_proposals`: the ticker fires for ever and calls return, so a worker
that can take a step takes one; uploads, deletions, restarts and decisions are
not assumed. `simulate_jobs`: goroutines that can run do run, and calls to
Postgres and S3 return, if only because of the deadline; the deadline itself,
uploads and deletions are not assumed. `deploy_boot`: a process that runs
executes its next statement; nobody has to start one, and no request has to
come. `server_shutdown`: goroutines that can run do run, statements end, the
deadline comes and `rootCancel` reaches the workers. A listener that has a
notification goes on, and a silent second ends the wait of one that is told to
stop; nothing is assumed of publishers, and `ShutdownEnds` is conditional on
channels that fall silent, as `feed_shutdown` is by bounding the events. Strong
fairness of `Acquire` is assumed, because pgxpool serves those who wait for a
connection in order. Nothing is assumed of clients, signals or connections that
break.

## Proofs

All theorems hold for arbitrary constants under the named assumption of each
module. It fixes types and finiteness: runs, hubs and clients are finitely many,
a trace and the rules of a candidate are numbered from 1, targets have a rank.
Every safety property of a passing run is a theorem. The inductive invariants
are in the modules of the components and were model-checked before they were
proved; the induction is always of one shape: `Init` gives the invariant, each
action keeps each conjunct it can disturb, and the invariant gives the property.

**TraceStore** (`TypeCorrect`, `CleanConsistency`, `TenantIsolation`,
`UploadIsWriteOnce`). `CleanRunsConsistent` is not inductive alone: that a PUT
or a delete touches nothing else needs objects and rows to be filed under their
owner (`FiledByOwner`), one row per run (`OneRowPerRun`, so that the row found
is the one inserted), and handlers to hold keys of their own run only
(`HandlersOK`). `IndInv` is the conjunction. For each action the proof
distinguishes the run it works on from all others, whose rows, objects,
uploaders and deleters it leaves alone.

**FeedHub** (`TypeCorrect`, `ClosedExactlyOnce`, `NeverSendsOnClosed`,
`HubImplementsLossyFeed`). Refinement needs that the notifications on a wire, in
hand, in a channel and read so far are increasing log positions, each wanted by
the subscription and later than its `from` (`WireInOrder`, `ChannelsInOrder`).
`from` maps to how much of the log the replica had dispatched at Subscribe.
`DropsExactlyCounted` compares a counter with a set of events that is defined
from everything else: what a subscription wants of the log, less what was
delivered. It is inductive with `NothingSkipped` (a listening hub has every later
notification in hand or on its wire) and `RemovedInTime` (a subscription ends no
later than what the replica has dispatched); a dispatch then adds to the set
exactly the subscriptions whose channel was full (`CountInv`).

**PolicyDistribution** (`TypeCorrect`, `SavesAreOrdered`,
`NotificationsAreTrue`, `PolicyIsolation`, `LabelsAreOverwritten`,
`SelectorsAreConjunctions`). Versions grow with each write and a save writes
once (`SavesOK`), so a new version exceeds all given ones. A policy that is
stored, loaded or reported was put there by the org (`StoredOwnPolicy`). A label
transaction that is alone on its agent has found exactly the agent's current
rows (`TxsOK`). The selector theorem is a counting argument: the keys of a
selector are distinct, so as many distinct keys as conditions means that every
condition has a row; it needs no invariant beyond types.

**Governance** (`TypeCorrect`, `EvidenceFromOwnRuns`, `EvidenceCounted`,
`DecisionsAudited`, `RowsKept`). That evidence is the org's own rests on the
worker's maps being empty between orgs and, inside one, filled from runs of that
org (`MapsOK`); that it is not empty, on a key having a count only with a run.
The trail of a decision needs that whoever is about to write an audit row did
find its proposal (`DecisionsOK`). A step changes the table by at most one new
row or one decision (`TableStep`), from which `RowsKept` follows.
`EvidenceCounted` bounds a count by the totals of the distinct runs beside it.
`TotalsOK` says that of the worker's maps, and that runs still to be looked at
are not in them, so that none is added twice; a total over a set of runs grows
by the number of each run added.

**SimulateRunner** (`TypeCorrect`, `SlotsCounted`, `OwnEventsOnly`,
`SoftFailure`, `JobLifecycle`, `EventsCollectedWhole`, `AnswersExact`). That a
slot is there to be given back needs the semaphore to equal the number of
goroutines in flight, so types and `SlotsAccounted` are proved together. Soft
failure and the lifecycle rest on `StatusOK`: the status follows the goroutine
of the job, and a job that has not listed its runs has collected nothing. Own
events follow from the query and from messages carrying the run of the goroutine
that sends them. `EventsCollectedWhole` follows a trace from its goroutine to
`out`: a goroutine has at most one message in the channel, its events are
collected from it alone (`SentOnce`), and a run whose goroutine has sent is in
the channel or collected, whole if nothing disturbed the job (`CollectedOK`);
jobs are independent, so all is proved of one job (`JobByJob`). `AnswersExact`
rests on it: as no event is collected twice, positions of `out` and events can
be counted for each other. The rest is about operators. A finite set under a
strict order gives its elements the places 0 to N - 1 (`PlacesInOrder`); hence
the first match among the rules exists (`FirstOf`), the cap leaves the least of
cap and number (`FirstFew`), and the sorted samples are each sampled event once,
denials first, targets ascending (`SamplesShown`). That modes do not change what
is denied is `ModeKeepsDenial`.

**TraceParser** (`TypeCorrect`, `SummaryFaithful`, `VerifiedMeansSealed`,
`ReadersAgreeOnTrace`). The invariant has one part for each stage a file goes
through: after p lines the summary counts exactly them and the kept lines are
those that are not blank (`ScannedTo`, `KeptTo`); after n checked lines these are
the first n that the run sealed, since the MAC the next line must have commits
to its position (`VerifyingOK`); in a stored file a line too long to scan lies
beyond the limit of events (`LongBeyond`), which is why the later readers, who
cannot scan it either, do not stop short of that limit (`StoredOK`).

**ServerLifecycle** (`ServerTypeCorrect`, `DrainsGracefully`, `ClosesOrdered`).
The deferred calls are a stack, so which hubs are open follows from its height
(`DefersOK`, `OpenOK`); a connection is held by a hub that listens or an actor
that runs a statement (`HeldOK`); and closes begin with handlers in flight only
if the deadline cut the drain short (`DrainOK`). `ClosesOrdered` states
`ClosesInOrder`, which is in no run.

**Deployment** (`TypeCorrect`, `RecordTrustworthy`, `OrderKept`,
`RacesLeaveNothing`, `AdminThere`, `AccountsSafe`). That success means recorded,
and that files come in order, needs what a process carries between statements:
all files before its position are recorded, and the one it is about to record is
applied (`PassedRecorded`). The accounts need `OneCreator`: a process that is
about to insert the admin created the organization `primary`, so it is the only
such process and there is no local user yet; slugs are never freed.

**Identity** (`TypeCorrect`, `AdmitsExactly`, `Audited`, `StaysInOrg`).
`AdmissionExact` compares a request with rows that may change after it was
admitted; it is inductive with `StaleStays`, that revoked and expired is for
ever, and `ProgressOK`: the row of a credential in use exists, so no statement
replaces it, and a request has an org exactly when it was admitted. What any
statement may do to the tables is one lemma (`StatementEvolves`): rows of its org
appear or are revoked, nothing else; `StaysInOrg` follows from it.

**Backup** (`TypeCorrect`, `RestoresExactly`, `HotBackupServes`). `StagesOK` ties
the progress of both commands to what file and target hold. `SettledKept` follows
the objects of the settled runs: in the bucket while the backup runs, then
listed, then copied or still to be copied, then pushed or still to be pushed,
unless something warned.

Only model-checked is liveness (`ExpiredRowsReaped`, `CloseTerminates`,
`StreamsEnd`, `GapsProposed`, `JobsFinish`, `RunsEnd`, `ShutdownEnds`,
`RequestsEnd`), which needs fairness and ENABLED, out of this prover's reach. The
other way round, `EventsOfOwnRuns`, `SlotsAccounted`, `Lifecycle`,
`AppliedInOrder`, `ClosesInOrder` and the type invariants are proved and
not part of a run.

In `TraceStore`, an upload, a delete and a second upload of one run that overlap
can leave the summary of one trace with the object of the other: those runs are
`tainted`, and `CleanRunsConsistent` says nothing about them.

## Not modelled

Formatting, HTTP status texts, pagination, read-only handlers, metrics,
telemetry, billing, evidence export (it reads and reports), and the trust
registry (single-statement CRUD). The audit log is in `TraceStore`,
`Governance`, `Identity` and, for organizations, `Deployment`; it is append-only
and nothing reads it back. Two saves of one policy set by the same request id,
and deletion of organisations, do not exist in the code's handlers modelled
here. The 8-byte truncation of policy hashes is treated as injective.

## Plan

1. `RateLimiter`: the token buckets per key, their refill and eviction
   (`internal/api/middleware/ratelimit.go`), and the CSRF check.
2. `SequenceDetector`: the ring buffer against the sequence of all tools.
3. OIDC: the code exchange with its state, nonce and PKCE cookies.
4. Proofs: for those of `RateLimiter` and `SequenceDetector`, and refinements:
   that `TraceStore` without overlaps implements an atomic store, and
   `PolicyDistribution` one register per policy set.
