--------------------------- MODULE ServerLifecycle ---------------------------
(***************************************************************************)
(* One relic-api process from boot to exit (cmd/relic-api/main.go): the    *)
(* Postgres pool everything draws on, the two hubs that keep a connection  *)
(* of it for their LISTEN loop, the HTTP handlers, the retention worker    *)
(* and simulation jobs, and the shutdown: SIGTERM, rootCancel, the drain   *)
(* of http.Server.Shutdown with its deadline, then the deferred closes in  *)
(* reverse order of the defers.                                            *)
(*                                                                         *)
(* A hub is reduced to what FeedHub says of it: closing it ends the        *)
(* streams it feeds, and its Close returns once its listener has exited.   *)
(***************************************************************************)
EXTENDS Naturals, Sequences, FiniteSets

CONSTANTS
  HubOrder,    \* the hubs, in the order main starts them
  Plain,       \* requests that answer and are done
  Streams,     \* requests that become SSE streams
  Feeds,       \* the hub that a stream subscribes to
  Jobs,        \* simulation jobs: goroutines with a context of their own
  Workers,     \* goroutines under rootCtx: retention, telemetry
  MaxConns,    \* RELIC_PG_MAX_CONNS
  MaxStmts     \* bound: statements of one request or job

Hubs     == {HubOrder[i] : i \in 1..Len(HubOrder)}
Requests == Plain \cup Streams
Actors   == Requests \cup Jobs \cup Workers

ASSUME LifecycleAssumption ==
  /\ MaxConns \in Nat \ {0} /\ MaxStmts \in Nat \ {0}
  /\ IsFiniteSet(Hubs) /\ IsFiniteSet(Actors)
  /\ HubOrder \in Seq(Hubs)
  /\ \A i, j \in 1..Len(HubOrder) : HubOrder[i] = HubOrder[j] => i = j
  /\ Feeds \in [Streams -> Hubs]
  /\ Hubs \cap Actors = {} /\ Plain \cap Streams = {}
  /\ Requests \cap (Jobs \cup Workers) = {} /\ Jobs \cap Workers = {}
  /\ "pool" \notin Hubs

VARIABLES
  main,      \* where main() is
  defers,    \* the deferred closes, latest last
  expired,   \* whether the deadline of Shutdown has passed
  pool,      \* open; closing: Close waits for connections; closed
  held,      \* who has a connection of the pool
  hub,       \* off, open, closing: Close waits for the listener, closed
  awake,     \* the hubs whose listener has a notification in hand
  at,        \* where each handler, job and worker is
  left,      \* the statements it still has to execute
  refused,   \* history: whose Acquire failed with a closed pool
  cut        \* history: streams that ended because their hub was closed

serverVars == <<main, defers, expired, pool, held, hub, awake, at, left, refused, cut>>

ServerTypeOK ==
  /\ main \in {"boot", "serving", "draining", "closing", "exited", "failed"}
  /\ defers \in Seq(Hubs \cup {"pool"})
  /\ expired \in BOOLEAN
  /\ pool \in {"open", "closing", "closed"}
  /\ held \subseteq Hubs \cup Actors /\ Cardinality(held) <= MaxConns
  /\ hub \in [Hubs -> {"off", "open", "closing", "closed"}]
  /\ awake \subseteq Hubs
  /\ at \in [Actors -> {"idle", "running", "acquiring", "holding", "streaming", "returned"}]
  /\ left \in [Actors -> 0..MaxStmts]
  /\ refused \subseteq Actors /\ cut \subseteq Streams

ServerInit ==
  /\ main = "boot" /\ defers = <<"pool">> /\ expired = FALSE
  /\ pool = "open" /\ held = {}
  /\ hub = [h \in Hubs |-> "off"] /\ awake = {}
  /\ at = [u \in Actors |-> "idle"]
  /\ left \in [Actors -> 1..MaxStmts]
  /\ refused = {} /\ cut = {}

Running  == main \notin {"exited", "failed"}
InFlight == {q \in Requests : at[q] \notin {"idle", "returned"}}

(***************************************************************************)
(* Boot: each hub takes a connection for good.  The contexts of both       *)
(* Starts have no deadline: with a pool that is too small main waits.      *)
(***************************************************************************)
StartHub ==
  /\ main = "boot" /\ Len(defers) <= Len(HubOrder)
  /\ Cardinality(held) < MaxConns
  /\ LET h == HubOrder[Len(defers)]
     IN /\ held' = held \cup {h}
        /\ hub' = [hub EXCEPT ![h] = "open"]
        /\ defers' = Append(defers, h)
  /\ UNCHANGED <<main, expired, pool, awake, at, left, refused, cut>>

(* LISTEN fails, or the port is taken: os.Exit, no deferred call runs. *)
BootFails ==
  /\ main \in {"boot", "serving"}
  /\ main' = "failed"
  /\ UNCHANGED <<defers, expired, pool, held, hub, awake, at, left, refused, cut>>

(* The workers start and ListenAndServe accepts. *)
ListenAndServe ==
  /\ main = "boot" /\ Len(defers) > Len(HubOrder)
  /\ main' = "serving"
  /\ at' = [u \in Actors |-> IF u \in Workers THEN "running" ELSE at[u]]
  /\ UNCHANGED <<defers, expired, pool, held, hub, awake, left, refused, cut>>

(***************************************************************************)
(* Handlers, jobs and workers.  Each statement takes a connection and      *)
(* gives it back; nobody waits for a connection while having one.          *)
(***************************************************************************)
Accept(q) ==
  /\ main = "serving" /\ q \in Requests /\ at[q] = "idle"
  /\ at' = [at EXCEPT ![q] = "running"]
  /\ UNCHANGED <<main, defers, expired, pool, held, hub, awake, left, refused, cut>>

(* A handler starts a job and answers without it. *)
StartJob(q, j) ==
  /\ Running /\ q \in Plain /\ at[q] = "running"
  /\ j \in Jobs /\ at[j] = "idle"
  /\ at' = [at EXCEPT ![j] = "running"]
  /\ UNCHANGED <<main, defers, expired, pool, held, hub, awake, left, refused, cut>>

Query(u) ==
  /\ Running /\ at[u] = "running" /\ left[u] > 0
  /\ at' = [at EXCEPT ![u] = "acquiring"]
  /\ UNCHANGED <<main, defers, expired, pool, held, hub, awake, left, refused, cut>>

(* pgxpool.Acquire: a connection, or the error of a pool that is closed. *)
Acquire(u) ==
  /\ Running /\ at[u] = "acquiring"
  /\ pool = "open" /\ Cardinality(held) < MaxConns
  /\ held' = held \cup {u}
  /\ at' = [at EXCEPT ![u] = "holding"]
  /\ UNCHANGED <<main, defers, expired, pool, hub, awake, left, refused, cut>>

AcquireRefused(u) ==
  /\ Running /\ at[u] = "acquiring" /\ pool # "open"
  /\ refused' = refused \cup {u}
  /\ at' = [at EXCEPT ![u] = "returned"]
  /\ UNCHANGED <<main, defers, expired, pool, held, hub, awake, left, cut>>

(* Mutant of Release: the connection is not given back. *)
ReleaseLeaks(u) ==
  /\ Running /\ at[u] = "holding"
  /\ at' = [at EXCEPT ![u] = "running"]
  /\ left' = [left EXCEPT ![u] = IF u \in Workers THEN @ ELSE @ - 1]
  /\ UNCHANGED <<main, defers, expired, pool, held, hub, awake, refused, cut>>

(* The statement is over, well or not; a worker has always a next one. *)
Release(u) ==
  /\ Running /\ at[u] = "holding"
  /\ held' = held \ {u}
  /\ at' = [at EXCEPT ![u] = "running"]
  /\ left' = [left EXCEPT ![u] = IF u \in Workers THEN @ ELSE @ - 1]
  /\ UNCHANGED <<main, defers, expired, pool, hub, awake, refused, cut>>

Return(u) ==
  /\ Running /\ u \in Plain \cup Jobs /\ at[u] = "running" /\ left[u] = 0
  /\ at' = [at EXCEPT ![u] = "returned"]
  /\ UNCHANGED <<main, defers, expired, pool, held, hub, awake, left, refused, cut>>

(* The context is cancelled: the client of a request went away, or main    *)
(* called rootCancel.                                                      *)
Cancelled(u) ==
  /\ Running /\ at[u] \notin {"idle", "returned"}
  /\ u \in Requests \/ (u \in Workers /\ main \notin {"boot", "serving"})
  /\ held' = held \ {u}
  /\ at' = [at EXCEPT ![u] = "returned"]
  /\ UNCHANGED <<main, defers, expired, pool, hub, awake, left, refused, cut>>

(* handleOrgLive, handleAgentPolicyUpdates: after the statements of the    *)
(* middleware the handler keeps no connection.                             *)
Subscribe(q) ==
  /\ Running /\ q \in Streams /\ at[q] = "running" /\ left[q] = 0
  /\ at' = [at EXCEPT ![q] = "streaming"]
  /\ UNCHANGED <<main, defers, expired, pool, held, hub, awake, left, refused, cut>>

(* The hub closed the channel: the handler returns. *)
StreamEnds(q) ==
  /\ Running /\ q \in Streams /\ at[q] = "streaming" /\ hub[Feeds[q]] # "open"
  /\ at' = [at EXCEPT ![q] = "returned"]
  /\ cut' = cut \cup {q}
  /\ UNCHANGED <<main, defers, expired, pool, held, hub, awake, left, refused>>

(***************************************************************************)
(* The listener of a hub waits a second at a time.  A notification, of     *)
(* whatever replica and org, ends the wait: the listener dispatches it and *)
(* waits for another second.  Only a second in which nothing came brings   *)
(* it to stopCh; or its connection breaks.  Either way the connection is   *)
(* released.                                                               *)
(***************************************************************************)
Notified(h) ==
  /\ Running /\ h \in held /\ h \notin awake
  /\ awake' = awake \cup {h}
  /\ UNCHANGED <<main, defers, expired, pool, held, hub, at, left, refused, cut>>

WaitsAgain(h) ==
  /\ Running /\ h \in awake
  /\ awake' = awake \ {h}
  /\ UNCHANGED <<main, defers, expired, pool, held, hub, at, left, refused, cut>>

SilentSecond(h) ==
  /\ Running /\ h \in held /\ h \notin awake /\ hub[h] = "closing"
  /\ held' = held \ {h}
  /\ UNCHANGED <<main, defers, expired, pool, hub, awake, at, left, refused, cut>>

ListenerFails(h) ==
  /\ Running /\ h \in held /\ h \notin awake
  /\ held' = held \ {h}
  /\ UNCHANGED <<main, defers, expired, pool, hub, awake, at, left, refused, cut>>

Listener(h) == WaitsAgain(h) \/ SilentSecond(h)

(***************************************************************************)
(* Shutdown.  The second signal stays in the buffer of done, unread.       *)
(***************************************************************************)
Signal ==
  /\ main = "serving"
  /\ main' = "draining"
  /\ UNCHANGED <<defers, expired, pool, held, hub, awake, at, left, refused, cut>>

DeadlineExpires ==
  /\ main = "draining" /\ ~expired
  /\ expired' = TRUE
  /\ UNCHANGED <<main, defers, pool, held, hub, awake, at, left, refused, cut>>

(* Mutant of ShutdownReturns: streams are not waited for. *)
ShutdownReturnsEarly ==
  /\ main = "draining" /\ (InFlight \subseteq Streams \/ expired)
  /\ main' = "closing"
  /\ UNCHANGED <<defers, expired, pool, held, hub, awake, at, left, refused, cut>>

(* No handler is left, streams included, or the deadline has passed. *)
ShutdownReturns ==
  /\ main = "draining" /\ (InFlight = {} \/ expired)
  /\ main' = "closing"
  /\ UNCHANGED <<defers, expired, pool, held, hub, awake, at, left, refused, cut>>

(* Mutant of Deferred: in the order of the defers. *)
DeferredFirst == defers[1]

(* The deferred call that runs next. *)
Deferred == defers[Len(defers)]
Pop      == defers' = SubSeq(defers, 1, Len(defers) - 1)

CloseHub ==
  /\ main = "closing" /\ defers # <<>> /\ Deferred \in Hubs
  /\ hub[Deferred] = "open"
  /\ hub' = [hub EXCEPT ![Deferred] = "closing"]
  /\ UNCHANGED <<main, defers, expired, pool, held, awake, at, left, refused, cut>>

CloseHubReturns ==
  /\ main = "closing" /\ defers # <<>> /\ Deferred \in Hubs
  /\ hub[Deferred] = "closing" /\ Deferred \notin held
  /\ hub' = [hub EXCEPT ![Deferred] = "closed"]
  /\ Pop
  /\ UNCHANGED <<main, expired, pool, held, awake, at, left, refused, cut>>

ClosePool ==
  /\ main = "closing" /\ defers # <<>> /\ Deferred = "pool"
  /\ pool = "open"
  /\ pool' = "closing"
  /\ UNCHANGED <<main, defers, expired, held, hub, awake, at, left, refused, cut>>

ClosePoolReturns ==
  /\ main = "closing" /\ defers # <<>> /\ Deferred = "pool"
  /\ pool = "closing" /\ held = {}
  /\ pool' = "closed"
  /\ Pop
  /\ UNCHANGED <<main, expired, held, hub, awake, at, left, refused, cut>>

MainReturns ==
  /\ main = "closing" /\ defers = <<>>
  /\ main' = "exited"
  /\ UNCHANGED <<defers, expired, pool, held, hub, awake, at, left, refused, cut>>

Main == StartHub \/ ListenAndServe \/ ShutdownReturns \/ CloseHub \/ CloseHubReturns
          \/ ClosePool \/ ClosePoolReturns \/ MainReturns

(* What an actor does by itself, one thing at each point. *)
ActorStep(u) == Query(u) \/ AcquireRefused(u) \/ Release(u) \/ Return(u) \/ Subscribe(u) \/ StreamEnds(u)

ServerNext ==
  \/ Main \/ BootFails \/ Signal \/ DeadlineExpires
  \/ \E h \in Hubs : Listener(h) \/ Notified(h) \/ ListenerFails(h)
  \/ \E q \in Requests : Accept(q)
  \/ \E q \in Plain, j \in Jobs : StartJob(q, j)
  \/ \E u \in Actors : ActorStep(u) \/ Acquire(u) \/ Cancelled(u)

ServerSpec == ServerInit /\ [][ServerNext]_serverVars

(* Goroutines that can run do run, statements end, the clock runs, and     *)
(* rootCancel reaches the workers.  Strong fairness of Acquire: the pool   *)
(* serves its waiters in order.  Nothing is assumed of clients, signals,   *)
(* publishers, or connections breaking: a listener that is notified again  *)
(* and again never has a silent second, so never looks at stopCh.          *)
Fairness ==
  /\ WF_serverVars(Main) /\ WF_serverVars(DeadlineExpires)
  /\ \A h \in Hubs : WF_serverVars(Listener(h))
  /\ \A u \in Actors : WF_serverVars(ActorStep(u)) /\ SF_serverVars(Acquire(u))
  /\ \A u \in Workers : WF_serverVars(Cancelled(u))

FairSpec == ServerSpec /\ Fairness

(***************************************************************************)
(* Properties.                                                             *)
(***************************************************************************)

(* A request that was accepted is never refused a connection, and no       *)
(* stream is ended by the server, before the ten seconds of the shutdown   *)
(* are over: the hubs and the pool outlive the handlers that use them.     *)
GracefulDrain == (refused \cap Requests) \cup cut # {} => expired

(* Once SIGTERM has been received the process exits, with streams open     *)
(* whose clients stay, handlers and jobs in the middle of a statement, and *)
(* listeners alive or dead: no deferred Close waits for what only a later  *)
(* one would end.  But it exits only if the channels of both hubs fall     *)
(* silent in the end: while other replicas publish in every second, Close  *)
(* goes on waiting for the listener.                                       *)
ChannelsFallSilent == \A h \in Hubs : <>[](h \notin awake)
ShutdownEnds == ChannelsFallSilent => (main = "draining" ~> main = "exited")

(* Every accepted request that answers at all is answered, although the    *)
(* hubs keep two connections for good and workers and jobs compete for     *)
(* the rest: the pool is never exhausted for ever.                         *)
RequestsEnd == \A q \in Plain : at[q] # "idle" ~> at[q] = "returned" \/ ~Running

(***************************************************************************)
(* The inductive invariant of the proofs.                                  *)
(***************************************************************************)

(* The deferred calls are those of the pool and of the first hubs. *)
DefersOK ==
  /\ Len(defers) <= Len(HubOrder) + 1
  /\ \A i \in 1..Len(defers) : defers[i] = IF i = 1 THEN "pool" ELSE HubOrder[i - 1]
  /\ main \in {"boot", "failed"} => defers # <<>>
  /\ main \in {"serving", "draining"} => Len(defers) = Len(HubOrder) + 1
  /\ main = "exited" => defers = <<>>

(* What is open: hubs and pool are closed after the drain and one by one,  *)
(* each once its deferred call is next.                                    *)
HubStates(i) ==
  CASE i + 1 < Len(defers) -> {"open"}
    [] i + 1 = Len(defers) -> IF main = "closing" THEN {"open", "closing"} ELSE {"open"}
    [] OTHER -> IF main \in {"boot", "failed"} THEN {"off"} ELSE {"closed"}

OpenOK ==
  /\ \A i \in 1..Len(HubOrder) : hub[HubOrder[i]] \in HubStates(i)
  /\ pool = "closed" <=> defers = <<>>
  /\ pool = "closing" => Len(defers) = 1 /\ main = "closing"

(* A connection is with who runs a statement, or listens. *)
HeldOK ==
  /\ \A u \in Actors : u \in held <=> at[u] = "holding"
  /\ \A u \in Actors : at[u] \in {"acquiring", "holding"} => left[u] > 0
  /\ \A h \in Hubs : h \in held => hub[h] \in {"open", "closing"}
  /\ pool = "closed" => held = {}

(* Handlers exist while the server accepts or drains, and after it only if *)
(* the deadline has cut the drain short.                                   *)
DrainOK ==
  /\ main = "boot" => \A u \in Actors : at[u] = "idle"
  /\ main \in {"closing", "exited"} /\ ~expired => InFlight = {}

ServerIndInv == ServerTypeOK /\ DefersOK /\ OpenOK /\ HeldOK /\ DrainOK /\ GracefulDrain

(* The order of the closes: the pool is closed once both hubs have         *)
(* returned their connections, and a process that exits by itself has let  *)
(* every statement finish, those of jobs nobody waits for included, and    *)
(* leaves no connection behind.                                            *)
ClosesInOrder ==
  /\ pool # "open" => \A h \in Hubs : hub[h] = "closed" /\ h \notin held
  /\ main = "exited" => /\ pool = "closed" /\ held = {}
                        /\ \A u \in Actors : at[u] # "holding"
=============================================================================
