------------------------------- MODULE FeedHub -------------------------------
(***************************************************************************)
(* The fan-out hubs internal/livefeed (dashboard SSE) and                  *)
(* internal/policyfeed (agent SSE), which are the same machine with other  *)
(* filters and buffer sizes.  Each API replica has one hub: a goroutine    *)
(* that LISTENs on a Postgres channel and copies each notification into    *)
(* the bounded channels of the matching subscriptions, from which SSE      *)
(* handlers read.  A publish by any replica reaches every listener.        *)
(*                                                                         *)
(* dispatch, Subscribe, Subscription.Close and the locked part of          *)
(* Hub.Close run under h.mu, so each is one step.                          *)
(***************************************************************************)
EXTENDS Naturals, Sequences, FiniteSets

CONSTANTS
  Replicas,
  Subs,        \* SSE connections, each with the replica, org and filter it has
  Orgs,
  Events,      \* records with the fields org, agent, tool, verdict
  Filters,     \* records with the fields agent, tool, verdict; AnyValue matches all
  AnyValue,
  Buffer,      \* subscriberBuffer
  MaxEvents,   \* bound: how many events subscribers can want are published
  WireCap,     \* bound: notifications waiting on one LISTEN connection
  Background,  \* whether orgs nobody here listens to publish as well, for ever
  Outages      \* whether Postgres may restart

ASSUME FeedHubAssumption ==
  /\ Buffer \in Nat \ {0}
  /\ MaxEvents \in Nat /\ WireCap \in Nat
  /\ Background \in BOOLEAN /\ Outages \in BOOLEAN
  /\ IsFiniteSet(Subs)

VARIABLES
  want,      \* what each subscription asks for
  log,       \* history: the events published
  wire,      \* per replica: notifications received and not yet read
  listener,  \* per replica: where run() is
  inHand,    \* per replica: the notification run() is about to dispatch
  seen,      \* history, per replica: how much of the log was dispatched
  hub,       \* per replica: Hub.Close not called, waiting for run(), returned
  subs,      \* h.subs of all replicas
  ch,        \* the contents of each subscription's channel
  closes,    \* how often close(s.ch) was executed
  handler,   \* the SSE handler that owns the subscription
  from,      \* history: how much of the log was over at Subscribe
  upto,      \* history: how much of the log was over when it was removed
  got,       \* what the handler has read from the channel
  dropped,   \* per replica: h.dropped
  dbUp       \* whether Postgres answers

vars == <<want, log, wire, listener, inHand, seen, hub, subs, ch, closes, handler,
          from, upto, got, dropped, dbUp>>

(* Log positions; 0 is an event of an org without subscriptions. *)
Notes == 0..MaxEvents

(* Mutant of WantsNote: the org is not looked at. *)
WantsNoteAnyOrg(s, n) == n # 0 /\ \A x \in {"agent", "tool", "verdict"} :
                                    want[s].filter[x] \in {AnyValue, log[n][x]}

(* Filter.Matches, and the org check of dispatch. *)
Matches(f, e) == \A x \in {"agent", "tool", "verdict"} : f[x] = AnyValue \/ f[x] = e[x]
Wants(s, e)   == want[s].org = e.org /\ Matches(want[s].filter, e)
WantsNote(s, n) == n # 0 /\ Wants(s, log[n])

At(r) == {s \in Subs : want[s].at = r}

TypeOK ==
  /\ want \in [Subs -> [at : Replicas, org : Orgs, filter : Filters]]
  /\ log \in Seq(Events) /\ Len(log) <= MaxEvents
  /\ wire \in [Replicas -> Seq(Notes)]
  /\ listener \in [Replicas -> {"waiting", "dispatching", "exited"}]
  /\ inHand \in [Replicas -> Notes]
  /\ seen \in [Replicas -> Notes]
  /\ hub \in [Replicas -> {"open", "closing", "closed"}]
  /\ subs \subseteq Subs
  /\ ch \in [Subs -> Seq(Notes)] /\ \A s \in Subs : Len(ch[s]) <= Buffer
  /\ closes \in [Subs -> Nat]
  /\ handler \in [Subs -> {"idle", "streaming", "returned"}]
  /\ from \in [Subs -> Notes] /\ upto \in [Subs -> Notes]
  /\ got \in [Subs -> Seq(Notes)]
  /\ dropped \in [Replicas -> Nat]
  /\ dbUp \in BOOLEAN

Init ==
  /\ want \in [Subs -> [at : Replicas, org : Orgs, filter : Filters]]
  /\ log = <<>>
  /\ wire = [r \in Replicas |-> <<>>]
  /\ listener = [r \in Replicas |-> "waiting"]
  /\ inHand = [r \in Replicas |-> 0]
  /\ seen = [r \in Replicas |-> 0]
  /\ hub = [r \in Replicas |-> "open"]
  /\ subs = {}
  /\ ch = [s \in Subs |-> <<>>]
  /\ closes = [s \in Subs |-> 0]
  /\ handler = [s \in Subs |-> "idle"]
  /\ from = [s \in Subs |-> 0] /\ upto = [s \in Subs |-> 0]
  /\ got = [s \in Subs |-> <<>>]
  /\ dropped = [r \in Replicas |-> 0]
  /\ dbUp = TRUE

(***************************************************************************)
(* Publish: pg_notify, delivered by Postgres to every LISTENing connection *)
(* in the same order.                                                      *)
(***************************************************************************)
Listening(r) == listener[r] # "exited"
Room         == \A r \in Replicas : Listening(r) => Len(wire[r]) < WireCap
Notify(n)    == wire' = [r \in Replicas |-> IF Listening(r) THEN Append(wire[r], n) ELSE wire[r]]

Publish(e) ==
  /\ dbUp /\ Room /\ Len(log) < MaxEvents
  /\ log' = Append(log, e)
  /\ Notify(Len(log) + 1)
  /\ UNCHANGED <<want, listener, inHand, seen, hub, subs, ch, closes, handler, from, upto,
                 got, dropped, dbUp>>

PublishElsewhere ==
  /\ Background /\ dbUp /\ Room
  /\ Notify(0)
  /\ UNCHANGED <<want, log, listener, inHand, seen, hub, subs, ch, closes, handler, from, upto,
                 got, dropped, dbUp>>

(***************************************************************************)
(* run(): the listener goroutine.                                          *)
(***************************************************************************)
WaitForNotification(r) ==
  /\ listener[r] = "waiting" /\ wire[r] # <<>>
  /\ inHand' = [inHand EXCEPT ![r] = Head(wire[r])]
  /\ wire' = [wire EXCEPT ![r] = Tail(@)]
  /\ listener' = [listener EXCEPT ![r] = "dispatching"]
  /\ UNCHANGED <<want, log, seen, hub, subs, ch, closes, handler, from, upto, got, dropped, dbUp>>

(* Mutant of Targets: every subscription ever made is sent to. *)
TargetsStale(r) == {s \in At(r) : handler[s] # "idle" /\ WantsNote(s, inHand[r])}
(* A send to a full channel does not block: the event in hand is dropped. *)
Targets(r) == {s \in subs \cap At(r) : WantsNote(s, inHand[r])}
Fits(s)    == Len(ch[s]) < Buffer

(* Mutant of Dispatch: drops are not counted. *)
DispatchUncounted(r) ==
  /\ listener[r] = "dispatching"
  /\ ch' = [s \in Subs |-> IF s \in Targets(r) /\ Fits(s) THEN Append(ch[s], inHand[r]) ELSE ch[s]]
  /\ seen' = [seen EXCEPT ![r] = IF inHand[r] = 0 THEN @ ELSE inHand[r]]
  /\ listener' = [listener EXCEPT ![r] = "waiting"]
  /\ UNCHANGED <<want, log, wire, inHand, hub, subs, closes, handler, from, upto, got, dropped, dbUp>>

Dispatch(r) ==
  /\ listener[r] = "dispatching"
  /\ ch' = [s \in Subs |-> IF s \in Targets(r) /\ Fits(s) THEN Append(ch[s], inHand[r]) ELSE ch[s]]
  /\ dropped' = [dropped EXCEPT ![r] = @ + Cardinality({s \in Targets(r) : ~Fits(s)})]
  /\ seen' = [seen EXCEPT ![r] = IF inHand[r] = 0 THEN @ ELSE inHand[r]]
  /\ listener' = [listener EXCEPT ![r] = "waiting"]
  /\ UNCHANGED <<want, log, wire, inHand, hub, subs, closes, handler, from, upto, got, dbUp>>

(* Mutant of StopListener: stopCh is never looked at. *)
StopListenerNever(r) == FALSE /\ UNCHANGED vars

(* The deadline of one second trips when nothing arrives for that long;    *)
(* only then does run() look at stopCh.                                    *)
StopListener(r) ==
  /\ listener[r] = "waiting" /\ wire[r] = <<>>
  /\ hub[r] # "open"
  /\ listener' = [listener EXCEPT ![r] = "exited"]
  /\ UNCHANGED <<want, log, wire, inHand, seen, hub, subs, ch, closes, handler, from, upto,
                 got, dropped, dbUp>>

(* Postgres goes away: WaitForNotification fails and run() returns. *)
DbDown ==
  /\ Outages /\ dbUp
  /\ dbUp' = FALSE
  /\ UNCHANGED <<want, log, wire, listener, inHand, seen, hub, subs, ch, closes, handler, from,
                 upto, got, dropped>>

ListenerFails(r) ==
  /\ ~dbUp /\ listener[r] = "waiting"
  /\ listener' = [listener EXCEPT ![r] = "exited"]
  /\ wire' = [wire EXCEPT ![r] = <<>>]
  /\ UNCHANGED <<want, log, inHand, seen, hub, subs, ch, closes, handler, from, upto,
                 got, dropped, dbUp>>

(* ... and comes back, once every connection it had is gone. *)
DbUp ==
  /\ ~dbUp /\ \A r \in Replicas : ~Listening(r)
  /\ dbUp' = TRUE
  /\ UNCHANGED <<want, log, wire, listener, inHand, seen, hub, subs, ch, closes, handler, from,
                 upto, got, dropped>>

(***************************************************************************)
(* The SSE handlers: handleOrgLive and handleAgentPolicyUpdates.           *)
(***************************************************************************)
(* Subscribe on a closed hub returns a channel that is closed already. *)
Subscribe(s) ==
  LET r == want[s].at
  IN /\ handler[s] = "idle"
     /\ handler' = [handler EXCEPT ![s] = "streaming"]
     /\ from' = [from EXCEPT ![s] = seen[r]]
     /\ upto' = [upto EXCEPT ![s] = seen[r]]
     /\ \/ /\ hub[r] = "open"
           /\ subs' = subs \cup {s} /\ UNCHANGED closes
        \/ /\ hub[r] # "open"
           /\ closes' = [closes EXCEPT ![s] = @ + 1] /\ UNCHANGED subs
     /\ UNCHANGED <<want, log, wire, listener, inHand, seen, hub, ch, got, dropped, dbUp>>

(* case ev, ok := <-sub.C: a closed channel still yields what it holds. *)
Receive(s) ==
  /\ handler[s] = "streaming" /\ ch[s] # <<>>
  /\ got' = [got EXCEPT ![s] = Append(@, Head(ch[s]))]
  /\ ch' = [ch EXCEPT ![s] = Tail(@)]
  /\ UNCHANGED <<want, log, wire, listener, inHand, seen, hub, subs, closes, handler, from, upto,
                 dropped, dbUp>>

(* Mutants of Detach: the channel is closed whether or not the hub still   *)
(* has it; or it is removed and not closed.                                *)
DetachAndClose(S) ==
  /\ subs' = subs \ S
  /\ closes' = [s \in Subs |-> IF s \in S THEN closes[s] + 1 ELSE closes[s]]
  /\ upto' = [s \in Subs |-> IF s \in subs \cap S THEN seen[want[s].at] ELSE upto[s]]
DetachOnly(S) ==
  /\ subs' = subs \ S
  /\ upto' = [s \in Subs |-> IF s \in subs \cap S THEN seen[want[s].at] ELSE upto[s]]
  /\ UNCHANGED closes

(* The closeFn of Subscribe: close the channel only if the hub has not. *)
Detach(S) ==
  /\ subs' = subs \ S
  /\ closes' = [s \in Subs |-> IF s \in subs \cap S THEN closes[s] + 1 ELSE closes[s]]
  /\ upto' = [s \in Subs |-> IF s \in subs \cap S THEN seen[want[s].at] ELSE upto[s]]

(* The client goes away or a write fails; the deferred sub.Close() runs. *)
ClientLeaves(s) ==
  /\ handler[s] = "streaming"
  /\ handler' = [handler EXCEPT ![s] = "returned"]
  /\ Detach({s})
  /\ UNCHANGED <<want, log, wire, listener, inHand, seen, hub, ch, from, got, dropped, dbUp>>

(* The channel is closed and drained: the handler returns, sub.Close() too. *)
EndOfFeed(s) ==
  /\ handler[s] = "streaming" /\ closes[s] > 0 /\ ch[s] = <<>>
  /\ handler' = [handler EXCEPT ![s] = "returned"]
  /\ Detach({s})
  /\ UNCHANGED <<want, log, wire, listener, inHand, seen, hub, ch, from, got, dropped, dbUp>>

(***************************************************************************)
(* Hub.Close: everything up to h.mu.Unlock, then the wait for run().  A    *)
(* further call finds h.closed set and returns at once.                    *)
(***************************************************************************)
CloseHub(r) ==
  /\ hub[r] = "open"
  /\ hub' = [hub EXCEPT ![r] = "closing"]
  /\ Detach(At(r))
  /\ UNCHANGED <<want, log, wire, listener, inHand, seen, ch, handler, from, got, dropped, dbUp>>

CloseReturns(r) ==
  /\ hub[r] = "closing" /\ listener[r] = "exited"
  /\ hub' = [hub EXCEPT ![r] = "closed"]
  /\ UNCHANGED <<want, log, wire, listener, inHand, seen, subs, ch, closes, handler, from, upto,
                 got, dropped, dbUp>>

Run(r) == WaitForNotification(r) \/ Dispatch(r) \/ StopListener(r) \/ ListenerFails(r)

Next ==
  \/ \E e \in Events : Publish(e)
  \/ PublishElsewhere
  \/ \E r \in Replicas : Run(r) \/ CloseHub(r) \/ CloseReturns(r)
  \/ \E s \in Subs : Subscribe(s) \/ Receive(s) \/ ClientLeaves(s) \/ EndOfFeed(s)
  \/ DbDown \/ DbUp

Spec == Init /\ [][Next]_vars

(* Goroutines that can run do run: the listener, the closing main, and a   *)
(* handler with something to read.  Nothing is assumed of publishers,      *)
(* clients, or of Postgres coming back.                                    *)
Fairness ==
  /\ \A r \in Replicas : WF_vars(Run(r)) /\ WF_vars(CloseReturns(r))
  /\ \A s \in Subs : WF_vars(Receive(s)) /\ WF_vars(EndOfFeed(s))

FairSpec == Spec /\ Fairness

(***************************************************************************)
(* Properties.                                                             *)
(***************************************************************************)

(* close(s.ch) panics the process when executed twice, and a subscription  *)
(* that outlives its handler leaks: the closeFn of Subscribe and Hub.Close *)
(* both close channels, in either order, and between them close each one   *)
(* exactly once.                                                           *)
ChannelDiscipline ==
  \A s \in Subs :
    /\ closes[s] <= 1
    /\ handler[s] = "idle" => closes[s] = 0 /\ s \notin subs
    /\ s \in subs => closes[s] = 0 /\ hub[want[s].at] = "open" /\ handler[s] = "streaming"
    /\ handler[s] = "returned" => closes[s] = 1
    /\ handler[s] = "streaming" /\ s \notin subs => closes[s] = 1

(* A send on a closed channel panics: a notification that run() holds      *)
(* while Hub.Close or a leaving client closes the channel never reaches it.*)
NoSendOnClosed == [][\A s \in Subs : closes[s] > 0 => Len(ch'[s]) <= Len(ch[s])]_vars

Delivered(s) == {got[s][i] : i \in 1..Len(got[s])} \cup {ch[s][i] : i \in 1..Len(ch[s])}
Over(s)      == IF s \in subs THEN seen[want[s].at] ELSE upto[s]
Missed(s)    == {n \in (from[s] + 1)..Over(s) : WantsNote(s, n)} \ Delivered(s)

(* Dropped(): an event that passes the filter of a subscription while it   *)
(* is registered is in its channel, was read, or was counted, once for     *)
(* each subscription that lost it.  (hub.go:138 has it count each event    *)
(* once, however many lost it: see DropsOncePerEvent below.)               *)
DropsCounted ==
  \A r \in Replicas :
    dropped[r] = Cardinality({p \in At(r) \X (1..MaxEvents) : p[2] \in Missed(p[1])})

(* The feed's promise: org scoping, filter, publish order, no duplicates.  *)
LF == INSTANCE LossyFeed
        WITH want <- [s \in Subs |-> {e \in Events : Wants(s, e)}],
             joined <- {s \in Subs : handler[s] # "idle"}
FeedPromise == LF!Spec

(* Hub.Close: "stops the listener loop"; main waits for it on shutdown.    *)
CloseTerminates == \A r \in Replicas : hub[r] = "closing" ~> hub[r] = "closed"

(* Closing the hub ends the SSE streams of the replica: each handler       *)
(* drains its channel, sees it closed and returns.                         *)
StreamsEnd ==
  \A s \in Subs : hub[want[s].at] # "open" /\ handler[s] = "streaming" ~> handler[s] = "returned"

(***************************************************************************)
(* The inductive invariant behind these properties (FeedHub_proofs).       *)
(***************************************************************************)

(* A listener's notifications are those it has not dispatched, in publish  *)
(* order.                                                                  *)
WireInOrder ==
  \A r \in Replicas :
    /\ seen[r] <= Len(log)
    /\ \A i \in 1..Len(wire[r]) :
         wire[r][i] # 0 => seen[r] < wire[r][i] /\ wire[r][i] <= Len(log)
    /\ \A i, j \in 1..Len(wire[r]) :
         i < j /\ wire[r][i] # 0 /\ wire[r][j] # 0 => wire[r][i] < wire[r][j]
    /\ listener[r] = "dispatching" /\ inHand[r] # 0 =>
         /\ seen[r] < inHand[r] /\ inHand[r] <= Len(log)
         /\ \A i \in 1..Len(wire[r]) : wire[r][i] # 0 => inHand[r] < wire[r][i]

(* What a handler has read and, after it, what its channel holds are log   *)
(* positions in increasing order, all meant for the subscription and       *)
(* dispatched by its hub after it was made.                                *)
Stream(s) == got[s] \o ch[s]
ChannelsInOrder ==
  \A s \in Subs :
    /\ \A i \in 1..Len(Stream(s)) :
         /\ from[s] < Stream(s)[i] /\ Stream(s)[i] <= seen[want[s].at]
         /\ Wants(s, log[Stream(s)[i]])
    /\ \A i, j \in 1..Len(Stream(s)) : i < j => Stream(s)[i] < Stream(s)[j]
    /\ from[s] <= seen[want[s].at]
    /\ handler[s] = "idle" => Stream(s) = <<>>

IndInv == TypeOK /\ ChannelDiscipline /\ WireInOrder /\ ChannelsInOrder

(* What run() has not dispatched yet, it has in hand or on its connection. *)
NothingSkipped ==
  \A r \in Replicas : Listening(r) =>
    \A n \in (seen[r] + 1)..Len(log) :
      \/ listener[r] = "dispatching" /\ inHand[r] = n
      \/ \E i \in 1..Len(wire[r]) : wire[r][i] = n

RemovedInTime ==
  \A s \in Subs : /\ upto[s] <= seen[want[s].at]
                  /\ handler[s] = "idle" => upto[s] = 0

CountInv == IndInv /\ NothingSkipped /\ RemovedInTime /\ DropsCounted

(***************************************************************************)
(* What a comment of the code promises and the code does not keep.         *)
(***************************************************************************)

(* "dropped counts events the publisher couldn't enqueue to at least one   *)
(* subscriber's channel because the buffer was full": each such event      *)
(* once.  dispatch adds one for every subscription whose buffer is full.   *)
DropsOncePerEvent ==
  \A r \in Replicas :
    dropped[r] = Cardinality({n \in 1..MaxEvents : \E s \in At(r) : n \in Missed(s)})
=============================================================================
