---------------------------- MODULE FeedHub_proofs ----------------------------
(***************************************************************************)
(* Proofs about FeedHub, for any replicas, subscriptions, filters, events  *)
(* and buffer size.                                                        *)
(***************************************************************************)
EXTENDS FeedHub, FiniteSetTheorems, SequenceTheorems, TLAPS

(* The inductive invariant holds of hubs that have just started. *)
LEMMA InitInv == Init => IndInv
<1> SUFFICES ASSUME Init PROVE IndInv
  OBVIOUS
<1> USE FeedHubAssumption DEF Init
<1>1. TypeOK
  BY DEF TypeOK, Notes
<1>2. ChannelDiscipline
  BY DEF ChannelDiscipline
<1>3. WireInOrder
  BY DEF WireInOrder
<1>4. ChannelsInOrder
  <2> SUFFICES ASSUME NEW s \in Subs PROVE Stream(s) = <<>> /\ from[s] = 0 /\ seen[want[s].at] = 0
    BY DEF ChannelsInOrder
  <2> QED
    BY DEF Stream
<1> QED
  BY <1>1, <1>2, <1>3, <1>4 DEF IndInv

(* Type correctness of every step. *)
LEMMA TypeStep == IndInv /\ [Next]_vars => TypeOK'
<1> SUFFICES ASSUME IndInv, [Next]_vars PROVE TypeOK'
  OBVIOUS
<1> USE FeedHubAssumption
<1>0. TypeOK
  BY DEF IndInv
<1>1. ASSUME NEW e \in Events, Publish(e) PROVE TypeOK'
  <2>1. Len(log) + 1 \in Notes /\ log' \in Seq(Events) /\ Len(log') = Len(log) + 1
    BY <1>0, <1>1 DEF TypeOK, Publish, Notes
  <2>2. wire' \in [Replicas -> Seq(Notes)]
    BY <1>0, <1>1, <2>1 DEF TypeOK, Publish, Notify
  <2> QED
    BY <1>0, <1>1, <2>1, <2>2 DEF TypeOK, Publish
<1>2. ASSUME PublishElsewhere PROVE TypeOK'
  <2>0. 0 \in Notes
    BY DEF Notes
  <2>1. wire' \in [Replicas -> Seq(Notes)]
    BY <1>0, <1>2, <2>0 DEF TypeOK, PublishElsewhere, Notify
  <2> QED
    BY <1>0, <1>2, <2>1 DEF TypeOK, PublishElsewhere
<1>3. ASSUME NEW r \in Replicas, WaitForNotification(r) PROVE TypeOK'
  BY <1>0, <1>3 DEF TypeOK, WaitForNotification
<1>4. ASSUME NEW r \in Replicas, Dispatch(r) PROVE TypeOK'
  <2>1. Cardinality({s \in Targets(r) : ~Fits(s)}) \in Nat
    <3>1. {s \in Targets(r) : ~Fits(s)} \subseteq Subs
      BY <1>0 DEF Targets, TypeOK
    <3> QED
      BY <3>1, FS_Subset, FS_CardinalityType
  <2>2. dropped' \in [Replicas -> Nat]
    BY <1>0, <1>4, <2>1 DEF TypeOK, Dispatch
  <2>3. ch' \in [Subs -> Seq(Notes)] /\ \A s \in Subs : Len(ch'[s]) <= Buffer
    <3>1. ch \in [Subs -> Seq(Notes)] /\ inHand[r] \in Notes
      BY <1>0 DEF TypeOK
    <3>2. ch' \in [Subs -> Seq(Notes)]
      BY <1>4, <3>1 DEF Dispatch
    <3>3. ASSUME NEW s \in Subs PROVE Len(ch'[s]) <= Buffer
      <4>1. ch[s] \in Seq(Notes) /\ Len(ch[s]) <= Buffer
        BY <1>0 DEF TypeOK
      <4>2. ch'[s] = ch[s] \/ (Len(ch[s]) < Buffer /\ ch'[s] = Append(ch[s], inHand[r]))
        BY <1>4 DEF Dispatch, Fits
      <4>3. Len(ch[s]) \in Nat /\ Len(Append(ch[s], inHand[r])) = Len(ch[s]) + 1
        BY <3>1, <4>1
      <4> QED
        BY <4>1, <4>2, <4>3
    <3> QED
      BY <3>2, <3>3
  <2> QED
    BY <1>0, <1>4, <2>2, <2>3 DEF TypeOK, Dispatch
<1>5. ASSUME NEW r \in Replicas, StopListener(r) PROVE TypeOK'
  BY <1>0, <1>5 DEF TypeOK, StopListener
<1>6. ASSUME NEW r \in Replicas, ListenerFails(r) PROVE TypeOK'
  BY <1>0, <1>6 DEF TypeOK, ListenerFails
<1>7. ASSUME DbDown \/ DbUp PROVE TypeOK'
  BY <1>0, <1>7 DEF TypeOK, DbDown, DbUp
<1>8. ASSUME NEW s \in Subs, Subscribe(s) PROVE TypeOK'
  <2>1. closes' \in [Subs -> Nat] /\ subs' \subseteq Subs
    <3>1. /\ closes \in [Subs -> Nat] /\ subs \subseteq Subs
      BY <1>0 DEF TypeOK
    <3>2. \/ subs' = subs \cup {s} /\ closes' = closes
          \/ subs' = subs /\ closes' = [closes EXCEPT ![s] = @ + 1]
      BY <1>8 DEF Subscribe
    <3> QED
      BY <3>1, <3>2
  <2>2. /\ from' \in [Subs -> Notes] /\ upto' \in [Subs -> Notes]
        /\ handler' \in [Subs -> {"idle", "streaming", "returned"}]
    <3>1. /\ from \in [Subs -> Notes] /\ upto \in [Subs -> Notes] /\ seen[want[s].at] \in Notes
          /\ handler \in [Subs -> {"idle", "streaming", "returned"}]
      BY <1>0 DEF TypeOK
    <3>2. /\ from' = [from EXCEPT ![s] = seen[want[s].at]]
          /\ upto' = [upto EXCEPT ![s] = seen[want[s].at]]
          /\ handler' = [handler EXCEPT ![s] = "streaming"]
      BY <1>8 DEF Subscribe
    <3> QED
      BY <3>1, <3>2
  <2> QED
    BY <1>0, <1>8, <2>1, <2>2 DEF TypeOK, Subscribe
<1>9. ASSUME NEW s \in Subs, Receive(s) PROVE TypeOK'
  <2>1. ch' \in [Subs -> Seq(Notes)] /\ got' \in [Subs -> Seq(Notes)]
    BY <1>0, <1>9 DEF TypeOK, Receive
  <2>2. ASSUME NEW q \in Subs PROVE Len(ch'[q]) <= Buffer
    <3>1. ch[q] \in Seq(Notes) /\ Len(ch[q]) <= Buffer /\ Len(ch[q]) \in Nat
      BY <1>0 DEF TypeOK
    <3>2. ch'[q] = ch[q] \/ (ch[q] # <<>> /\ ch'[q] = Tail(ch[q]))
      BY <1>0, <1>9 DEF TypeOK, Receive
    <3>3. ch[q] # <<>> => Len(Tail(ch[q])) = Len(ch[q]) - 1
      BY <3>1
    <3>4. CASE ch'[q] = ch[q]
      BY <3>1, <3>4
    <3>5. CASE ch[q] # <<>> /\ ch'[q] = Tail(ch[q])
      <4>1. Len(ch'[q]) = Len(ch[q]) - 1
        BY <3>3, <3>5, Zenon
      <4> QED
        BY <3>1, <4>1
    <3> QED
      BY <3>2, <3>4, <3>5
  <2> QED
    BY <1>0, <1>9, <2>1, <2>2 DEF TypeOK, Receive
<1>d. ASSUME NEW S, Detach(S)
      PROVE  subs' \subseteq Subs /\ closes' \in [Subs -> Nat] /\ upto' \in [Subs -> Notes]
  BY <1>0, <1>d DEF TypeOK, Detach
<1>10. ASSUME NEW s \in Subs, ClientLeaves(s) \/ EndOfFeed(s) PROVE TypeOK'
  <2>1. subs' \subseteq Subs /\ closes' \in [Subs -> Nat] /\ upto' \in [Subs -> Notes]
    BY <1>10, <1>d DEF ClientLeaves, EndOfFeed
  <2> QED
    BY <1>0, <1>10, <2>1 DEF TypeOK, ClientLeaves, EndOfFeed
<1>11. ASSUME NEW r \in Replicas, CloseHub(r) PROVE TypeOK'
  <2>1. subs' \subseteq Subs /\ closes' \in [Subs -> Nat] /\ upto' \in [Subs -> Notes]
    BY <1>11, <1>d DEF CloseHub
  <2> QED
    BY <1>0, <1>11, <2>1 DEF TypeOK, CloseHub
<1>12. ASSUME NEW r \in Replicas, CloseReturns(r) PROVE TypeOK'
  BY <1>0, <1>12 DEF TypeOK, CloseReturns
<1>13. ASSUME UNCHANGED vars PROVE TypeOK'
  BY <1>0, <1>13 DEF TypeOK, vars
<1> QED
  BY <1>1, <1>2, <1>3, <1>4, <1>5, <1>6, <1>7, <1>8, <1>9, <1>10, <1>11, <1>12, <1>13
     DEF Next, Run

(* Every step keeps each channel closed at most once, by the hub or by its *)
(* subscription.                                                           *)
LEMMA DisciplineStep == IndInv /\ [Next]_vars => ChannelDiscipline'
<1> SUFFICES ASSUME IndInv, [Next]_vars PROVE ChannelDiscipline'
  OBVIOUS
<1>0. TypeOK /\ ChannelDiscipline
  BY DEF IndInv
<1>1. ASSUME UNCHANGED <<want, subs, closes, handler, hub>> PROVE ChannelDiscipline'
  BY <1>0, <1>1 DEF ChannelDiscipline
<1>2. ASSUME NEW s \in Subs, Subscribe(s) PROVE ChannelDiscipline'
  BY <1>0, <1>2 DEF TypeOK, ChannelDiscipline, Subscribe
<1>3. ASSUME NEW s \in Subs, ClientLeaves(s) \/ EndOfFeed(s) PROVE ChannelDiscipline'
  BY <1>0, <1>3 DEF TypeOK, ChannelDiscipline, ClientLeaves, EndOfFeed, Detach
<1>4. ASSUME NEW r \in Replicas, CloseHub(r) PROVE ChannelDiscipline'
  BY <1>0, <1>4 DEF TypeOK, ChannelDiscipline, CloseHub, Detach, At
<1>5. ASSUME NEW r \in Replicas, CloseReturns(r) PROVE ChannelDiscipline'
  BY <1>0, <1>5 DEF TypeOK, ChannelDiscipline, CloseReturns
<1> QED
  BY <1>1, <1>2, <1>3, <1>4, <1>5 DEF Next, Run, Publish, PublishElsewhere, WaitForNotification,
     Dispatch, StopListener, ListenerFails, DbDown, DbUp, Receive, vars

(* WireInOrder, of one listener. *)
Ordered(lg, sn, wr, ls, ih) ==
  /\ sn <= Len(lg)
  /\ \A i \in 1..Len(wr) : wr[i] # 0 => sn < wr[i] /\ wr[i] <= Len(lg)
  /\ \A i, j \in 1..Len(wr) : i < j /\ wr[i] # 0 /\ wr[j] # 0 => wr[i] < wr[j]
  /\ ls = "dispatching" /\ ih # 0 =>
       /\ sn < ih /\ ih <= Len(lg)
       /\ \A i \in 1..Len(wr) : wr[i] # 0 => ih < wr[i]

(* A notification that arrives last is the newest. *)
LEMMA OrderedAppend ==
  ASSUME NEW lg, NEW lg2, NEW sn \in Nat, NEW wr \in Seq(Nat), NEW ls, NEW ih \in Nat, NEW n \in Nat,
         Len(lg) \in Nat, Len(lg2) \in Nat,
         \/ n = 0 /\ Len(lg2) = Len(lg)
         \/ n = Len(lg) + 1 /\ Len(lg2) = Len(lg) + 1,
         Ordered(lg, sn, wr, ls, ih)
  PROVE  Ordered(lg2, sn, Append(wr, n), ls, ih) /\ Ordered(lg2, sn, wr, ls, ih)
<1> DEFINE w2 == Append(wr, n)
<1>1. /\ Len(w2) = Len(wr) + 1 /\ Len(wr) \in Nat
      /\ \A i \in 1..Len(wr) : w2[i] = wr[i] /\ wr[i] \in Nat
      /\ w2[Len(wr) + 1] = n
  OBVIOUS
<1>2. \A i \in 1..Len(w2) : i \in 1..Len(wr) \/ i = Len(wr) + 1
  BY <1>1
<1>3. Ordered(lg2, sn, wr, ls, ih)
  BY <1>1 DEF Ordered
<1> HIDE DEF w2
<1>4. \A i \in 1..Len(w2) : w2[i] # 0 => sn < w2[i] /\ w2[i] <= Len(lg2)
  BY <1>1, <1>2 DEF Ordered
<1>5. ASSUME NEW i \in 1..Len(w2), NEW j \in 1..Len(w2), i < j, w2[i] # 0, w2[j] # 0
      PROVE  w2[i] < w2[j]
  <2>1. i \in 1..Len(wr) /\ w2[i] = wr[i] /\ wr[i] \in Nat
    BY <1>1, <1>5
  <2>2. wr[i] <= Len(lg)
    BY <1>5, <2>1 DEF Ordered
  <2>3. CASE j \in 1..Len(wr)
    <3>1. w2[j] = wr[j]
      BY <1>1, <2>3
    <3> QED
      BY <1>5, <2>1, <2>3, <3>1 DEF Ordered
  <2>4. CASE j = Len(wr) + 1
    <3>1. w2[j] = Len(lg) + 1
      BY <1>1, <1>5, <2>4
    <3> QED
      BY <2>1, <2>2, <3>1
  <2> QED
    BY <1>2, <1>5, <2>3, <2>4
<1>6. ls = "dispatching" /\ ih # 0 => \A i \in 1..Len(w2) : w2[i] # 0 => ih < w2[i]
  BY <1>1, <1>2 DEF Ordered
<1> QED
  BY <1>3, <1>4, <1>5, <1>6 DEF Ordered, w2

(* Every step keeps the notifications of each listener in publish order. *)
LEMMA WireStep == IndInv /\ [Next]_vars => WireInOrder'
<1> SUFFICES ASSUME IndInv, [Next]_vars, NEW q \in Replicas
             PROVE  Ordered(log', seen'[q], wire'[q], listener'[q], inHand'[q])
  BY DEF WireInOrder, Ordered
<1> DEFINE Goal == Ordered(log', seen'[q], wire'[q], listener'[q], inHand'[q])
<1> USE FeedHubAssumption
<1>0. TypeOK /\ Ordered(log, seen[q], wire[q], listener[q], inHand[q])
  BY DEF IndInv, WireInOrder, Ordered
<1>t. /\ wire[q] \in Seq(Nat) /\ seen[q] \in Nat /\ inHand[q] \in Nat /\ Len(log) \in Nat
  BY <1>0 DEF TypeOK, Notes
<1>1. ASSUME wire'[q] = wire[q], seen' = seen, log' = log, inHand'[q] = inHand[q],
             listener'[q] = "dispatching" => listener[q] = "dispatching"
      PROVE  Goal
  BY <1>0, <1>1 DEF Ordered
<1>3. ASSUME NEW e \in Events, Publish(e) PROVE Goal
  <2>1. Len(log') = Len(log) + 1
    BY <1>0, <1>3 DEF TypeOK, Publish
  <2>2. wire'[q] = wire[q] \/ wire'[q] = Append(wire[q], Len(log) + 1)
    BY <1>3 DEF Publish, Notify
  <2>3. Len(log) + 1 \in Nat /\ Len(log') \in Nat
    BY <1>t, <2>1
  <2>4. /\ Ordered(log', seen[q], Append(wire[q], Len(log) + 1), listener[q], inHand[q])
        /\ Ordered(log', seen[q], wire[q], listener[q], inHand[q])
    BY <1>0, <1>t, <2>1, <2>3, OrderedAppend
  <2> QED
    BY <1>3, <2>2, <2>4 DEF Publish
<1>4. ASSUME PublishElsewhere PROVE Goal
  <2>1. wire'[q] = wire[q] \/ wire'[q] = Append(wire[q], 0)
    BY <1>4 DEF PublishElsewhere, Notify
  <2>2. /\ Ordered(log, seen[q], Append(wire[q], 0), listener[q], inHand[q])
        /\ Ordered(log, seen[q], wire[q], listener[q], inHand[q])
    BY <1>0, <1>t, OrderedAppend
  <2> QED
    BY <1>4, <2>1, <2>2 DEF PublishElsewhere
<1>5. ASSUME NEW r \in Replicas, WaitForNotification(r) PROVE Goal
  <2>1. CASE r # q
    BY <1>0, <1>1, <1>5, <2>1 DEF TypeOK, WaitForNotification
  <2>2. CASE r = q
    <3>1. /\ wire[q] # <<>> /\ inHand'[q] = wire[q][1] /\ wire'[q] = Tail(wire[q])
          /\ seen' = seen /\ log' = log
      BY <1>0, <1>5, <2>2 DEF TypeOK, WaitForNotification
    <3> DEFINE tl == Tail(wire[q])
    <3>2. /\ Len(wire[q]) \in Nat \ {0} /\ Len(tl) = Len(wire[q]) - 1
          /\ \A i \in 1..Len(tl) : tl[i] = wire[q][i + 1] /\ i + 1 \in 1..Len(wire[q])
          /\ \A i \in 1..Len(wire[q]) : wire[q][i] \in Nat
      BY <1>t, <3>1
    <3> HIDE DEF tl
    <3>3. 1 \in 1..Len(wire[q]) /\ \A i \in 1..Len(tl) : 1 < i + 1
      BY <3>2
    <3>4. \A i \in 1..Len(tl) : tl[i] # 0 => seen[q] < tl[i] /\ tl[i] <= Len(log)
      BY <1>0, <3>2 DEF Ordered
    <3>5. ASSUME NEW i \in 1..Len(tl), NEW j \in 1..Len(tl), i < j, tl[i] # 0, tl[j] # 0
          PROVE  tl[i] < tl[j]
      <4>1. /\ tl[i] = wire[q][i + 1] /\ i + 1 \in 1..Len(wire[q])
            /\ tl[j] = wire[q][j + 1] /\ j + 1 \in 1..Len(wire[q])
            /\ i + 1 < j + 1
        BY <3>2, <3>5
      <4> QED
        BY <1>0, <3>5, <4>1 DEF Ordered
    <3>6. wire[q][1] # 0 =>
            /\ seen[q] < wire[q][1] /\ wire[q][1] <= Len(log)
            /\ \A i \in 1..Len(tl) : tl[i] # 0 => wire[q][1] < tl[i]
      BY <1>0, <3>2, <3>3 DEF Ordered
    <3>7. seen[q] <= Len(log)
      BY <1>0 DEF Ordered
    <3>8. Ordered(log, seen[q], tl, listener'[q], wire[q][1])
      BY <3>4, <3>5, <3>6, <3>7 DEF Ordered
    <3> QED
      BY <3>1, <3>8 DEF tl
  <2> QED
    BY <2>1, <2>2
<1>6. ASSUME NEW r \in Replicas, Dispatch(r) PROVE Goal
  <2>1. /\ wire' = wire /\ log' = log /\ inHand' = inHand
        /\ r # q => listener'[q] = listener[q] /\ seen'[q] = seen[q]
        /\ r = q => /\ listener[q] = "dispatching" /\ listener'[q] = "waiting"
                    /\ seen'[q] = IF inHand[q] = 0 THEN seen[q] ELSE inHand[q]
    BY <1>0, <1>6 DEF TypeOK, Dispatch
  <2> QED
    BY <1>0, <1>t, <2>1 DEF Ordered
<1>7. ASSUME NEW r \in Replicas, ListenerFails(r) PROVE Goal
  <2>1. /\ seen' = seen /\ log' = log /\ inHand' = inHand
        /\ r # q => wire'[q] = wire[q] /\ listener'[q] = listener[q]
        /\ r = q => wire'[q] = <<>> /\ listener'[q] = "exited"
    BY <1>0, <1>7 DEF TypeOK, ListenerFails
  <2> QED
    BY <1>0, <1>t, <2>1 DEF Ordered
<1>8. ASSUME NEW r \in Replicas, StopListener(r) PROVE Goal
  BY <1>0, <1>1, <1>8 DEF TypeOK, StopListener
<1>9. ASSUME UNCHANGED <<wire, seen, log, inHand, listener>> PROVE Goal
  BY <1>1, <1>9
<1> QED
  BY <1>3, <1>4, <1>5, <1>6, <1>7, <1>8, <1>9 DEF Next, Run, CloseHub, CloseReturns, Subscribe,
     Receive, ClientLeaves, EndOfFeed, DbDown, DbUp, vars

(* ChannelsInOrder, of one subscription. *)
InFeed(w, lg, fr, sn, q) ==
  /\ \A i \in 1..Len(q) : /\ fr < q[i] /\ q[i] <= sn
                          /\ w.org = lg[q[i]].org /\ Matches(w.filter, lg[q[i]])
  /\ \A i, j \in 1..Len(q) : i < j => q[i] < q[j]
  /\ fr <= sn

(* A feed stays one when more events are published and dispatched. *)
LEMMA InFeedGrows ==
  ASSUME NEW w, NEW lg, NEW lg2, NEW fr \in Nat, NEW sn \in Nat, NEW sn2 \in Nat, NEW q \in Seq(Nat),
         InFeed(w, lg, fr, sn, q), sn <= Len(lg), Len(lg) \in Nat, sn <= sn2,
         \A i \in 1..Len(lg) : lg2[i] = lg[i]
  PROVE  InFeed(w, lg2, fr, sn2, q)
<1>1. \A i \in 1..Len(q) : q[i] \in Nat
  OBVIOUS
<1>2. ASSUME NEW i \in 1..Len(q)
      PROVE  /\ fr < q[i] /\ q[i] <= sn2
             /\ w.org = lg2[q[i]].org /\ Matches(w.filter, lg2[q[i]])
  <2>1. q[i] \in 1..Len(lg) /\ fr < q[i] /\ q[i] <= sn2
    BY <1>1 DEF InFeed
  <2>2. lg2[q[i]] = lg[q[i]]
    BY <2>1
  <2> QED
    BY <2>1, <2>2 DEF InFeed
<1>3. fr <= sn2
  BY DEF InFeed
<1>4. \A i, j \in 1..Len(q) : i < j => q[i] < q[j]
  BY DEF InFeed
<1> QED
  BY <1>2, <1>3, <1>4 DEF InFeed

(* The event dispatched last extends a feed. *)
LEMMA InFeedAppend ==
  ASSUME NEW w, NEW lg, NEW fr \in Nat, NEW sn \in Nat, NEW q \in Seq(Nat), NEW n \in Nat,
         InFeed(w, lg, fr, sn, q), sn < n,
         w.org = lg[n].org /\ Matches(w.filter, lg[n])
  PROVE  InFeed(w, lg, fr, n, Append(q, n))
<1> DEFINE q2 == Append(q, n)
<1>1. /\ Len(q2) = Len(q) + 1 /\ Len(q) \in Nat
      /\ \A i \in 1..Len(q) : q2[i] = q[i] /\ q[i] \in Nat
      /\ q2[Len(q) + 1] = n
  OBVIOUS
<1>2. \A i \in 1..Len(q2) : i \in 1..Len(q) \/ i = Len(q) + 1
  BY <1>1
<1> HIDE DEF q2
<1>3. \A i \in 1..Len(q) : fr < q[i] /\ q[i] < n
  BY <1>1 DEF InFeed
<1>4. ASSUME NEW i \in 1..Len(q2)
      PROVE  /\ fr < q2[i] /\ q2[i] <= n
             /\ w.org = lg[q2[i]].org /\ Matches(w.filter, lg[q2[i]])
  <2>1. CASE i \in 1..Len(q)
    BY <1>1, <1>3, <2>1 DEF InFeed
  <2>2. CASE i = Len(q) + 1
    BY <1>1, <2>2 DEF InFeed
  <2> QED
    BY <1>2, <2>1, <2>2
<1>5. ASSUME NEW i \in 1..Len(q2), NEW j \in 1..Len(q2), i < j PROVE q2[i] < q2[j]
  <2>1. i \in 1..Len(q)
    BY <1>1, <1>5
  <2>2. CASE j \in 1..Len(q)
    BY <1>1, <1>5, <2>1, <2>2 DEF InFeed
  <2>3. CASE j = Len(q) + 1
    BY <1>1, <1>3, <2>1, <2>3
  <2> QED
    BY <1>2, <2>2, <2>3
<1>6. fr <= n
  BY DEF InFeed
<1> QED
  BY <1>4, <1>5, <1>6 DEF InFeed, q2

(* Reading moves an event from the channel to the handler and leaves the   *)
(* stream as it is; a send extends it.                                     *)
LEMMA StreamMoves ==
  ASSUME NEW g \in Seq(Nat), NEW c \in Seq(Nat), NEW n \in Nat
  PROVE  /\ c # <<>> => Append(g, Head(c)) \o Tail(c) = g \o c
         /\ g \o Append(c, n) = Append(g \o c, n)
         /\ g \o c \in Seq(Nat)
<1>1. ASSUME c # <<>> PROVE Append(g, Head(c)) \o Tail(c) = g \o c
  <2> DEFINE a == Append(g, Head(c)) \o Tail(c)
             b == g \o c
  <2>1. a \in Seq(Nat) /\ b \in Seq(Nat) /\ Len(a) = Len(b)
    BY <1>1
  <2>2. \A i \in 1..Len(b) : a[i] = b[i]
    BY <1>1
  <2> QED
    BY <2>1, <2>2, SeqEqual
<1>2. g \o Append(c, n) = Append(g \o c, n)
  <2> DEFINE a == g \o Append(c, n)
             b == Append(g \o c, n)
  <2>1. a \in Seq(Nat) /\ b \in Seq(Nat) /\ Len(a) = Len(b)
    OBVIOUS
  <2>2. \A i \in 1..Len(b) : a[i] = b[i]
    OBVIOUS
  <2> QED
    BY <2>1, <2>2, SeqEqual
<1>3. g \o c \in Seq(Nat)
  OBVIOUS
<1> QED
  BY <1>1, <1>2, <1>3, Zenon

(* Every step keeps the stream of each subscription in publish order,      *)
(* within its org, its filter and the time it is subscribed.               *)
LEMMA ChannelsStep == IndInv /\ [Next]_vars => ChannelsInOrder'
<1> SUFFICES ASSUME IndInv, [Next]_vars, NEW s \in Subs
             PROVE  /\ InFeed(want'[s], log', from'[s], seen'[want'[s].at], Stream(s)')
                    /\ handler'[s] = "idle" => Stream(s)' = <<>>
  BY DEF ChannelsInOrder, InFeed, Wants
<1> DEFINE r == want[s].at
           Goal == /\ InFeed(want[s], log', from'[s], seen'[r], Stream(s)')
                   /\ handler'[s] = "idle" => Stream(s)' = <<>>
<1> USE FeedHubAssumption
<1>0. /\ TypeOK /\ WireInOrder /\ ChannelDiscipline
      /\ InFeed(want[s], log, from[s], seen[r], Stream(s))
      /\ handler[s] = "idle" => Stream(s) = <<>>
  BY DEF IndInv, ChannelsInOrder, InFeed, Wants
<1>w. want' = want
  BY DEF Next, Run, Publish, PublishElsewhere, WaitForNotification, Dispatch, StopListener,
     ListenerFails, CloseHub, CloseReturns, Subscribe, Receive, ClientLeaves, EndOfFeed,
     DbDown, DbUp, vars
<1>t. /\ r \in Replicas /\ seen[r] \in Nat /\ from[s] \in Nat /\ Len(log) \in Nat
      /\ got[s] \in Seq(Nat) /\ ch[s] \in Seq(Nat) /\ seen[r] <= Len(log)
      /\ Stream(s) \in Seq(Nat)
  <2>1. /\ r \in Replicas /\ seen[r] \in Nat /\ from[s] \in Nat /\ Len(log) \in Nat
        /\ got[s] \in Seq(Nat) /\ ch[s] \in Seq(Nat)
    BY <1>0 DEF TypeOK, Notes
  <2> QED
    BY <1>0, <2>1, StreamMoves DEF WireInOrder, Stream
<1>1. ASSUME Stream(s)' = Stream(s), seen' = seen, log' = log, from'[s] = from[s],
             handler'[s] = "idle" => handler[s] = "idle"
      PROVE  Goal
  BY <1>0, <1>1
<1>2. ASSUME NEW e \in Events, Publish(e) PROVE Goal
  <2>1. /\ Stream(s)' = Stream(s) /\ seen' = seen /\ from' = from /\ handler' = handler
        /\ log' = Append(log, e) /\ log \in Seq(Events)
    BY <1>0, <1>2 DEF Publish, Stream, TypeOK
  <2>2. \A i \in 1..Len(log) : log'[i] = log[i]
    BY <2>1
  <2>3. InFeed(want[s], log', from[s], seen[r], Stream(s))
    BY <1>0, <1>t, <2>2, InFeedGrows
  <2> QED
    BY <1>0, <2>1, <2>3
<1>3. ASSUME NEW p \in Replicas, Dispatch(p) PROVE Goal
  <2>1. /\ log' = log /\ from' = from /\ handler' = handler /\ got' = got
        /\ p # r => seen'[r] = seen[r]
        /\ p = r => seen'[r] = IF inHand[r] = 0 THEN seen[r] ELSE inHand[r]
        /\ inHand[r] \in Nat /\ listener[p] = "dispatching"
    <3>1. seen \in [Replicas -> Notes] /\ inHand[r] \in Nat
      BY <1>0, <1>t DEF TypeOK, Notes
    <3>2. /\ log' = log /\ from' = from /\ handler' = handler /\ got' = got
          /\ listener[p] = "dispatching"
          /\ seen' = [seen EXCEPT ![p] = IF inHand[p] = 0 THEN seen[p] ELSE inHand[p]]
      BY <1>3 DEF Dispatch
    <3> HIDE DEF r
    <3> QED
      BY <1>t, <3>1, <3>2
  <2>2. CASE s \in Targets(p) /\ Fits(s)
    <3>1. p = r /\ inHand[r] # 0 /\ Wants(s, log[inHand[r]]) /\ s \in subs
      BY <2>2 DEF Targets, At, WantsNote
    <3>2. seen[r] < inHand[r]
      BY <1>0, <1>t, <2>1, <3>1 DEF WireInOrder
    <3>3. ch'[s] = Append(ch[s], inHand[r])
      BY <1>3, <2>2, <3>1 DEF Dispatch
    <3>4. Stream(s)' = Append(Stream(s), inHand[r])
      <4>1. got[s] \o Append(ch[s], inHand[r]) = Append(got[s] \o ch[s], inHand[r])
        <5>1. got[s] \in Seq(Nat) /\ ch[s] \in Seq(Nat) /\ inHand[r] \in Nat
          BY <1>t, <2>1
        <5> HIDE DEF r
        <5> QED
          BY <5>1, StreamMoves, Zenon
      <4>2. Stream(s)' = got[s] \o ch'[s]
        BY <2>1 DEF Stream
      <4> QED
        BY <3>3, <4>1, <4>2, Zenon DEF Stream
    <3>5. InFeed(want[s], log, from[s], inHand[r], Append(Stream(s), inHand[r]))
      BY <1>0, <1>t, <2>1, <3>1, <3>2, InFeedAppend DEF Wants
    <3>6. handler[s] # "idle"
      BY <1>0, <3>1 DEF ChannelDiscipline
    <3> QED
      BY <2>1, <3>1, <3>4, <3>5, <3>6
  <2>3. CASE ~(s \in Targets(p) /\ Fits(s))
    <3>1. Stream(s)' = Stream(s)
      BY <1>3, <2>1, <2>3 DEF Dispatch, Stream
    <3>2. seen'[r] \in Nat /\ seen[r] <= seen'[r]
      BY <1>0, <1>t, <2>1 DEF WireInOrder
    <3>3. InFeed(want[s], log, from[s], seen'[r], Stream(s))
      BY <1>0, <1>t, <3>2, InFeedGrows
    <3> QED
      BY <1>0, <2>1, <3>1, <3>3
  <2> QED
    BY <2>2, <2>3
<1>4. ASSUME NEW q \in Subs, Subscribe(q) PROVE Goal
  <2>1. /\ Stream(s)' = Stream(s) /\ seen' = seen /\ log' = log
        /\ q # s => from'[s] = from[s] /\ handler'[s] = handler[s]
        /\ q = s => from'[s] = seen[r] /\ handler'[s] = "streaming" /\ handler[s] = "idle"
    BY <1>0, <1>4 DEF Subscribe, Stream, TypeOK
  <2>2. CASE q # s
    BY <1>1, <2>1, <2>2
  <2>3. CASE q = s
    <3>1. Stream(s) = <<>>
      BY <1>0, <2>1, <2>3
    <3>2. InFeed(want[s], log, seen[r], seen[r], <<>>)
      BY <1>t DEF InFeed
    <3> QED
      BY <2>1, <2>3, <3>1, <3>2
  <2> QED
    BY <2>2, <2>3
<1>5. ASSUME NEW q \in Subs, Receive(q) PROVE Goal
  <2>1. /\ seen' = seen /\ log' = log /\ from' = from /\ handler' = handler
        /\ q # s => ch'[s] = ch[s] /\ got'[s] = got[s]
        /\ q = s => /\ ch[s] # <<>> /\ ch'[s] = Tail(ch[s])
                    /\ got'[s] = Append(got[s], Head(ch[s]))
    BY <1>0, <1>5 DEF Receive, TypeOK
  <2>2. Stream(s)' = Stream(s)
    <3>1. ch[s] # <<>> => Append(got[s], Head(ch[s])) \o Tail(ch[s]) = got[s] \o ch[s]
      <4>1. 0 \in Nat
        OBVIOUS
      <4> QED
        BY <1>t, <4>1, StreamMoves
    <3> QED
      BY <2>1, <3>1 DEF Stream
  <2> QED
    BY <1>1, <2>1, <2>2
<1>6. ASSUME NEW q \in Subs, ClientLeaves(q) \/ EndOfFeed(q) PROVE Goal
  <2>1. /\ Stream(s)' = Stream(s) /\ seen' = seen /\ log' = log /\ from' = from
        /\ handler'[s] = "idle" => handler[s] = "idle"
    BY <1>0, <1>6 DEF ClientLeaves, EndOfFeed, Stream, TypeOK
  <2> QED
    BY <1>1, <2>1
<1>7. ASSUME UNCHANGED <<got, ch, seen, log, from, handler>> PROVE Goal
  BY <1>1, <1>7 DEF Stream
<1>8. Goal
  BY <1>2, <1>3, <1>4, <1>5, <1>6, <1>7 DEF Next, Run, PublishElsewhere, WaitForNotification,
     StopListener, ListenerFails, CloseHub, CloseReturns, DbDown, DbUp, vars
<1> QED
  BY <1>w, <1>8

(* IndInv is an invariant of the hubs. *)
LEMMA Invariance == Spec => []IndInv
<1>1. IndInv /\ [Next]_vars => IndInv'
  BY TypeStep, DisciplineStep, WireStep, ChannelsStep DEF IndInv
<1> QED
  BY <1>1, InitInv, PTL DEF Spec

(* Every variable of the hubs keeps its type, the event counters their     *)
(* bound included.                                                         *)
THEOREM TypeCorrect == Spec => []TypeOK
<1>1. IndInv => TypeOK
  BY DEF IndInv
<1> QED
  BY <1>1, Invariance, PTL

(* Subscription.Close and Hub.Close, in whatever order and number they     *)
(* come, close each channel exactly once and forget it when they do.       *)
THEOREM ClosedExactlyOnce == Spec => []ChannelDiscipline
<1>1. IndInv => ChannelDiscipline
  BY DEF IndInv
<1> QED
  BY <1>1, Invariance, PTL

(* dispatch never sends on a closed channel, even when the subscription    *)
(* goes away, or the hub is closed, while a notification is in hand.       *)
THEOREM NeverSendsOnClosed == Spec => NoSendOnClosed
<1>1. IndInv /\ [Next]_vars =>
        [\A s \in Subs : closes[s] > 0 => Len(ch'[s]) <= Len(ch[s])]_vars
  <2> SUFFICES ASSUME IndInv, Next, NEW s \in Subs, closes[s] > 0
               PROVE  Len(ch'[s]) <= Len(ch[s])
    OBVIOUS
  <2>0. TypeOK /\ ChannelDiscipline
    BY DEF IndInv
  <2>t. ch[s] \in Seq(Notes) /\ Len(ch[s]) \in Nat
    BY <2>0 DEF TypeOK
  <2>1. ASSUME NEW r \in Replicas, Dispatch(r) PROVE Len(ch'[s]) <= Len(ch[s])
    <3>1. s \notin Targets(r)
      BY <2>0 DEF ChannelDiscipline, Targets
    <3>2. ch'[s] = ch[s]
      BY <2>1, <3>1 DEF Dispatch
    <3> QED
      BY <2>t, <3>2
  <2>2. ASSUME NEW q \in Subs, Receive(q) PROVE Len(ch'[s]) <= Len(ch[s])
    <3>1. q # s => ch'[s] = ch[s]
      BY <2>0, <2>2 DEF Receive, TypeOK
    <3>2. q = s => ch[s] # <<>> /\ ch'[s] = Tail(ch[s])
      BY <2>0, <2>2 DEF Receive, TypeOK
    <3>3. ch[s] # <<>> => Len(Tail(ch[s])) = Len(ch[s]) - 1
      BY <2>t
    <3>4. CASE q = s
      <4>1. Len(ch'[s]) = Len(ch[s]) - 1
        BY <3>2, <3>3, <3>4, Zenon
      <4> QED
        BY <2>t, <4>1
    <3>5. CASE q # s
      BY <2>t, <3>1, <3>5
    <3> QED
      BY <3>4, <3>5
  <2>3. ASSUME UNCHANGED ch PROVE Len(ch'[s]) <= Len(ch[s])
    BY <2>t, <2>3
  <2> QED
    BY <2>1, <2>2, <2>3 DEF Next, Run, Publish, PublishElsewhere, WaitForNotification,
       StopListener, ListenerFails, CloseHub, CloseReturns, Subscribe, ClientLeaves, EndOfFeed,
       DbDown, DbUp
<1> QED
  BY <1>1, Invariance, PTL DEF Spec, NoSendOnClosed

(* What a handler reads next is an event its org published and its filter  *)
(* passes, later than everything it has read.                              *)
LEMMA NextInFeed ==
  ASSUME IndInv, NEW s \in Subs, ch[s] # <<>>
  PROVE  /\ Head(ch[s]) \in (from[s] + 1)..Len(log)
         /\ log[Head(ch[s])] \in Events /\ Wants(s, log[Head(ch[s])])
         /\ \A j \in 1..Len(got[s]) : got[s][j] < Head(ch[s])
<1> DEFINE n == Len(got[s]) + 1
<1> USE FeedHubAssumption
<1>1. /\ got[s] \in Seq(Nat) /\ ch[s] \in Seq(Nat) /\ log \in Seq(Events) /\ from[s] \in Nat
      /\ want[s].at \in Replicas /\ seen[want[s].at] \in Nat
  BY DEF IndInv, TypeOK, Notes
<1>2. /\ n \in 1..Len(Stream(s)) /\ Stream(s)[n] = Head(ch[s]) /\ Head(ch[s]) \in Nat
      /\ \A j \in 1..Len(got[s]) : j \in 1..Len(Stream(s)) /\ j < n /\ Stream(s)[j] = got[s][j]
  <2> DEFINE g == got[s]
             c == ch[s]
  <2>1. g \in Seq(Nat) /\ c \in Seq(Nat) /\ c # <<>>
    BY <1>1
  <2>2. Stream(s) = g \o c /\ n = Len(g) + 1
    BY DEF Stream
  <2> HIDE DEF g, c, n
  <2>3. Len(g) \in Nat /\ Len(c) \in Nat \ {0} /\ Len(g \o c) = Len(g) + Len(c)
    BY <2>1
  <2>4. (g \o c)[Len(g) + 1] = Head(c) /\ Head(c) \in Nat
    BY <2>1, <2>3
  <2>5. \A j \in 1..Len(g) : (g \o c)[j] = g[j]
    BY <2>1, <2>3
  <2>6. /\ n \in 1..Len(g \o c) /\ (g \o c)[n] = Head(c) /\ Head(c) \in Nat
        /\ \A j \in 1..Len(g) : j \in 1..Len(g \o c) /\ j < n /\ (g \o c)[j] = g[j]
    BY <2>2, <2>3, <2>4, <2>5
  <2> QED
    BY <2>2, <2>6, Zenon DEF g, c
<1> HIDE DEF n
<1>3. /\ from[s] < Head(ch[s]) /\ Head(ch[s]) <= seen[want[s].at]
      /\ Wants(s, log[Head(ch[s])])
      /\ \A j \in 1..Len(got[s]) : got[s][j] < Head(ch[s])
  BY <1>2 DEF IndInv, ChannelsInOrder
<1>4. seen[want[s].at] <= Len(log)
  BY <1>1 DEF IndInv, WireInOrder
<1>5. Head(ch[s]) \in 1..Len(log) /\ Head(ch[s]) \in (from[s] + 1)..Len(log)
  <2>1. Head(ch[s]) \in Nat /\ from[s] \in Nat /\ Len(log) \in Nat /\ seen[want[s].at] \in Nat
    BY <1>1, <1>2
  <2> QED
    BY <1>3, <1>4, <2>1
<1>6. log[Head(ch[s])] \in Events
  BY <1>1, <1>5
<1> QED
  BY <1>3, <1>5, <1>6

(* The hubs implement LossyFeed: over any number of replicas, restarts of  *)
(* Postgres and full channels, an SSE handler sees events of its own org   *)
(* that pass its filter, in publish order, none twice, none from before it *)
(* subscribed.                                                             *)
THEOREM HubImplementsLossyFeed == Spec => FeedPromise
<1> DEFINE wantBar == [s \in Subs |-> {e \in Events : Wants(s, e)}]
           joinedBar == {s \in Subs : handler[s] # "idle"}
<1>1. Init => LF!Init
  BY DEF Init, LF!Init
<1>2. IndInv /\ [Next]_vars => [LF!Next]_(LF!vars)
  <2> SUFFICES ASSUME IndInv, [Next]_vars PROVE LF!Next \/ UNCHANGED LF!vars
    OBVIOUS
  <2>0. TypeOK
    BY DEF IndInv
  <2>w. want' = want
    BY DEF Next, Run, Publish, PublishElsewhere, WaitForNotification, Dispatch, StopListener,
       ListenerFails, CloseHub, CloseReturns, Subscribe, Receive, ClientLeaves, EndOfFeed,
       DbDown, DbUp, vars
  <2>b. wantBar' = wantBar
    BY <2>w DEF Wants
  <2>1. ASSUME NEW e \in Events, Publish(e) PROVE LF!Next
    <3>1. joinedBar' = joinedBar
      BY <2>1 DEF Publish
    <3>2. LF!Publish
      BY <2>1, <2>b, <3>1 DEF Publish, LF!Publish
    <3> QED
      BY <3>2 DEF LF!Next
  <2>2. ASSUME NEW s \in Subs, Subscribe(s) PROVE LF!Next
    <3>1. s \notin joinedBar /\ joinedBar' = joinedBar \cup {s}
      BY <2>0, <2>2 DEF Subscribe, TypeOK
    <3>2. seen[want[s].at] \in 0..Len(log)
      BY <2>0 DEF IndInv, WireInOrder, TypeOK, Notes
    <3>3. from' = [from EXCEPT ![s] = seen[want[s].at]] /\ UNCHANGED <<log, got>>
      BY <2>2 DEF Subscribe
    <3>4. LF!Join(s)
      BY <2>b, <3>1, <3>2, <3>3 DEF LF!Join
    <3> QED
      BY <3>4 DEF LF!Next
  <2>3. ASSUME NEW s \in Subs, Receive(s) PROVE LF!Next
    <3> DEFINE i == Head(ch[s])
    <3>1. /\ s \in joinedBar /\ joinedBar' = joinedBar /\ UNCHANGED <<log, from>>
          /\ got' = [got EXCEPT ![s] = Append(got[s], i)]
      BY <2>3 DEF Receive
    <3>2. /\ i \in (from[s] + 1)..Len(log) /\ log[i] \in wantBar[s]
          /\ \A j \in 1..Len(got[s]) : got[s][j] < i
      BY <2>3, NextInFeed DEF Receive
    <3>3. LF!Deliver(s)
      BY <2>b, <3>1, <3>2 DEF LF!Deliver
    <3> QED
      BY <3>3 DEF LF!Next
  <2>4. ASSUME NEW s \in Subs, ClientLeaves(s) \/ EndOfFeed(s) PROVE UNCHANGED LF!vars
    <3>1. joinedBar' = joinedBar
      BY <2>0, <2>4 DEF ClientLeaves, EndOfFeed, TypeOK
    <3> QED
      BY <2>4, <2>b, <3>1 DEF ClientLeaves, EndOfFeed, LF!vars
  <2>5. ASSUME UNCHANGED <<log, handler, from, got>> PROVE UNCHANGED LF!vars
    BY <2>5, <2>b DEF LF!vars
  <2> QED
    BY <2>1, <2>2, <2>3, <2>4, <2>5 DEF Next, Run, PublishElsewhere, WaitForNotification,
       Dispatch, StopListener, ListenerFails, CloseHub, CloseReturns, DbDown, DbUp, vars
<1> QED
  BY <1>1, <1>2, Invariance, PTL DEF Spec, FeedPromise, LF!Spec

(***************************************************************************)
(* The count of dropped events.                                            *)
(***************************************************************************)

(* A listener dispatches every event: what it dispatches next is the first *)
(* one it has not dispatched.                                              *)
LEMMA NothingSkippedStep == IndInv /\ NothingSkipped /\ [Next]_vars => NothingSkipped'
<1> SUFFICES ASSUME IndInv, NothingSkipped, [Next]_vars, NEW q \in Replicas, Listening(q)',
                    NEW n \in (seen'[q] + 1)..Len(log')
             PROVE  \/ listener'[q] = "dispatching" /\ inHand'[q] = n
                    \/ \E i \in 1..Len(wire'[q]) : wire'[q][i] = n
  BY DEF NothingSkipped
<1> DEFINE Goal == \/ listener'[q] = "dispatching" /\ inHand'[q] = n
                   \/ \E i \in 1..Len(wire'[q]) : wire'[q][i] = n
<1> USE FeedHubAssumption
<1>0. TypeOK /\ Ordered(log, seen[q], wire[q], listener[q], inHand[q])
  BY DEF IndInv, WireInOrder, Ordered
<1>t. /\ wire[q] \in Seq(Nat) /\ seen[q] \in Nat /\ inHand[q] \in Nat /\ Len(log) \in Nat
      /\ Len(wire[q]) \in Nat
  BY <1>0 DEF TypeOK, Notes
<1>i. Listening(q) => \A m \in (seen[q] + 1)..Len(log) :
                        \/ listener[q] = "dispatching" /\ inHand[q] = m
                        \/ \E i \in 1..Len(wire[q]) : wire[q][i] = m
  BY DEF NothingSkipped
<1>1. ASSUME wire'[q] = wire[q], seen'[q] = seen[q], log' = log, inHand'[q] = inHand[q],
             listener'[q] = listener[q]
      PROVE  Goal
  BY <1>i, <1>1 DEF Listening
<1>2. ASSUME NEW m \in Nat, listener' = listener, inHand' = inHand, seen' = seen, Notify(m),
             n \in (seen[q] + 1)..Len(log) \/ n = m
      PROVE  Goal
  <2>1. wire'[q] = Append(wire[q], m) /\ Listening(q)
    BY <1>2 DEF Notify, Listening
  <2>2. /\ Len(wire'[q]) = Len(wire[q]) + 1 /\ wire'[q][Len(wire[q]) + 1] = m
        /\ \A i \in 1..Len(wire[q]) : wire'[q][i] = wire[q][i]
    BY <1>t, <2>1
  <2>3. CASE n = m
    <3>1. Len(wire[q]) + 1 \in 1..Len(wire'[q])
      BY <1>t, <2>2
    <3> QED
      BY <2>2, <2>3, <3>1
  <2>4. CASE n \in (seen[q] + 1)..Len(log)
    <3>1. CASE listener[q] = "dispatching" /\ inHand[q] = n
      BY <1>2, <3>1
    <3>2. CASE \E i \in 1..Len(wire[q]) : wire[q][i] = n
      <4>1. PICK i \in 1..Len(wire[q]) : wire[q][i] = n
        BY <3>2
      <4>2. i \in 1..(Len(wire[q]) + 1)
        BY <1>t
      <4>3. i \in 1..Len(wire'[q]) /\ wire'[q][i] = n
        BY <2>2, <4>1, <4>2
      <4> QED
        BY <4>3
    <3> QED
      BY <1>i, <2>1, <2>4, <3>1, <3>2
  <2> QED
    BY <1>2, <2>3, <2>4
<1>3. ASSUME NEW e \in Events, Publish(e) PROVE Goal
  <2>1. Len(log') = Len(log) + 1 /\ Notify(Len(log) + 1)
    BY <1>0, <1>3 DEF TypeOK, Publish
  <2>2. UNCHANGED <<listener, inHand, seen>>
    BY <1>3 DEF Publish
  <2>3. n \in (seen[q] + 1)..Len(log) \/ n = Len(log) + 1
    BY <1>t, <2>1, <2>2
  <2> QED
    BY <1>2, <1>t, <2>1, <2>2, <2>3
<1>4. ASSUME PublishElsewhere PROVE Goal
  BY <1>2, <1>4 DEF PublishElsewhere
<1>5. ASSUME NEW r \in Replicas, WaitForNotification(r) PROVE Goal
  <2>1. CASE r # q
    BY <1>0, <1>1, <1>5, <2>1 DEF TypeOK, WaitForNotification
  <2>2. CASE r = q
    <3>1. /\ wire[q] # <<>> /\ inHand'[q] = wire[q][1] /\ wire'[q] = Tail(wire[q])
          /\ seen' = seen /\ log' = log /\ listener[q] = "waiting" /\ listener'[q] = "dispatching"
      BY <1>0, <1>5, <2>2 DEF TypeOK, WaitForNotification
    <3>2. PICK i \in 1..Len(wire[q]) : wire[q][i] = n
      BY <1>i, <3>1 DEF Listening
    <3>3. CASE i = 1
      BY <3>1, <3>2, <3>3
    <3>4. CASE i # 1
      <4> DEFINE tl == Tail(wire[q])
                 k  == i - 1
      <4>1. Len(tl) = Len(wire[q]) - 1 /\ \A j \in 1..Len(tl) : tl[j] = wire[q][j + 1]
        BY <1>t, <3>1
      <4>2. k \in 1..Len(tl) /\ k + 1 = i
        <5> HIDE DEF tl
        <5> QED
          BY <1>t, <3>2, <3>4, <4>1
      <4>3. tl[k] = n
        <5> HIDE DEF tl, k
        <5> QED
          BY <3>2, <4>1, <4>2
      <4> HIDE DEF tl, k
      <4>4. wire'[q] = tl
        BY <3>1 DEF tl
      <4> QED
        BY <4>2, <4>3, <4>4
    <3> QED
      BY <3>3, <3>4
  <2> QED
    BY <2>1, <2>2
<1>6. ASSUME NEW r \in Replicas, Dispatch(r) PROVE Goal
  <2>1. /\ wire' = wire /\ log' = log /\ inHand' = inHand
        /\ r # q => listener'[q] = listener[q] /\ seen'[q] = seen[q]
        /\ r = q => /\ listener[q] = "dispatching" /\ listener'[q] = "waiting"
                    /\ seen'[q] = IF inHand[q] = 0 THEN seen[q] ELSE inHand[q]
    BY <1>0, <1>6 DEF TypeOK, Dispatch
  <2>2. CASE r # q
    BY <1>1, <2>1, <2>2
  <2>3. CASE r = q
    <3>1. seen[q] <= seen'[q] /\ inHand[q] <= seen'[q]
      BY <1>0, <1>t, <2>1, <2>3 DEF Ordered
    <3>2. n \in (seen[q] + 1)..Len(log) /\ n # inHand[q]
      BY <1>t, <2>1, <3>1
    <3> QED
      BY <1>i, <2>1, <2>3, <3>2 DEF Listening
  <2> QED
    BY <2>2, <2>3
<1>7. ASSUME NEW r \in Replicas, ListenerFails(r) \/ StopListener(r) PROVE Goal
  <2>1. r # q
    BY <1>0, <1>7 DEF TypeOK, ListenerFails, StopListener, Listening
  <2> QED
    BY <1>0, <1>1, <1>7, <2>1 DEF TypeOK, ListenerFails, StopListener
<1>8. ASSUME UNCHANGED <<wire, seen, log, inHand, listener>> PROVE Goal
  BY <1>1, <1>8
<1> QED
  BY <1>3, <1>4, <1>5, <1>6, <1>7, <1>8 DEF Next, Run, CloseHub, CloseReturns, Subscribe,
     Receive, ClientLeaves, EndOfFeed, DbDown, DbUp, vars

(* A subscription is removed before what its hub dispatches next.          *)
LEMMA RemovedStep == IndInv /\ RemovedInTime /\ [Next]_vars => RemovedInTime'
<1> SUFFICES ASSUME IndInv, RemovedInTime, [Next]_vars, NEW s \in Subs
             PROVE  /\ upto'[s] <= seen'[want'[s].at]
                    /\ handler'[s] = "idle" => upto'[s] = 0
  BY DEF RemovedInTime
<1> DEFINE r == want[s].at
           Goal == upto'[s] <= seen'[r] /\ (handler'[s] = "idle" => upto'[s] = 0)
<1> USE FeedHubAssumption
<1>0. TypeOK /\ WireInOrder /\ ChannelDiscipline /\ upto[s] <= seen[r]
      /\ (handler[s] = "idle" => upto[s] = 0)
  BY DEF IndInv, RemovedInTime
<1>t. r \in Replicas /\ seen[r] \in Nat /\ upto[s] \in Nat
  BY <1>0 DEF TypeOK, Notes
<1>w. want' = want
  BY DEF Next, Run, Publish, PublishElsewhere, WaitForNotification, Dispatch, StopListener,
     ListenerFails, CloseHub, CloseReturns, Subscribe, Receive, ClientLeaves, EndOfFeed,
     DbDown, DbUp, vars
<1>1. ASSUME seen' = seen, upto' = upto, handler' = handler PROVE Goal
  BY <1>0, <1>1
<1>2. ASSUME NEW p \in Replicas, Dispatch(p) PROVE Goal
  <2>1. upto' = upto /\ handler' = handler /\ seen[r] <= seen'[r] /\ seen'[r] \in Nat
    <3>1. seen' = [seen EXCEPT ![p] = IF inHand[p] = 0 THEN seen[p] ELSE inHand[p]]
          /\ upto' = upto /\ handler' = handler /\ listener[p] = "dispatching"
      BY <1>2 DEF Dispatch
    <3>2. inHand[p] \in Nat /\ seen[p] \in Nat /\ (inHand[p] # 0 => seen[p] < inHand[p])
      BY <1>0, <3>1 DEF TypeOK, Notes, WireInOrder
    <3>3. seen'[r] = IF p = r THEN (IF inHand[p] = 0 THEN seen[p] ELSE inHand[p]) ELSE seen[r]
      BY <1>0, <1>t, <3>1 DEF TypeOK
    <3> HIDE DEF r
    <3> QED
      BY <1>t, <3>1, <3>2, <3>3
  <2> HIDE DEF r
  <2> QED
    BY <1>0, <1>t, <2>1
<1>3. ASSUME NEW q \in Subs, Subscribe(q) PROVE Goal
  <2>1. /\ seen' = seen
        /\ q # s => upto'[s] = upto[s] /\ handler'[s] = handler[s]
        /\ q = s => upto'[s] = seen[r] /\ handler'[s] = "streaming"
    BY <1>0, <1>3 DEF Subscribe, TypeOK
  <2> QED
    BY <1>0, <1>t, <2>1
<1>4. ASSUME NEW S, Detach(S), seen' = seen, handler'[s] = "idle" => handler[s] = "idle"
      PROVE  Goal
  <2>1. upto'[s] = IF s \in subs \cap S THEN seen[r] ELSE upto[s]
    BY <1>4 DEF Detach
  <2>2. s \in subs => handler[s] # "idle"
    BY <1>0 DEF ChannelDiscipline
  <2> QED
    BY <1>0, <1>t, <1>4, <2>1, <2>2
<1>5. ASSUME NEW q \in Subs, ClientLeaves(q) \/ EndOfFeed(q) PROVE Goal
  <2>1. Detach({q}) /\ seen' = seen /\ (handler'[s] = "idle" => handler[s] = "idle")
    BY <1>0, <1>5 DEF ClientLeaves, EndOfFeed, TypeOK
  <2> QED
    BY <1>4, <2>1
<1>6. ASSUME NEW p \in Replicas, CloseHub(p) PROVE Goal
  <2>1. Detach(At(p)) /\ seen' = seen /\ handler' = handler
    BY <1>6 DEF CloseHub
  <2> QED
    BY <1>4, <2>1
<1>7. ASSUME UNCHANGED <<seen, upto, handler>> PROVE Goal
  BY <1>1, <1>7
<1>8. Goal
  BY <1>2, <1>3, <1>5, <1>6, <1>7 DEF Next, Run, Publish, PublishElsewhere, WaitForNotification,
     StopListener, ListenerFails, CloseReturns, Receive, DbDown, DbUp, vars
<1> QED
  BY <1>w, <1>8

(* What a subscription got or still holds is what its stream consists of. *)
LEMMA ValuesOfConcat ==
  ASSUME NEW g \in Seq(Nat), NEW c \in Seq(Nat)
  PROVE  {g[i] : i \in 1..Len(g)} \cup {c[i] : i \in 1..Len(c)}
           = {(g \o c)[i] : i \in 1..Len(g \o c)}
<1> DEFINE a == g \o c
<1>1. /\ Len(a) = Len(g) + Len(c) /\ Len(g) \in Nat /\ Len(c) \in Nat
      /\ \A i \in 1..Len(g) : a[i] = g[i]
      /\ \A i \in 1..Len(c) : a[Len(g) + i] = c[i]
  OBVIOUS
<1> DEFINE n == Len(g)
           m == Len(c)
<1> HIDE DEF a, n, m
<1>2. n \in Nat /\ m \in Nat /\ Len(a) = n + m
  BY <1>1 DEF n, m
<1>3. \A i \in 1..n : a[i] = g[i] /\ i \in 1..(n + m)
  BY <1>1, <1>2 DEF n
<1>4. \A i \in 1..m : a[n + i] = c[i] /\ n + i \in 1..(n + m)
  BY <1>1, <1>2 DEF n, m
<1>5. ASSUME NEW k \in 1..(n + m)
      PROVE  a[k] \in {g[i] : i \in 1..n} \cup {c[i] : i \in 1..m}
  <2>1. CASE k <= n
    <3>1. k \in 1..n
      BY <1>2, <2>1
    <3> QED
      BY <1>3, <3>1
  <2>2. CASE n < k
    <3>1. PICK j \in 1..m : n + j = k
      <4>1. k - n \in 1..m /\ n + (k - n) = k
        BY <1>2, <2>2
      <4> QED
        BY <4>1
    <3> QED
      BY <1>4, <3>1
  <2> QED
    BY <1>2, <2>1, <2>2
<1>6. {g[i] : i \in 1..n} \cup {c[i] : i \in 1..m} = {a[i] : i \in 1..(n + m)}
  <2>1. {g[i] : i \in 1..n} \subseteq {a[i] : i \in 1..(n + m)}
    BY <1>3
  <2>2. ASSUME NEW i \in 1..m PROVE c[i] \in {a[k] : k \in 1..(n + m)}
    <3>1. PICK k \in 1..(n + m) : a[k] = c[i]
      BY <1>4
    <3> QED
      BY <3>1
  <2>3. {a[k] : k \in 1..(n + m)} \subseteq {g[i] : i \in 1..n} \cup {c[i] : i \in 1..m}
    BY <1>5
  <2> QED
    BY <2>1, <2>2, <2>3
<1> QED
  BY <1>2, <1>6 DEF a, n, m

(* Where a subscription is, as numbers. *)
LEMMA PlacesInLog ==
  ASSUME IndInv, RemovedInTime, NEW s \in Subs
  PROVE  /\ want[s].at \in Replicas /\ seen[want[s].at] \in Nat /\ from[s] \in Nat
         /\ upto[s] \in Nat /\ Over(s) \in Nat /\ Over(s) <= seen[want[s].at]
         /\ Len(log) \in Nat /\ Len(log) <= MaxEvents /\ seen[want[s].at] <= Len(log)
         /\ got[s] \in Seq(Nat) /\ ch[s] \in Seq(Nat)
<1> USE FeedHubAssumption
<1>1. /\ want[s].at \in Replicas /\ seen[want[s].at] \in Nat /\ from[s] \in Nat
      /\ upto[s] \in Nat /\ Len(log) \in Nat /\ Len(log) <= MaxEvents
      /\ got[s] \in Seq(Nat) /\ ch[s] \in Seq(Nat)
  BY DEF IndInv, TypeOK, Notes
<1>2. upto[s] <= seen[want[s].at] /\ seen[want[s].at] <= Len(log)
  BY <1>1 DEF IndInv, WireInOrder, RemovedInTime
<1> QED
  BY <1>1, <1>2 DEF Over

(* What was delivered lies between subscribing and the last dispatch. *)
LEMMA DeliveredSeen ==
  ASSUME IndInv, RemovedInTime, NEW s \in Subs, NEW n \in Delivered(s)
  PROVE  n \in Nat /\ n <= seen[want[s].at]
<1>1. got[s] \in Seq(Nat) /\ ch[s] \in Seq(Nat)
  BY PlacesInLog
<1>2. n \in {Stream(s)[i] : i \in 1..Len(Stream(s))}
  BY <1>1, ValuesOfConcat DEF Delivered, Stream
<1>3. Stream(s) \in Seq(Nat)
  BY <1>1, StreamMoves, 0 \in Nat DEF Stream
<1>4. PICK i \in 1..Len(Stream(s)) : n = Stream(s)[i]
  BY <1>2
<1>5. Stream(s)[i] \in Nat
  BY <1>3
<1> QED
  BY <1>4, <1>5 DEF IndInv, ChannelsInOrder

(* What a subscription missed stays what it is while the events it covers  *)
(* and those delivered stay.                                               *)
LEMMA MissedSame ==
  ASSUME NEW s \in Subs, want' = want, from'[s] = from[s], Over(s)' = Over(s),
         Delivered(s)' = Delivered(s), Over(s) \in Nat, from[s] \in Nat,
         \A n \in 1..Over(s) : log'[n] = log[n]
  PROVE  Missed(s)' = Missed(s)
<1>1. \A n \in (from[s] + 1)..Over(s) : WantsNote(s, n)' <=> WantsNote(s, n)
  BY DEF WantsNote, Wants
<1> QED
  BY <1>1 DEF Missed

(* The pairs of a subscription of r and an event it lost. *)
Lost(r) == {p \in At(r) \X (1..MaxEvents) : p[2] \in Missed(p[1])}

LEMMA LostFinite ==
  ASSUME NEW r
  PROVE  IsFiniteSet(Lost(r)) /\ Cardinality(Lost(r)) \in Nat
<1> USE FeedHubAssumption
<1>1. IsFiniteSet(At(r))
  BY FS_Subset DEF At
<1>2. IsFiniteSet(1..MaxEvents)
  BY FS_Interval
<1>3. IsFiniteSet(At(r) \X (1..MaxEvents))
  BY <1>1, <1>2, FS_Product
<1>4. Lost(r) \in SUBSET (At(r) \X (1..MaxEvents))
  BY DEF Lost
<1>5. IsFiniteSet(Lost(r))
  BY <1>3, <1>4, FS_Subset
<1> QED
  BY <1>5, FS_CardinalityType

(* Dispatching event n, the first one r has not dispatched yet, adds it to *)
(* what the targets without room have missed.                              *)
LEMMA NextInHand ==
  ASSUME IndInv, NothingSkipped, NEW r \in Replicas, listener[r] = "dispatching", inHand[r] # 0
  PROVE  inHand[r] = seen[r] + 1 /\ inHand[r] \in Nat /\ seen[r] \in Nat /\ inHand[r] <= Len(log)
<1> USE FeedHubAssumption
<1>1. /\ inHand[r] \in Nat /\ seen[r] \in Nat /\ Len(log) \in Nat /\ wire[r] \in Seq(Nat)
      /\ seen[r] < inHand[r] /\ inHand[r] <= Len(log)
      /\ \A i \in 1..Len(wire[r]) : wire[r][i] # 0 => inHand[r] < wire[r][i]
  BY DEF IndInv, TypeOK, Notes, WireInOrder
<1>2. ASSUME seen[r] + 1 < inHand[r] PROVE FALSE
  <2>1. seen[r] + 1 \in (seen[r] + 1)..Len(log) /\ seen[r] + 1 # inHand[r] /\ seen[r] + 1 # 0
    BY <1>1, <1>2
  <2>2. PICK i \in 1..Len(wire[r]) : wire[r][i] = seen[r] + 1
    BY <2>1 DEF NothingSkipped, Listening
  <2>3. inHand[r] < seen[r] + 1
    BY <1>1, <2>1, <2>2
  <2> QED
    BY <1>1, <1>2, <2>3
<1> QED
  BY <1>1, <1>2

LEMMA MissedOfDispatch ==
  ASSUME IndInv, NothingSkipped, RemovedInTime, NEW r \in Replicas, Dispatch(r), inHand[r] # 0,
         NEW s \in Subs
  PROVE  Missed(s)' = IF s \in Targets(r) /\ ~Fits(s) THEN Missed(s) \cup {inHand[r]} ELSE Missed(s)
<1> DEFINE n == inHand[r]
           t == want[s].at
<1>1. /\ TypeOK /\ listener[r] = "dispatching"
      /\ ch' = [q \in Subs |-> IF q \in Targets(r) /\ Fits(q) THEN Append(ch[q], n) ELSE ch[q]]
      /\ seen' = [seen EXCEPT ![r] = n]
      /\ UNCHANGED <<want, log, subs, from, upto, got>>
  BY DEF IndInv, Dispatch
<1>2. n = seen[r] + 1 /\ n \in Nat /\ seen[r] \in Nat
  BY <1>1, NextInHand
<1>3. /\ t \in Replicas /\ from[s] \in Nat /\ upto[s] \in Nat /\ Over(s) \in Nat
      /\ Over(s) <= seen[t] /\ got[s] \in Seq(Nat) /\ ch[s] \in Seq(Nat)
  BY PlacesInLog
<1>4. s \in Targets(r) <=> s \in subs /\ t = r /\ WantsNote(s, n)
  BY DEF Targets, At
<1>5. seen'[t] = IF t = r THEN n ELSE seen[t]
  BY <1>1, <1>3 DEF TypeOK
<1>6. ch'[s] = IF s \in Targets(r) /\ Fits(s) THEN Append(ch[s], n) ELSE ch[s]
  BY <1>1
<1>7. CASE ~(s \in subs /\ t = r)
  <2>1. Over(s)' = Over(s)
    BY <1>1, <1>5, <1>7 DEF Over
  <2>2. Delivered(s)' = Delivered(s)
    BY <1>1, <1>4, <1>6, <1>7 DEF Delivered
  <2>3. Missed(s)' = Missed(s)
    BY <1>1, <1>3, <2>1, <2>2, MissedSame
  <2> QED
    BY <1>4, <1>7, <2>3
<1>8. CASE s \in subs /\ t = r
  <2>1. Over(s) = seen[r] /\ Over(s)' = n
    BY <1>1, <1>5, <1>8 DEF Over
  <2>2. from[s] <= seen[r]
    BY <1>8 DEF IndInv, ChannelsInOrder
  <2>3. (from[s] + 1)..n = ((from[s] + 1)..seen[r]) \cup {n} /\ n \notin (from[s] + 1)..seen[r]
    <3> HIDE DEF n
    <3> QED
      BY <1>2, <1>3, <2>2
  <2>4. n \notin Delivered(s)
    <3>1. ASSUME n \in Delivered(s) PROVE FALSE
      <4>1. n <= seen[t]
        BY <3>1, DeliveredSeen
      <4> HIDE DEF n
      <4> QED
        BY <1>2, <1>8, <4>1
    <3> QED
      BY <3>1
  <2>5. Delivered(s)' = IF s \in Targets(r) /\ Fits(s) THEN Delivered(s) \cup {n} ELSE Delivered(s)
    <3>1. CASE s \in Targets(r) /\ Fits(s)
      <4> DEFINE c == ch[s]
                 e == Append(c, n)
      <4>1. c \in Seq(Nat)
        BY <1>3
      <4> HIDE DEF c, n
      <4>2. /\ Len(e) = Len(c) + 1 /\ Len(c) \in Nat /\ e[Len(c) + 1] = n
            /\ \A i \in 1..Len(c) : e[i] = c[i]
        BY <1>2, <4>1
      <4>3. 1..Len(e) = 1..Len(c) \cup {Len(c) + 1}
        BY <4>2
      <4> HIDE DEF e
      <4>4. {e[i] : i \in 1..Len(e)} = {c[i] : i \in 1..Len(c)} \cup {n}
        BY <4>2, <4>3
      <4>5. ch'[s] = e /\ got' = got
        BY <1>1, <1>6, <3>1 DEF e, c, n
      <4>6. Delivered(s)' = {got[s][i] : i \in 1..Len(got[s])} \cup {e[i] : i \in 1..Len(e)}
        BY <4>5 DEF Delivered
      <4>7. Delivered(s) = {got[s][i] : i \in 1..Len(got[s])} \cup {c[i] : i \in 1..Len(c)}
        BY DEF Delivered, c
      <4> QED
        BY <3>1, <4>4, <4>6, <4>7
    <3>2. CASE ~(s \in Targets(r) /\ Fits(s))
      BY <1>1, <1>6, <3>2 DEF Delivered
    <3> QED
      BY <3>1, <3>2
  <2>6. \A m : WantsNote(s, m)' <=> WantsNote(s, m)
    BY <1>1 DEF WantsNote, Wants
  <2>7. Missed(s)' = {m \in (from[s] + 1)..n : WantsNote(s, m)} \ Delivered(s)'
    BY <1>1, <2>1, <2>6 DEF Missed
  <2>8. Missed(s) = {m \in (from[s] + 1)..seen[r] : WantsNote(s, m)} \ Delivered(s)
    BY <2>1 DEF Missed
  <2> HIDE DEF n
  <2> QED
    BY <1>4, <1>8, <2>3, <2>4, <2>5, <2>7, <2>8 DEF n
<1> QED
  BY <1>7, <1>8

(* Each hub's counter grows by the targets without room.                   *)
LEMMA CountOfDispatch ==
  ASSUME IndInv, NothingSkipped, RemovedInTime, DropsCounted, NEW r \in Replicas, Dispatch(r),
         NEW q \in Replicas
  PROVE  dropped'[q] = Cardinality(Lost(q)')
<1> USE FeedHubAssumption
<1> DEFINE n == inHand[r]
           X == {s \in Targets(r) : ~Fits(s)}
<1>1. /\ TypeOK /\ want' = want /\ log' = log /\ listener[r] = "dispatching"
      /\ dropped' = [dropped EXCEPT ![r] = dropped[r] + Cardinality(X)]
      /\ dropped \in [Replicas -> Nat] /\ dropped[q] = Cardinality(Lost(q))
  BY DEF IndInv, TypeOK, Dispatch, DropsCounted, Lost
<1>2. X \subseteq At(r) /\ IsFiniteSet(X) /\ Cardinality(X) \in Nat
  <2>1. X \subseteq At(r) /\ X \subseteq Subs
    BY <1>1 DEF Targets, TypeOK
  <2> QED
    BY <2>1, FS_Subset, FS_CardinalityType
<1>3. Lost(q)' = {p \in At(q) \X (1..MaxEvents) : p[2] \in Missed(p[1])'}
  BY <1>1 DEF Lost, At
<1>4. At(q) \subseteq Subs
  BY DEF At
<1>5. CASE n = 0
  <2>1. X = {} /\ Cardinality(X) = 0
    <3>1. X = {}
      BY <1>5 DEF Targets, WantsNote
    <3> QED
      BY <3>1, FS_EmptySet
  <2>2. ASSUME NEW s \in Subs PROVE Missed(s)' = Missed(s)
    <3>1. /\ from' = from /\ subs' = subs /\ upto' = upto /\ got' = got
          /\ seen' = [seen EXCEPT ![r] = seen[r]]
          /\ ch' = [z \in Subs |-> IF z \in Targets(r) /\ Fits(z) THEN Append(ch[z], n) ELSE ch[z]]
      BY <1>5 DEF Dispatch
    <3>2. Targets(r) = {}
      BY <1>5 DEF Targets, WantsNote
    <3>3. ch'[s] = ch[s] /\ seen' = seen
      BY <1>1, <3>1, <3>2 DEF TypeOK
    <3>4. Over(s)' = Over(s) /\ Delivered(s)' = Delivered(s)
      <4>1. want' = want /\ subs' = subs /\ upto' = upto /\ got' = got
        BY <1>1, <3>1
      <4>2. Over(s)' = Over(s)
        BY <3>3, <4>1 DEF Over
      <4>3. Delivered(s)' = Delivered(s)
        BY <3>3, <4>1 DEF Delivered
      <4> QED
        BY <4>2, <4>3
    <3>5. Over(s) \in Nat /\ from[s] \in Nat
      BY PlacesInLog
    <3> QED
      BY <1>1, <3>1, <3>4, <3>5, MissedSame
  <2>3. Lost(q)' = Lost(q)
    BY <1>3, <1>4, <2>2 DEF Lost
  <2>4. dropped'[q] = dropped[q]
    BY <1>1, <2>1
  <2> QED
    BY <1>1, <2>3, <2>4
<1>6. CASE n # 0
  <2>1. n = seen[r] + 1 /\ n \in Nat /\ seen[r] \in Nat /\ n \in 1..MaxEvents
    <3>1. n = seen[r] + 1 /\ n \in Nat /\ seen[r] \in Nat /\ n <= Len(log)
      BY <1>1, <1>6, NextInHand
    <3>2. Len(log) \in Nat /\ Len(log) <= MaxEvents
      BY <1>1 DEF TypeOK
    <3> QED
      BY <3>1, <3>2
  <2>2. \A s \in Subs : Missed(s)' = IF s \in X THEN Missed(s) \cup {n} ELSE Missed(s)
    BY <1>6, MissedOfDispatch
  <2>3. CASE q # r
    <3>1. At(q) \cap X = {}
      BY <1>2, <2>3 DEF At
    <3>2. Lost(q)' = Lost(q)
      BY <1>3, <1>4, <2>2, <3>1 DEF Lost
    <3> QED
      BY <1>1, <2>3, <3>2
  <2>4. CASE q = r
    <3>1. Lost(q)' = Lost(q) \cup (X \X {n})
      <4>1. \A s \in At(q), m \in 1..MaxEvents :
              m \in Missed(s)' <=> m \in Missed(s) \/ (s \in X /\ m = n)
        BY <1>4, <2>2
      <4>2. X \X {n} \subseteq At(q) \X (1..MaxEvents)
        BY <1>2, <2>1, <2>4
      <4> HIDE DEF X, n
      <4> QED
        BY <1>3, <4>1, <4>2 DEF Lost
    <3>2. Lost(q) \cap (X \X {n}) = {}
      <4>1. ASSUME NEW s \in X PROVE n \notin Missed(s)
        <5>1. s \in Subs /\ s \in subs /\ want[s].at = r
          BY <1>1 DEF Targets, At, TypeOK
        <5>2. Over(s) = seen[r] /\ from[s] \in Nat
          BY <5>1, PlacesInLog DEF Over
        <5>3. n \notin (from[s] + 1)..Over(s)
          BY <2>1, <5>2
        <5> QED
          BY <5>3 DEF Missed
      <4> QED
        BY <4>1 DEF Lost
    <3> HIDE DEF X, n
    <3>3. IsFiniteSet(X \X {n}) /\ Cardinality(X \X {n}) = Cardinality(X)
      <4>1. IsFiniteSet({n}) /\ Cardinality({n}) = 1
        BY FS_Singleton
      <4>2. IsFiniteSet(X \X {n}) /\ Cardinality(X \X {n}) = Cardinality(X) * Cardinality({n})
        BY <1>2, <4>1, FS_Product
      <4> QED
        BY <1>2, <4>1, <4>2
    <3>4. /\ IsFiniteSet(Lost(q)) /\ Cardinality(Lost(q)) \in Nat
      BY LostFinite
    <3>5. Cardinality(Lost(q) \cup (X \X {n}))
            = Cardinality(Lost(q)) + Cardinality(X \X {n}) - Cardinality({})
      BY <3>2, <3>3, <3>4, FS_Union
    <3>6. Cardinality({}) = 0
      BY FS_EmptySet
    <3>7. dropped'[q] = dropped[q] + Cardinality(X)
      BY <1>1, <2>4
    <3> QED
      BY <1>1, <1>2, <3>1, <3>3, <3>4, <3>5, <3>6, <3>7
  <2> QED
    BY <2>3, <2>4
<1> QED
  BY <1>5, <1>6

(* No other step loses an event or finds one again.                        *)
LEMMA CountStep ==
  IndInv /\ NothingSkipped /\ RemovedInTime /\ DropsCounted /\ [Next]_vars => DropsCounted'
<1> SUFFICES ASSUME IndInv, NothingSkipped, RemovedInTime, DropsCounted, [Next]_vars
             PROVE  \A q \in Replicas : dropped'[q] = Cardinality(Lost(q)')
  BY DEF DropsCounted, Lost
<1>0. TypeOK /\ ChannelDiscipline
  BY DEF IndInv
<1>w. want' = want
  BY DEF Next, Run, Publish, PublishElsewhere, WaitForNotification, Dispatch, StopListener,
     ListenerFails, CloseHub, CloseReturns, Subscribe, Receive, ClientLeaves, EndOfFeed,
     DbDown, DbUp, vars
<1> DEFINE Goal == \A q \in Replicas : dropped'[q] = Cardinality(Lost(q)')
<1>1. ASSUME dropped' = dropped, \A s \in Subs : Missed(s)' = Missed(s) PROVE Goal
  <2> SUFFICES ASSUME NEW q \in Replicas PROVE dropped'[q] = Cardinality(Lost(q)')
    OBVIOUS
  <2>1. At(q) \subseteq Subs /\ At(q)' = At(q)
    BY <1>w DEF At
  <2>2. Lost(q)' = {p \in At(q) \X (1..MaxEvents) : p[2] \in Missed(p[1])'}
    BY <2>1 DEF Lost
  <2>3. Lost(q)' = Lost(q)
    BY <1>1, <2>1, <2>2 DEF Lost
  <2> QED
    BY <1>1, <2>3 DEF DropsCounted, Lost
<1>2. ASSUME dropped' = dropped, log' = log,
             \A s \in Subs : from'[s] = from[s] /\ Over(s)' = Over(s) /\ Delivered(s)' = Delivered(s)
      PROVE  Goal
  BY <1>1, <1>2, <1>w, MissedSame, PlacesInLog
<1>3. ASSUME NEW r \in Replicas, Dispatch(r) PROVE Goal
  BY <1>3, CountOfDispatch
<1>4. ASSUME NEW e \in Events, Publish(e) PROVE Goal
  <2>1. /\ UNCHANGED <<dropped, from, subs, seen, upto, got, ch>> /\ log' = Append(log, e)
        /\ log \in Seq(Events)
    BY <1>0, <1>4 DEF Publish, TypeOK
  <2>2. ASSUME NEW s \in Subs PROVE Missed(s)' = Missed(s)
    <3>1. Over(s)' = Over(s) /\ Delivered(s)' = Delivered(s)
      BY <1>w, <2>1 DEF Over, Delivered
    <3>2. Over(s) \in Nat /\ Over(s) <= Len(log) /\ from[s] \in Nat
      BY PlacesInLog
    <3>3. \A n \in 1..Over(s) : log'[n] = log[n]
      BY <2>1, <3>2
    <3> QED
      BY <1>w, <2>1, <3>1, <3>2, <3>3, MissedSame
  <2> QED
    BY <1>1, <2>1, <2>2
<1>5. ASSUME NEW q \in Subs, Subscribe(q) PROVE Goal
  <2>1. /\ UNCHANGED <<dropped, log, seen, got, ch>> /\ handler[q] = "idle"
        /\ from' = [from EXCEPT ![q] = seen[want[q].at]]
        /\ upto' = [upto EXCEPT ![q] = seen[want[q].at]]
        /\ subs' = subs \/ subs' = subs \cup {q}
    BY <1>5 DEF Subscribe
  <2>2. ASSUME NEW s \in Subs PROVE Missed(s)' = Missed(s)
    <3>1. CASE s = q
      <4>1. q \notin subs /\ upto[q] = 0
        BY <1>0, <2>1 DEF ChannelDiscipline, RemovedInTime
      <4>2. from[q] \in Nat /\ seen[want[q].at] \in Nat
        BY PlacesInLog
      <4>3. Over(q) = 0 /\ (from[q] + 1)..0 = {}
        BY <4>1, <4>2 DEF Over
      <4>4. /\ from'[q] = seen[want[q].at] /\ upto'[q] = seen[want[q].at]
            /\ (seen[want[q].at] + 1)..seen[want[q].at] = {}
        BY <1>0, <2>1, <4>2 DEF TypeOK
      <4>5. Over(q)' = seen[want[q].at]
        BY <1>w, <2>1, <4>4 DEF Over
      <4> QED
        BY <3>1, <4>3, <4>4, <4>5 DEF Missed
    <3>2. CASE s # q
      <4>1. from'[s] = from[s] /\ Over(s)' = Over(s) /\ Delivered(s)' = Delivered(s)
        BY <1>0, <1>w, <2>1, <3>2 DEF TypeOK, Over, Delivered
      <4> QED
        BY <1>w, <2>1, <4>1, MissedSame, PlacesInLog
    <3> QED
      BY <3>1, <3>2
  <2> QED
    BY <1>1, <2>1, <2>2
<1>6. ASSUME NEW q \in Subs, Receive(q) PROVE Goal
  <2>1. /\ UNCHANGED <<dropped, log, from, subs, seen, upto>> /\ ch[q] # <<>>
        /\ got' = [got EXCEPT ![q] = Append(got[q], Head(ch[q]))]
        /\ ch' = [ch EXCEPT ![q] = Tail(ch[q])]
    BY <1>6 DEF Receive
  <2>2. ASSUME NEW s \in Subs PROVE Over(s)' = Over(s) /\ Delivered(s)' = Delivered(s)
    <3>1. Over(s)' = Over(s)
      BY <1>w, <2>1 DEF Over
    <3>2. CASE s # q
      BY <1>0, <2>1, <3>1, <3>2 DEF TypeOK, Delivered
    <3>3. CASE s = q
      <4> DEFINE g == got[s]
                 c == ch[s]
                 g2 == Append(g, Head(c))
                 c2 == Tail(c)
      <4>1. g \in Seq(Nat) /\ c \in Seq(Nat) /\ c # <<>>
        BY <2>1, <3>3, PlacesInLog
      <4>2. got'[s] = g2 /\ ch'[s] = c2
        BY <1>0, <2>1, <3>3 DEF TypeOK
      <4>3. /\ Delivered(s) = {g[i] : i \in 1..Len(g)} \cup {c[i] : i \in 1..Len(c)}
            /\ Delivered(s)' = {g2[i] : i \in 1..Len(g2)} \cup {c2[i] : i \in 1..Len(c2)}
        BY <4>2 DEF Delivered
      <4> HIDE DEF g, c
      <4>4. g2 \in Seq(Nat) /\ c2 \in Seq(Nat) /\ g2 \o c2 = g \o c
        <5>1. g2 \in Seq(Nat) /\ c2 \in Seq(Nat)
          BY <4>1
        <5>2. g2 \o c2 = g \o c
          BY <4>1, 0 \in Nat, StreamMoves
        <5> QED
          BY <5>1, <5>2
      <4> HIDE DEF g2, c2
      <4>5. {g2[i] : i \in 1..Len(g2)} \cup {c2[i] : i \in 1..Len(c2)}
              = {(g2 \o c2)[i] : i \in 1..Len(g2 \o c2)}
        BY <4>4, ValuesOfConcat
      <4>6. {g[i] : i \in 1..Len(g)} \cup {c[i] : i \in 1..Len(c)}
              = {(g \o c)[i] : i \in 1..Len(g \o c)}
        BY <4>1, ValuesOfConcat
      <4> QED
        BY <3>1, <4>3, <4>4, <4>5, <4>6
    <3> QED
      BY <3>2, <3>3
  <2> QED
    BY <1>2, <2>1, <2>2
<1>7. ASSUME NEW S, Detach(S), UNCHANGED <<dropped, log, from, seen, got, ch>> PROVE Goal
  <2>1. ASSUME NEW s \in Subs PROVE Over(s)' = Over(s) /\ Delivered(s)' = Delivered(s)
    BY <1>7, <1>w, <2>1 DEF Over, Delivered, Detach
  <2> QED
    BY <1>2, <1>7, <2>1
<1>8. ASSUME NEW q \in Subs, ClientLeaves(q) \/ EndOfFeed(q) PROVE Goal
  BY <1>7, <1>8 DEF ClientLeaves, EndOfFeed
<1>9. ASSUME NEW r \in Replicas, CloseHub(r) PROVE Goal
  BY <1>7, <1>9 DEF CloseHub
<1>10. ASSUME UNCHANGED <<dropped, log, from, subs, seen, upto, got, ch>> PROVE Goal
  BY <1>2, <1>10, <1>w DEF Over, Delivered
<1> QED
  BY <1>3, <1>4, <1>5, <1>6, <1>8, <1>9, <1>10 DEF Next, Run, PublishElsewhere,
     WaitForNotification, StopListener, ListenerFails, CloseReturns, DbDown, DbUp, vars

(* Dropped() is exact: each hub has counted, once per subscription, every  *)
(* event that passed the filter of a subscription while it was registered  *)
(* and is neither in its channel nor was read from it, over any number of  *)
(* replicas, outages of Postgres, late subscribers and leaving clients.    *)
THEOREM DropsExactlyCounted == Spec => []DropsCounted
<1>1. Init => NothingSkipped /\ RemovedInTime /\ DropsCounted
  <2> SUFFICES ASSUME Init PROVE NothingSkipped /\ RemovedInTime /\ DropsCounted
    OBVIOUS
  <2>1. NothingSkipped
    BY DEF Init, NothingSkipped
  <2>2. RemovedInTime
    BY DEF Init, RemovedInTime
  <2>3. ASSUME NEW r \in Replicas PROVE dropped[r] = Cardinality(Lost(r))
    <3>1. \A s \in Subs : Missed(s) = {}
      BY DEF Init, Missed, Over
    <3>2. Lost(r) = {}
      BY <3>1 DEF Lost, At
    <3> QED
      BY <3>2, FS_EmptySet DEF Init
  <2> QED
    BY <2>1, <2>2, <2>3 DEF DropsCounted, Lost
<1>2. CountInv /\ [Next]_vars => CountInv'
  BY TypeStep, DisciplineStep, WireStep, ChannelsStep, NothingSkippedStep, RemovedStep, CountStep
     DEF IndInv, CountInv
<1>3. Init => CountInv
  BY <1>1, InitInv DEF CountInv
<1>4. CountInv => DropsCounted
  BY DEF CountInv
<1> QED
  BY <1>2, <1>3, <1>4, PTL DEF Spec
=============================================================================
