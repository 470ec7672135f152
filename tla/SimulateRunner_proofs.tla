------------------------ MODULE SimulateRunner_proofs ------------------------
(***************************************************************************)
(* Theorems about SimulateRunner: types, the accounting of the semaphore,  *)
(* tenant isolation, soft failure, the life of a job, the collection of    *)
(* its events and the answer it gives, for any number of jobs, orgs, runs  *)
(* and slots.                                                              *)
(***************************************************************************)
EXTENDS SimulateRunner, FiniteSetTheorems, SequenceTheorems, TLAPS

USE DEF Statuses, PCs, GorPCs, Final

(* The goroutines in flight are finitely many, and one holds a slot. *)
LEMMA SlotTaken ==
  ASSUME TypeOK, SlotsAccounted, NEW j \in Jobs
  PROVE  /\ IsFiniteSet(InFlight(j))
         /\ \A r \in InFlight(j) : sem[j] \in 1..Fanout
<1>1. IsFiniteSet(Runs)
  BY SimulateAssumption
<1>2. InFlight(j) \subseteq Runs
  BY DEF InFlight
<1>3. IsFiniteSet(InFlight(j))
  BY <1>1, <1>2, FS_Subset
<1>4. ASSUME NEW r \in InFlight(j) PROVE Cardinality(InFlight(j)) # 0
  BY <1>3, <1>4, FS_EmptySet
<1>5. sem[j] \in 0..Fanout /\ sem[j] = Cardinality(InFlight(j)) /\ Fanout \in Nat
  BY SimulateAssumption DEF TypeOK, SlotsAccounted
<1> QED
  BY <1>3, <1>4, <1>5

(* What a goroutine sends is a message, and sending it gives back its slot. *)
LEMMA SendType ==
  ASSUME IndInv, NEW j \in Jobs, NEW r \in Runs, NEW msg \in Message,
         gor[j][r] \in {"download", "extract"}, Send(j, r, msg)
  PROVE  /\ resCh' \in [Jobs -> Seq(Message)]
         /\ gor' \in [Jobs -> [Runs -> GorPCs]]
         /\ sem' \in [Jobs -> 0..Fanout]
<1>1. resCh[j] \in Seq(Message) /\ resCh \in [Jobs -> Seq(Message)]
  BY DEF IndInv, TypeOK
<1>2. Append(resCh[j], msg) \in Seq(Message)
  BY <1>1
<1>3. sem[j] \in 1..Fanout /\ Fanout \in Nat
  BY SlotTaken, SimulateAssumption DEF IndInv, InFlight
<1> QED
  BY <1>1, <1>2, <1>3 DEF Send, IndInv, TypeOK

(* Every message a goroutine makes is one. *)
LEMMA MessageType ==
  ASSUME NEW r \in Runs
  PROVE  /\ Failed(r) \in Message
         /\ \A n \in 0..Len(Trace[r]) : \A err \in BOOLEAN :
              [run |-> r, n |-> n, err |-> err] \in Message
         /\ Len(Trace[r]) \in 0..Len(Trace[r])
BY SimulateAssumption DEF Failed, Message

(* A piece of a trace is a sequence of events. *)
LEMMA PieceType ==
  ASSUME NEW r \in Runs, NEW n \in Nat
  PROVE  /\ Piece(r, n) \in Seq(Events) /\ Len(Piece(r, n)) = n
         /\ \A i \in 1..n : Piece(r, n)[i] = <<r, i>>
<1>1. \A i \in 1..n : <<r, i>> \in Events
  BY DEF Events
<1> QED
  BY <1>1 DEF Piece

(* Initially nothing has been asked for. *)
LEMMA InitInv == Init => IndInv
<1> SUFFICES ASSUME Init PROVE IndInv
  OBVIOUS
<1> USE SimulateAssumption
<1>1. TypeOK
  <2>1. req = <<>> => DOMAIN req = {}
    OBVIOUS
  <2> QED
    BY <2>1 DEF Init, TypeOK
<1>2. StatusOK
  BY DEF Init, StatusOK
<1>3. EventsOfOwnRuns
  BY DEF Init, EventsOfOwnRuns
<1>4. SlotsAccounted
  <2>1. \A j \in Jobs : InFlight(j) = {}
    BY DEF Init, InFlight
  <2>2. Cardinality({}) = 0
    BY FS_EmptySet
  <2>3. \A j \in Jobs : sem[j] = 0
    BY DEF Init
  <2> QED
    <3>1. \A j \in Jobs : Cardinality(InFlight(j)) = 0
      BY <2>1, <2>2, Zenon
    <3>2. 0 <= Fanout
      OBVIOUS
    <3> QED
      BY <2>3, <3>1, <3>2 DEF SlotsAccounted
<1>5. FailsSoft
  BY DEF Init, FailsSoft
<1> QED
  BY <1>1, <1>2, <1>3, <1>4, <1>5 DEF IndInv

(* Type correctness of every step. *)
LEMMA TypeStep == IndInv /\ [Next]_vars => TypeOK'
<1> SUFFICES ASSUME IndInv, [Next]_vars PROVE TypeOK'
  OBVIOUS
<1> USE SimulateAssumption
<1>0. TypeOK /\ StatusOK
  BY DEF IndInv
<1>00. ASSUME Fault \/ NoFault PROVE faults' \in 0..MaxFaults
  BY <1>0, <1>00 DEF TypeOK, Fault, NoFault
<1>1. ASSUME NEW r \in Runs, Upload(r) \/ Remove(r) PROVE TypeOK'
  <2>1. PICK to \in {"row", "full", "gone", "object"} : phase' = [phase EXCEPT ![r] = to]
    BY <1>1 DEF Upload, Remove, Store
  <2>2. phase' \in [Runs -> {"new", "row", "full", "object", "gone"}]
    BY <1>0, <2>1 DEF TypeOK
  <2>3. UNCHANGED <<jobvars, faults>>
    BY <1>1 DEF Upload, Remove, Store
  <2> QED
    BY <1>0, <2>2, <2>3 DEF TypeOK, jobvars
<1>2. ASSUME NEW j \in Jobs, NEW q \in Requests, SubmitJob(j, q) PROVE TypeOK'
  <2>1. /\ DOMAIN req' = DOMAIN req \cup {j}
        /\ \A x \in DOMAIN req' : req'[x] \in Requests
    BY <1>0, <1>2 DEF TypeOK, SubmitJob
  <2>2. status[j] # "done"
    BY <1>0, <1>2 DEF StatusOK, SubmitJob
  <2> QED
    BY <1>0, <1>2, <2>1, <2>2 DEF TypeOK, SubmitJob
<1>3. ASSUME NEW j \in Jobs, Start(j) PROVE TypeOK'
  <2>1. status[j] # "done"
    BY <1>0, <1>3 DEF StatusOK, Start
  <2> QED
    BY <1>0, <1>3, <2>1 DEF TypeOK, Start
<1>4. ASSUME NEW j \in Jobs, Timeout(j) PROVE TypeOK'
  BY <1>0, <1>4 DEF TypeOK, Timeout
<1>5. ASSUME NEW j \in Jobs, ListFails(j) PROVE TypeOK'
  <2>1. status[j] # "done" /\ (Fault \/ NoFault)
    BY <1>0, <1>5 DEF StatusOK, ListFails
  <2> QED
    BY <1>0, <1>00, <1>5, <2>1 DEF TypeOK, ListFails, finishError
<1>6. ASSUME NEW j \in Jobs, ListRuns(j) PROVE TypeOK'
  <2>1. PICK n \in 0..MaxRunsPerSim : \E S \in Listings(j, n) :
          /\ Fault \/ NoFault
          /\ \/ finishDone(j, Scanned(NoDiff, 0)) /\ UNCHANGED <<listed, gor>>
             \/ FanOut(j, S)
    BY <1>6, Zenon DEF ListRuns
  <2>2. PICK S \in Listings(j, n) :
          /\ Fault \/ NoFault
          /\ \/ finishDone(j, Scanned(NoDiff, 0)) /\ UNCHANGED <<listed, gor>>
             \/ FanOut(j, S)
    BY <2>1
  <2>3. S \subseteq Runs
    BY DEF Listings, InWindow
  <2>4. CASE FanOut(j, S)
    BY <1>0, <1>00, <1>6, <2>2, <2>3, <2>4 DEF TypeOK, ListRuns, FanOut
  <2>5. CASE finishDone(j, Scanned(NoDiff, 0)) /\ UNCHANGED <<listed, gor>>
    BY <1>0, <1>00, <1>6, <2>2, <2>5 DEF TypeOK, ListRuns, finishDone
  <2> QED
    BY <2>2, <2>4, <2>5
<1>7. ASSUME NEW j \in Jobs, Collect(j) PROVE TypeOK'
  <2> DEFINE msg == Head(resCh[j])
  <2>1. resCh[j] \in Seq(Message) /\ resCh[j] # <<>> /\ out[j] \in Seq(Events)
    BY <1>0, <1>7 DEF TypeOK, Collect
  <2>2. msg \in Message /\ Tail(resCh[j]) \in Seq(Message)
    BY <2>1
  <2>3. msg.run \in Runs /\ msg.n \in Nat
    BY <2>2 DEF Message
  <2>4. Piece(msg.run, msg.n) \in Seq(Events)
    BY <2>3, PieceType
  <2>5. out[j] \o Piece(msg.run, msg.n) \in Seq(Events)
    BY <2>1, <2>4, ConcatProperties
  <2>6. /\ resCh' = [resCh EXCEPT ![j] = Tail(resCh[j])]
        /\ \/ out' = out
           \/ out' = [out EXCEPT ![j] = out[j] \o Piece(msg.run, msg.n)]
        /\ firstErr' = firstErr \/ firstErr' = firstErr \cup {j}
        /\ NoFault
        /\ UNCHANGED <<phase, req, status, result, pc, expired, listed, gor, sem>>
    <3>1. [out EXCEPT ![j] = out[j]] = out
      BY <1>0 DEF TypeOK
    <3> QED
      BY <1>7, <3>1 DEF Collect
  <2> HIDE DEF msg
  <2>7. resCh' \in [Jobs -> Seq(Message)]
    <3>1. resCh \in [Jobs -> Seq(Message)]
      BY <1>0 DEF TypeOK
    <3> QED
      BY <2>2, <2>6, <3>1
  <2>8. out' \in [Jobs -> Seq(Events)]
    <3>1. out \in [Jobs -> Seq(Events)]
      BY <1>0 DEF TypeOK
    <3> DEFINE more == out[j] \o Piece(msg.run, msg.n)
    <3>2. more \in Seq(Events) /\ (out' = out \/ out' = [out EXCEPT ![j] = more])
      BY <2>5, <2>6
    <3> HIDE DEF more
    <3> QED
      BY <3>1, <3>2
  <2> QED
    BY <1>0, <1>00, <2>6, <2>7, <2>8 DEF TypeOK
<1>8. ASSUME NEW j \in Jobs, Finish(j) PROVE TypeOK'
  <2>1. status[j] # "done" /\ NoFault
    BY <1>0, <1>8 DEF StatusOK, Finish
  <2>2. CASE finishError(j)
    BY <1>0, <1>00, <1>8, <2>1, <2>2 DEF TypeOK, Finish, finishError
  <2>3. ASSUME NEW res, finishDone(j, res) PROVE TypeOK'
    BY <1>0, <1>00, <1>8, <2>1, <2>3 DEF TypeOK, Finish, finishDone
  <2> QED
    BY <1>8, <2>2, <2>3 DEF Finish
<1>9. ASSUME NEW j \in Jobs, NEW r \in Runs, Acquire(j, r) PROVE TypeOK'
  BY <1>0, <1>9 DEF TypeOK, Acquire
<1>10. ASSUME NEW j \in Jobs, NEW r \in Runs, Download(j, r) PROVE TypeOK'
  <2>1. CASE Send(j, r, Failed(r))
    BY <1>0, <1>00, <1>10, <2>1, SendType, MessageType DEF TypeOK, Download
  <2>2. CASE gor' = [gor EXCEPT ![j][r] = "extract"] /\ UNCHANGED <<sem, resCh>>
    BY <1>0, <1>00, <1>10, <2>2 DEF TypeOK, Download
  <2> QED
    BY <1>10, <2>1, <2>2 DEF Download
<1>11. ASSUME NEW j \in Jobs, NEW r \in Runs, Extract(j, r) PROVE TypeOK'
  <2>1. \E msg \in Message : Send(j, r, msg)
    BY <1>11, MessageType DEF Extract
  <2>2. Fault \/ NoFault
    BY <1>11 DEF Extract
  <2>3. /\ resCh' \in [Jobs -> Seq(Message)] /\ gor' \in [Jobs -> [Runs -> GorPCs]]
        /\ sem' \in [Jobs -> 0..Fanout]
    BY <1>11, <2>1, SendType DEF Extract
  <2> QED
    BY <1>0, <1>00, <1>11, <2>2, <2>3 DEF TypeOK, Extract
<1>12. ASSUME Restart PROVE TypeOK'
  BY <1>0, <1>00, <1>12 DEF TypeOK, Restart
<1>13. ASSUME UNCHANGED vars PROVE TypeOK'
  BY <1>0, <1>13 DEF TypeOK, vars, jobvars
<1> QED
  BY <1>1, <1>2, <1>3, <1>4, <1>5, <1>6, <1>7, <1>8, <1>9, <1>10, <1>11, <1>12, <1>13
     DEF Next, JobStep, RunStep

(* Status and goroutine of a job move together. *)
LEMMA StatusStep == IndInv /\ [Next]_vars => StatusOK'
<1> SUFFICES ASSUME IndInv, [Next]_vars PROVE StatusOK'
  OBVIOUS
<1>0. TypeOK /\ StatusOK
  BY DEF IndInv
<1>1. ASSUME NEW r \in Runs, Upload(r) \/ Remove(r) PROVE StatusOK'
  BY <1>0, <1>1 DEF StatusOK, Upload, Remove, Store, jobvars
<1>2. ASSUME NEW j \in Jobs, NEW q \in Requests, SubmitJob(j, q) PROVE StatusOK'
  <2>1. DOMAIN req' = DOMAIN req \cup {j} /\ pc[j] = "none"
    BY <1>0, <1>2 DEF StatusOK, SubmitJob
  <2> QED
    BY <1>0, <1>2, <2>1 DEF TypeOK, StatusOK, SubmitJob
<1>3. ASSUME NEW j \in Jobs, Start(j) PROVE StatusOK'
  BY <1>0, <1>3 DEF TypeOK, StatusOK, Start
<1>4. ASSUME NEW j \in Jobs, Timeout(j) PROVE StatusOK'
  BY <1>0, <1>4 DEF StatusOK, Timeout
<1>5. ASSUME NEW j \in Jobs, ListFails(j) PROVE StatusOK'
  BY <1>0, <1>5 DEF TypeOK, StatusOK, ListFails, finishError
<1>6. ASSUME NEW j \in Jobs, ListRuns(j) PROVE StatusOK'
  <2>1. \/ finishDone(j, Scanned(NoDiff, 0)) /\ UNCHANGED <<listed, gor>>
        \/ \E S : FanOut(j, S)
    BY <1>6, Zenon DEF ListRuns
  <2>2. CASE finishDone(j, Scanned(NoDiff, 0)) /\ UNCHANGED <<listed, gor>>
    BY <1>0, <1>6, <2>2 DEF TypeOK, StatusOK, ListRuns, finishDone
  <2>3. ASSUME NEW S, FanOut(j, S) PROVE StatusOK'
    BY <1>0, <1>6, <2>3 DEF TypeOK, StatusOK, ListRuns, FanOut
  <2> QED
    BY <2>1, <2>2, <2>3
<1>7. ASSUME NEW j \in Jobs, Collect(j) PROVE StatusOK'
  <2>1. \A x \in Jobs : x # j => out'[x] = out[x] /\ resCh'[x] = resCh[x]
    BY <1>0, <1>7 DEF TypeOK, Collect
  <2>2. pc[j] = "collect" /\ UNCHANGED <<req, status, pc, listed, gor>>
    BY <1>7 DEF Collect
  <2>3. firstErr' \subseteq firstErr \cup {j}
    BY <1>7 DEF Collect
  <2> QED
    BY <1>0, <2>1, <2>2, <2>3 DEF StatusOK
<1>8. ASSUME NEW j \in Jobs, Finish(j) PROVE StatusOK'
  <2>1. \/ status' = [status EXCEPT ![j] = "error"]
        \/ status' = [status EXCEPT ![j] = "done"]
    BY <1>8, Zenon DEF Finish, finishDone, finishError
  <2>2. pc[j] = "collect" /\ pc' = [pc EXCEPT ![j] = "over"]
    BY <1>8, Zenon DEF Finish, finishDone, finishError
  <2> QED
    BY <1>0, <1>8, <2>1, <2>2 DEF TypeOK, StatusOK, Finish
<1>9. ASSUME NEW j \in Jobs, NEW r \in Runs, Acquire(j, r) PROVE StatusOK'
  BY <1>0, <1>9 DEF TypeOK, StatusOK, Acquire
<1>10. ASSUME NEW j \in Jobs, NEW r \in Runs, Download(j, r) \/ Extract(j, r) PROVE StatusOK'
  <2>1. \E msg \in Message : Send(j, r, msg) \/ resCh' = resCh
    BY <1>10, MessageType DEF Download, Extract
  <2>2. \E l : gor' = [gor EXCEPT ![j][r] = l]
    BY <1>10 DEF Download, Extract, Send
  <2>3. gor[j][r] # "none" /\ UNCHANGED <<req, status, pc, listed, out, firstErr>>
    BY <1>10 DEF Download, Extract
  <2>4. \A x \in Jobs : x # j => resCh'[x] = resCh[x] /\ gor'[x] = gor[x]
    BY <1>0, <2>1, <2>2 DEF TypeOK, Send
  <2>5. \A x \in Jobs, s \in Runs : gor'[x][s] # "none" => gor[x][s] # "none"
    BY <1>0, <2>2, <2>3 DEF TypeOK
  <2>6. pc[j] \notin {"none", "start", "list"}
    BY <1>0, <2>3 DEF StatusOK
  <2> QED
    BY <1>0, <2>3, <2>4, <2>5, <2>6 DEF StatusOK
<1>12. ASSUME Restart PROVE StatusOK'
  BY <1>0, <1>12 DEF StatusOK, Restart
<1>13. ASSUME UNCHANGED vars PROVE StatusOK'
  BY <1>0, <1>13 DEF StatusOK, vars, jobvars
<1> QED
  BY <1>1, <1>2, <1>3, <1>4, <1>5, <1>6, <1>7, <1>8, <1>9, <1>10, <1>12, <1>13
     DEF Next, JobStep, RunStep

(* A step that moves no goroutine in or out of flight keeps the count. *)
LEMMA SlotsKept ==
  ASSUME SlotsAccounted, sem' = sem, \A j \in Jobs : InFlight(j)' = InFlight(j)
  PROVE  SlotsAccounted'
BY DEF SlotsAccounted

(* Sending leaves the flight: one goroutine and one slot less. *)
LEMMA SlotsSend ==
  ASSUME TypeOK, SlotsAccounted, NEW j \in Jobs, NEW r \in Runs, NEW msg \in Message,
         gor[j][r] \in {"download", "extract"}, Send(j, r, msg)
  PROVE  SlotsAccounted'
<1>1. r \in InFlight(j) /\ IsFiniteSet(InFlight(j))
  BY SlotTaken DEF InFlight
<1>2. gor' = [gor EXCEPT ![j][r] = IF msg.err THEN "failed" ELSE "sent"]
  BY DEF Send
<1>3. InFlight(j)' = InFlight(j) \ {r}
  BY <1>2 DEF TypeOK, InFlight
<1>4. \A x \in Jobs : x # j => InFlight(x)' = InFlight(x)
  BY <1>2 DEF TypeOK, InFlight
<1>5. /\ Cardinality(InFlight(j) \ {r}) = Cardinality(InFlight(j)) - 1
      /\ Cardinality(InFlight(j)) \in Nat
  BY <1>1, FS_RemoveElement, FS_CardinalityType
<1>6. sem' = [sem EXCEPT ![j] = sem[j] - 1] /\ sem \in [Jobs -> 0..Fanout] /\ Fanout \in Nat
  BY SimulateAssumption DEF Send, TypeOK
<1>7. /\ sem'[j] = sem[j] - 1
      /\ \A x \in Jobs : x # j => sem'[x] = sem[x]
  BY <1>6
<1>8. Cardinality(InFlight(j)') = Cardinality(InFlight(j)) - 1
  BY <1>3, <1>5
<1>9. /\ sem'[j] = Cardinality(InFlight(j)') /\ Cardinality(InFlight(j)') <= Fanout
  BY <1>5, <1>6, <1>7, <1>8 DEF SlotsAccounted
<1>10. ASSUME NEW x \in Jobs, x # j
       PROVE  sem'[x] = Cardinality(InFlight(x)') /\ Cardinality(InFlight(x)') <= Fanout
  <2>1. sem[x] = Cardinality(InFlight(x)) /\ Cardinality(InFlight(x)) <= Fanout
    BY DEF SlotsAccounted
  <2> QED
    BY <1>4, <1>7, <1>10, <2>1
<1> QED
  BY <1>9, <1>10 DEF SlotsAccounted

(* The semaphore counts the goroutines in flight. *)
LEMMA SlotsStep == IndInv /\ [Next]_vars => SlotsAccounted'
<1> SUFFICES ASSUME IndInv, [Next]_vars PROVE SlotsAccounted'
  OBVIOUS
<1>0. TypeOK /\ StatusOK /\ SlotsAccounted
  BY DEF IndInv
<1>1. ASSUME UNCHANGED <<gor, sem>> PROVE SlotsAccounted'
  BY <1>0, <1>1, SlotsKept DEF InFlight
<1>2. ASSUME NEW j \in Jobs, ListRuns(j) PROVE SlotsAccounted'
  <2>1. \/ UNCHANGED gor
        \/ \E S : gor' = [gor EXCEPT ![j] = [r \in Runs |-> IF r \in S THEN "wait" ELSE "none"]]
    BY <1>2, Zenon DEF ListRuns, FanOut
  <2>2. gor[j] = [r \in Runs |-> "none"]
    BY <1>0, <1>2 DEF StatusOK, ListRuns
  <2>3. \A x \in Jobs : InFlight(x)' = InFlight(x)
    <3>1. ASSUME NEW S, gor' = [gor EXCEPT ![j] = [r \in Runs |-> IF r \in S THEN "wait" ELSE "none"]]
          PROVE  \A x \in Jobs : InFlight(x)' = InFlight(x)
      <4>1. \A x \in Jobs : x # j => gor'[x] = gor[x]
        BY <1>0, <3>1 DEF TypeOK
      <4>2. \A r \in Runs : gor[j][r] = "none" /\ gor'[j][r] \in {"wait", "none"}
        BY <1>0, <2>2, <3>1 DEF TypeOK
      <4> QED
        BY <4>1, <4>2 DEF InFlight
    <3>2. ASSUME UNCHANGED gor PROVE \A x \in Jobs : InFlight(x)' = InFlight(x)
      BY <3>2 DEF InFlight
    <3> QED
      BY <2>1, <3>1, <3>2
  <2>4. sem' = sem
    BY <1>2 DEF ListRuns
  <2> QED
    BY <1>0, <2>3, <2>4, SlotsKept
<1>3. ASSUME NEW j \in Jobs, NEW r \in Runs, Acquire(j, r) PROVE SlotsAccounted'
  <2>1. r \notin InFlight(j) /\ IsFiniteSet(InFlight(j))
    BY <1>0, <1>3, SlotTaken DEF InFlight, Acquire
  <2>2. InFlight(j)' = InFlight(j) \cup {r}
    BY <1>0, <1>3 DEF TypeOK, InFlight, Acquire
  <2>3. \A x \in Jobs : x # j => InFlight(x)' = InFlight(x) /\ sem'[x] = sem[x]
    BY <1>0, <1>3 DEF TypeOK, InFlight, Acquire
  <2>4. Cardinality(InFlight(j)') = Cardinality(InFlight(j)) + 1
    BY <2>1, <2>2, FS_AddElement
  <2>5. sem[j] < Fanout /\ sem'[j] = sem[j] + 1 /\ Fanout \in Nat /\ sem[j] \in Nat
    BY <1>0, <1>3, SimulateAssumption DEF TypeOK, Acquire
  <2>6. sem'[j] = Cardinality(InFlight(j)') /\ Cardinality(InFlight(j)') <= Fanout
    BY <1>0, <2>4, <2>5 DEF SlotsAccounted
  <2>7. ASSUME NEW x \in Jobs, x # j
        PROVE  sem'[x] = Cardinality(InFlight(x)') /\ Cardinality(InFlight(x)') <= Fanout
    <3>1. sem[x] = Cardinality(InFlight(x)) /\ Cardinality(InFlight(x)) <= Fanout
      BY <1>0 DEF SlotsAccounted
    <3> QED
      BY <2>3, <2>7, <3>1
  <2> QED
    BY <2>6, <2>7 DEF SlotsAccounted
<1>4. ASSUME NEW j \in Jobs, NEW r \in Runs, Download(j, r) PROVE SlotsAccounted'
  <2>1. CASE Send(j, r, Failed(r))
    BY <1>0, <1>4, <2>1, SlotsSend, MessageType DEF Download
  <2>2. CASE gor' = [gor EXCEPT ![j][r] = "extract"] /\ UNCHANGED <<sem, resCh>>
    <3>1. \A x \in Jobs : InFlight(x)' = InFlight(x)
      BY <1>0, <1>4, <2>2 DEF TypeOK, InFlight, Download
    <3> QED
      BY <1>0, <2>2, <3>1, SlotsKept
  <2> QED
    BY <1>4, <2>1, <2>2 DEF Download
<1>5. ASSUME NEW j \in Jobs, NEW r \in Runs, Extract(j, r) PROVE SlotsAccounted'
  <2>1. PICK msg \in Message : Send(j, r, msg)
    BY <1>5, MessageType DEF Extract
  <2> QED
    BY <1>0, <1>5, <2>1, SlotsSend DEF Extract
<1>6. ASSUME Restart PROVE SlotsAccounted'
  <2>1. \A x \in Jobs : InFlight(x)' = {} /\ sem'[x] = 0
    BY <1>6 DEF Restart, InFlight
  <2>2. Cardinality({}) = 0
    BY FS_EmptySet
  <2>3. \A x \in Jobs : Cardinality(InFlight(x)') = 0
    BY <2>1, <2>2, Zenon
  <2>4. 0 <= Fanout
    BY SimulateAssumption
  <2> QED
    BY <2>1, <2>3, <2>4 DEF SlotsAccounted
<1>7. \/ UNCHANGED <<gor, sem>> \/ Restart
      \/ \E j \in Jobs : ListRuns(j)
      \/ \E j \in Jobs, r \in Runs : Acquire(j, r) \/ Download(j, r) \/ Extract(j, r)
  BY DEF Next, JobStep, RunStep, vars, jobvars, Upload, Remove, Store, SubmitJob, Start, Timeout,
         ListFails, Collect, Finish
<1> QED
  BY <1>1, <1>2, <1>3, <1>4, <1>5, <1>6, <1>7

(* A request that was accepted stays what it is. *)
LEMMA RequestsKept ==
  ASSUME [Next]_vars, NEW j \in DOMAIN req
  PROVE  req'[j] = req[j]
BY DEF Next, JobStep, RunStep, vars, jobvars, Upload, Remove, Store, SubmitJob, Start, Timeout,
       ListFails, ListRuns, Collect, Finish, Acquire, Download, Extract, Restart

(* Own runs are the job's own for ever. *)
LEMMA OwnRunsKept ==
  ASSUME TypeOK, StatusOK, EventsOfOwnRuns, [Next]_vars, NEW j \in Jobs, NEW r \in listed[j]
  PROVE  OwnRun(j, r)'
<1>1. j \in DOMAIN req
  BY DEF StatusOK, TypeOK
<1>2. req'[j] = req[j]
  BY <1>1, RequestsKept
<1>3. OwnRun(j, r)
  BY DEF EventsOfOwnRuns
<1> QED
  BY <1>2, <1>3 DEF OwnRun

(* What a goroutine sends is of its own run. *)
LEMMA EventsSend ==
  ASSUME TypeOK, StatusOK, EventsOfOwnRuns, [Next]_vars, UNCHANGED <<out, listed>>,
         NEW j \in Jobs, NEW r \in Runs, gor[j][r] # "none",
         NEW msg \in Message, msg.run = r, Send(j, r, msg)
  PROVE  EventsOfOwnRuns'
<1>1. r \in listed[j]
  BY DEF StatusOK
<1>2. resCh' = [resCh EXCEPT ![j] = Append(resCh[j], msg)] /\ resCh \in [Jobs -> Seq(Message)]
  BY DEF Send, TypeOK
<1>3. resCh[j] \in Seq(Message) /\ resCh'[j] = Append(resCh[j], msg)
  BY <1>2
<1>4. \A i \in DOMAIN resCh'[j] : resCh'[j][i].run \in listed'[j]
  <2>1. ASSUME NEW i \in DOMAIN resCh'[j] PROVE resCh'[j][i].run \in listed[j]
    <3>1. i \in 1..(Len(resCh[j]) + 1)
      BY <1>3, <2>1
    <3>2. CASE i = Len(resCh[j]) + 1
      BY <1>1, <1>3, <3>2
    <3>3. CASE i \in 1..Len(resCh[j])
      <4>1. resCh'[j][i] = resCh[j][i] /\ i \in DOMAIN resCh[j]
        BY <1>3, <3>3
      <4> QED
        BY <4>1 DEF EventsOfOwnRuns
    <3> QED
      BY <1>3, <3>1, <3>2, <3>3
  <2> QED
    BY <2>1
<1>5. \A x \in Jobs : x # j => resCh'[x] = resCh[x]
  BY <1>2
<1>6. \A x \in Jobs : \A s \in listed'[x] : OwnRun(x, s)'
  BY OwnRunsKept
<1>7. \A x \in Jobs : \A i \in DOMAIN resCh'[x] : resCh'[x][i].run \in listed'[x]
  BY <1>4, <1>5 DEF EventsOfOwnRuns
<1> QED
  BY <1>6, <1>7 DEF EventsOfOwnRuns

(* Tenant isolation of every step. *)
LEMMA EventsStep == IndInv /\ [Next]_vars => EventsOfOwnRuns'
<1> SUFFICES ASSUME IndInv, [Next]_vars PROVE EventsOfOwnRuns'
  OBVIOUS
<1>0. TypeOK /\ StatusOK /\ EventsOfOwnRuns
  BY DEF IndInv
<1>1. ASSUME UNCHANGED <<out, resCh, listed>> PROVE EventsOfOwnRuns'
  BY <1>0, <1>1, OwnRunsKept DEF EventsOfOwnRuns
<1>2. ASSUME NEW j \in Jobs, ListRuns(j) PROVE EventsOfOwnRuns'
  <2>1. CASE UNCHANGED listed
    BY <1>1, <1>2, <2>1 DEF ListRuns
  <2>2. CASE \E n \in 0..MaxRunsPerSim : \E S \in Listings(j, n) : FanOut(j, S)
    <3>1. PICK n \in 0..MaxRunsPerSim : \E S \in Listings(j, n) : FanOut(j, S)
      BY <2>2
    <3>2. PICK S \in Listings(j, n) : FanOut(j, S)
      BY <3>1
    <3>3. /\ listed'[j] = S /\ \A x \in Jobs : x # j => listed'[x] = listed[x]
      BY <1>0, <3>2 DEF FanOut, TypeOK
    <3>4. \A r \in S : OwnRun(j, r)
      BY DEF Listings, InWindow, OwnRun
    <3>5. UNCHANGED <<req, out, resCh>> /\ out[j] = <<>> /\ resCh[j] = <<>>
      BY <1>0, <1>2 DEF ListRuns, StatusOK
    <3>6. \A x \in Jobs : \A r \in listed'[x] : OwnRun(x, r)'
      BY <1>0, <3>3, <3>4, <3>5 DEF EventsOfOwnRuns, OwnRun
    <3> QED
      BY <1>0, <3>3, <3>5, <3>6 DEF EventsOfOwnRuns
  <2> QED
    BY <1>2, <2>1, <2>2, Zenon DEF ListRuns
<1>3. ASSUME NEW j \in Jobs, NEW r \in Runs, Download(j, r) \/ Extract(j, r)
      PROVE EventsOfOwnRuns'
  <2>1. UNCHANGED <<out, listed>> /\ gor[j][r] # "none"
    BY <1>3 DEF Download, Extract
  <2>2. resCh' = resCh \/ \E msg \in Message : msg.run = r /\ Send(j, r, msg)
    BY <1>3, MessageType DEF Download, Extract, Failed
  <2> QED
    BY <1>0, <1>1, <2>1, <2>2, EventsSend
<1>4. ASSUME NEW j \in Jobs, Collect(j) PROVE EventsOfOwnRuns'
  <2> DEFINE msg == Head(resCh[j])
  <2> DEFINE more == out[j] \o Piece(msg.run, msg.n)
  <2>1. /\ resCh[j] \in Seq(Message) /\ resCh[j] # <<>> /\ out[j] \in Seq(Events)
        /\ resCh \in [Jobs -> Seq(Message)] /\ out \in [Jobs -> Seq(Events)]
    BY <1>0, <1>4 DEF TypeOK, Collect
  <2>2. msg \in Message /\ msg = resCh[j][1] /\ 1 \in DOMAIN resCh[j]
    BY <2>1
  <2>3. msg.run \in Runs /\ msg.n \in Nat /\ msg.run \in listed[j]
    BY <1>0, <2>2 DEF Message, EventsOfOwnRuns
  <2>4. /\ Piece(msg.run, msg.n) \in Seq(Events) /\ Len(Piece(msg.run, msg.n)) = msg.n
        /\ \A i \in 1..msg.n : Piece(msg.run, msg.n)[i] = <<msg.run, i>>
    BY <2>3, PieceType
  <2>5. /\ resCh' = [resCh EXCEPT ![j] = Tail(resCh[j])]
        /\ out' = out \/ out' = [out EXCEPT ![j] = more]
        /\ UNCHANGED <<req, listed>>
    <3>1. [out EXCEPT ![j] = out[j]] = out
      BY <2>1
    <3> QED
      BY <1>4, <3>1 DEF Collect
  <2>6. \A i \in DOMAIN more : more[i][1] \in listed[j]
    <3> DEFINE piece == Piece(msg.run, msg.n)
    <3>1. piece \in Seq(Events) /\ \A i \in 1..Len(piece) : piece[i][1] = msg.run
      BY <2>4
    <3>2. \A i \in 1..Len(out[j]) : out[j][i][1] \in listed[j]
      BY <1>0, <2>1 DEF EventsOfOwnRuns
    <3> HIDE DEF piece, msg
    <3>3. more = out[j] \o piece
      BY DEF piece
    <3> HIDE DEF more
    <3>4. /\ Len(more) = Len(out[j]) + Len(piece) /\ DOMAIN more = 1..Len(more)
          /\ \A i \in 1..Len(more) : more[i] = IF i <= Len(out[j]) THEN out[j][i]
                                            ELSE piece[i - Len(out[j])]
      BY <2>1, <3>1, <3>3
    <3>5. ASSUME NEW i \in 1..Len(more) PROVE more[i][1] \in listed[j]
      <4>1. Len(out[j]) \in Nat /\ Len(piece) \in Nat
        BY <2>1, <3>1
      <4>2. CASE i <= Len(out[j])
        BY <3>2, <3>4, <4>1, <4>2
      <4>3. CASE ~(i <= Len(out[j]))
        <5>1. i - Len(out[j]) \in 1..Len(piece)
          BY <3>4, <4>1, <4>3
        <5>2. more[i] = piece[i - Len(out[j])]
          BY <3>4, <4>3
        <5> QED
          BY <2>3, <3>1, <5>1, <5>2
      <4> QED
        BY <4>2, <4>3
    <3> QED
      BY <3>4, <3>5
  <2> HIDE DEF more, msg
  <2>7. \A x \in Jobs : \A i \in DOMAIN out'[x] : out'[x][i][1] \in listed'[x]
    BY <1>0, <2>1, <2>5, <2>6 DEF EventsOfOwnRuns
  <2>8. \A i \in DOMAIN Tail(resCh[j]) : Tail(resCh[j])[i].run \in listed[j]
    <3>1. ASSUME NEW i \in DOMAIN Tail(resCh[j])
          PROVE  Tail(resCh[j])[i] = resCh[j][i + 1] /\ i + 1 \in DOMAIN resCh[j]
      BY <2>1
    <3> QED
      BY <1>0, <3>1 DEF EventsOfOwnRuns
  <2>9. \A x \in Jobs : \A i \in DOMAIN resCh'[x] : resCh'[x][i].run \in listed'[x]
    <3>1. resCh'[j] = Tail(resCh[j]) /\ \A x \in Jobs : x # j => resCh'[x] = resCh[x]
      BY <2>1, <2>5
    <3> QED
      BY <1>0, <2>5, <2>8, <3>1 DEF EventsOfOwnRuns
  <2> QED
    BY <1>0, <2>5, <2>7, <2>9, OwnRunsKept DEF EventsOfOwnRuns
<1>5. ASSUME Restart PROVE EventsOfOwnRuns'
  BY <1>5 DEF Restart, EventsOfOwnRuns
<1>6. \/ UNCHANGED <<out, resCh, listed>> \/ Restart
      \/ \E j \in Jobs : ListRuns(j) \/ Collect(j)
      \/ \E j \in Jobs, r \in Runs : Download(j, r) \/ Extract(j, r)
  BY DEF Next, JobStep, RunStep, vars, jobvars, Upload, Remove, Store, SubmitJob, Start, Timeout,
         ListFails, Finish, Acquire
<1> QED
  BY <1>1, <1>2, <1>3, <1>4, <1>5, <1>6

(* A job fails without events only. *)
LEMMA FailsStep == IndInv /\ [Next]_vars => FailsSoft'
<1> SUFFICES ASSUME IndInv, [Next]_vars PROVE FailsSoft'
  OBVIOUS
<1>0. TypeOK /\ StatusOK /\ FailsSoft
  BY DEF IndInv
<1>1. ASSUME UNCHANGED <<status, out, listed, firstErr>> PROVE FailsSoft'
  BY <1>0, <1>1 DEF FailsSoft
<1>2. ASSUME NEW j \in Jobs, NEW s, s # "error", status' = [status EXCEPT ![j] = s],
             UNCHANGED <<out, listed, firstErr>>
      PROVE  FailsSoft'
  BY <1>0, <1>2 DEF TypeOK, FailsSoft
<1>3. ASSUME NEW j \in Jobs, ListFails(j) PROVE FailsSoft'
  <2>1. out[j] = <<>> /\ listed[j] = {}
    BY <1>0, <1>3 DEF StatusOK, ListFails
  <2> QED
    BY <1>0, <1>3, <2>1 DEF TypeOK, FailsSoft, ListFails, finishError
<1>4. ASSUME NEW j \in Jobs, ListRuns(j) PROVE FailsSoft'
  <2>1. \/ status' = [status EXCEPT ![j] = "done"] /\ UNCHANGED listed
        \/ status' = status /\ \E S : listed' = [listed EXCEPT ![j] = S]
    BY <1>4, Zenon DEF ListRuns, finishDone, FanOut
  <2>2. status[j] = "running" /\ UNCHANGED <<out, firstErr>>
    BY <1>0, <1>4 DEF StatusOK, ListRuns
  <2> QED
    BY <1>0, <2>1, <2>2 DEF TypeOK, FailsSoft
<1>5. ASSUME NEW j \in Jobs, Collect(j) PROVE FailsSoft'
  <2>1. status[j] = "running" /\ UNCHANGED <<status, listed>> /\ firstErr \subseteq firstErr'
    BY <1>0, <1>5 DEF StatusOK, Collect
  <2>2. \A x \in Jobs : x # j => out'[x] = out[x]
    BY <1>0, <1>5 DEF TypeOK, Collect
  <2> QED
    BY <1>0, <2>1, <2>2 DEF FailsSoft
<1>6. ASSUME NEW j \in Jobs, Finish(j) PROVE FailsSoft'
  <2>1. UNCHANGED <<out, listed, firstErr>>
    BY <1>6 DEF Finish
  <2>2. CASE FetchFailed(j) /\ finishError(j)
    BY <1>0, <2>1, <2>2 DEF TypeOK, FailsSoft, finishError, FetchFailed
  <2>3. CASE status' = [status EXCEPT ![j] = "done"]
    BY <1>2, <2>1, <2>3
  <2> QED
    BY <1>6, <2>2, <2>3 DEF Finish, finishDone
<1>7. ASSUME Restart PROVE FailsSoft'
  BY <1>7 DEF Restart, FailsSoft
<1>8. \/ UNCHANGED <<status, out, listed, firstErr>> \/ Restart
      \/ \E j \in Jobs : ListFails(j) \/ ListRuns(j) \/ Collect(j) \/ Finish(j)
      \/ \E j \in Jobs : /\ \E s \in {"pending", "running"} : status' = [status EXCEPT ![j] = s]
                         /\ UNCHANGED <<out, listed, firstErr>>
  BY DEF Next, JobStep, RunStep, vars, jobvars, Upload, Remove, Store, SubmitJob, Start, Timeout,
         Acquire, Download, Extract
<1> QED
  BY <1>1, <1>2, <1>3, <1>4, <1>5, <1>6, <1>7, <1>8

(* The invariant is inductive. *)
THEOREM Invariance == Spec => []IndInv
<1>1. IndInv /\ [Next]_vars => IndInv'
  BY TypeStep, StatusStep, SlotsStep, EventsStep, FailsStep DEF IndInv
<1> QED
  BY <1>1, InitInv, PTL DEF Spec

(* Every variable of the simulator keeps its type, and a job has a result  *)
(* exactly when it is done (finishDone, finishError).                      *)
THEOREM TypeCorrect == Spec => []TypeOK
<1>1. IndInv => TypeOK
  BY DEF IndInv
<1> QED
  BY <1>1, Invariance, PTL

(* fetchEvents: slots of the semaphore are taken and given back on every   *)
(* path, so that never more than Fanout downloads of a job are in flight.  *)
THEOREM SlotsCounted == Spec => []SlotsAccounted
<1>1. IndInv => SlotsAccounted
  BY DEF IndInv
<1> QED
  BY <1>1, Invariance, PTL

(* A simulation is fed from runs of its own org, agent and window only     *)
(* (ListRunsForSimulate, fetchEvents).                                     *)
THEOREM OwnEventsOnly == Spec => []EventsOfOwnRuns
<1>1. IndInv => EventsOfOwnRuns
  BY DEF IndInv
<1> QED
  BY <1>1, Invariance, PTL

(* fetchEvents fails soft: a job that read an event does not fail. *)
THEOREM SoftFailure == Spec => []FailsSoft
<1>1. IndInv => FailsSoft
  BY DEF IndInv
<1> QED
  BY <1>1, Invariance, PTL

(* pending, running, then done or error, with one answer (run). *)
THEOREM JobLifecycle == Spec => Lifecycle
<1> DEFINE Life(j) ==
      \/ status'[j] = status[j] /\ result'[j] = result[j]
      \/ <<status[j], status'[j]>> \in {<<"none", "pending">>, <<"pending", "running">>}
      \/ status[j] = "running" /\ status'[j] \in Final
      \/ status' = [x \in Jobs |-> "none"]
<1>1. ASSUME IndInv, Next PROVE \A j \in Jobs : Life(j)
  <2>0. TypeOK /\ StatusOK
    BY <1>1 DEF IndInv
  <2>1. CASE UNCHANGED <<status, result>>
    BY <2>1
  <2>2. ASSUME NEW j \in Jobs, NEW s, status' = [status EXCEPT ![j] = s], result' = result,
               \/ status[j] = "none" /\ s = "pending"
               \/ status[j] = "pending" /\ s = "running"
               \/ status[j] = "running" /\ s = "error"
        PROVE  \A x \in Jobs : Life(x)
    BY <2>0, <2>2 DEF TypeOK
  <2>3. ASSUME NEW j \in Jobs, NEW res, finishDone(j, res), status[j] = "running"
        PROVE  \A x \in Jobs : Life(x)
    BY <2>0, <2>3 DEF TypeOK, finishDone
  <2>4. ASSUME NEW j \in Jobs, NEW q \in Requests, SubmitJob(j, q) PROVE \A x \in Jobs : Life(x)
    <3>1. status[j] = "none"
      BY <2>0, <2>4 DEF StatusOK, SubmitJob
    <3> HIDE DEF Life
    <3> QED
      BY <2>2, <2>4, <3>1 DEF SubmitJob
  <2>5. ASSUME NEW j \in Jobs, Start(j) PROVE \A x \in Jobs : Life(x)
    <3>1. status[j] = "pending"
      BY <2>0, <2>5 DEF StatusOK, Start
    <3> HIDE DEF Life
    <3> QED
      BY <2>2, <2>5, <3>1 DEF Start
  <2>6. ASSUME NEW j \in Jobs, ListFails(j) \/ ListRuns(j) \/ Finish(j)
        PROVE  \A x \in Jobs : Life(x)
    <3>1. status[j] = "running"
      BY <2>0, <2>6 DEF StatusOK, ListFails, ListRuns, Finish
    <3>2. finishError(j) \/ (\E res : finishDone(j, res)) \/ UNCHANGED <<status, result>>
      BY <2>6, Zenon DEF ListFails, ListRuns, Finish, FanOut
    <3> HIDE DEF Life
    <3>3. CASE finishError(j)
      BY <2>2, <3>1, <3>3 DEF finishError
    <3>4. ASSUME NEW res, finishDone(j, res) PROVE \A x \in Jobs : Life(x)
      BY <2>3, <3>1, <3>4
    <3> QED
      BY <2>1, <3>2, <3>3, <3>4
  <2>7. CASE Restart
    BY <2>7 DEF Restart
  <2> HIDE DEF Life
  <2>8. \/ UNCHANGED <<status, result>> \/ Restart
        \/ \E j \in Jobs, q \in Requests : SubmitJob(j, q)
        \/ \E j \in Jobs : Start(j) \/ ListFails(j) \/ ListRuns(j) \/ Finish(j)
    BY <1>1 DEF Next, JobStep, RunStep, jobvars, Upload, Remove, Store, Timeout, Collect,
                Acquire, Download, Extract
  <2> QED
    BY <2>1, <2>4, <2>5, <2>6, <2>7, <2>8
<1>2. IndInv /\ [Next]_vars => [\A j \in Jobs : Life(j)]_vars
  BY <1>1
<1> QED
  BY <1>2, Invariance, PTL DEF Spec, Lifecycle


(***************************************************************************)
(* What is collected.                                                      *)
(***************************************************************************)

(* The invariants, of one job. *)
Sent1(j) ==
  \A i \in DOMAIN resCh[j] :
    /\ gor[j][resCh[j][i].run] = IF resCh[j][i].err THEN "failed" ELSE "sent"
    /\ \A e \in Got(j) : e[1] # resCh[j][i].run
    /\ \A k \in DOMAIN resCh[j] : resCh[j][k].run = resCh[j][i].run => k = i
    /\ resCh[j][i].n <= Len(Trace[resCh[j][i].run])
    /\ ~resCh[j][i].err /\ Undisturbed(j) => resCh[j][i].n = Len(Trace[resCh[j][i].run])
Collected1(j) ==
  /\ \A e \in Got(j) : gor[j][e[1]] = "sent" /\ e[2] \in DOMAIN Trace[e[1]]
  /\ pc[j] = "over" => resCh[j] = <<>> /\ Closed(j)
  /\ Undisturbed(j) =>
       \A r \in Runs : gor[j][r] = "sent" =>
         InChannel(j, r) \/ \A i \in DOMAIN Trace[r] : <<r, i>> \in Got(j)
Whole1(j) ==
  /\ Cardinality(Got(j)) = Len(out[j])
  /\ \A e \in Got(j) : \A i \in 1..e[2] : <<e[1], i>> \in Got(j)
  /\ Cardinality(listed[j]) <= MaxRunsPerSim
Job1(j) == Sent1(j) /\ Collected1(j) /\ Whole1(j)

LEMMA JobByJob ==
  ASSUME TypeOK, StatusOK
  PROVE  SentOnce /\ CollectedOK /\ EventsWhole <=> \A j \in Jobs : Job1(j)
<1>1. ASSUME NEW j \in Jobs, Collected1(j), status[j] \in Final, Undisturbed(j),
             NEW r \in Runs, gor[j][r] = "sent"
      PROVE  \A i \in DOMAIN Trace[r] : <<r, i>> \in Got(j)
  <2>1. pc[j] = "over"
    BY <1>1 DEF TypeOK, StatusOK
  <2>2. ~InChannel(j, r)
    BY <1>1, <2>1 DEF Collected1, InChannel
  <2> QED
    BY <1>1, <2>2 DEF Collected1
<1>2. SentOnce <=> \A j \in Jobs : Sent1(j)
  BY DEF SentOnce, Sent1
<1>3. CollectedOK <=> \A j \in Jobs : Collected1(j)
  BY DEF CollectedOK, Collected1
<1>4. EventsWhole => \A j \in Jobs : Whole1(j)
  BY DEF EventsWhole, Whole1
<1>5. (\A j \in Jobs : Collected1(j) /\ Whole1(j)) => EventsWhole
  BY <1>1 DEF EventsWhole, Whole1, Undisturbed
<1> QED
  BY <1>2, <1>3, <1>4, <1>5 DEF Job1

(* Faults are not forgotten, so a job that is undisturbed has always been. *)
LEMMA FaultsGrow ==
  ASSUME TypeOK, [Next]_vars
  PROVE  (faults' = 0 => faults = 0) /\ (Fault => faults' # 0)
<1>1. faults \in Nat
  BY SimulateAssumption DEF TypeOK
<1>2. Fault \/ NoFault
  BY DEF Next, JobStep, RunStep, vars, jobvars, Upload, Remove, Store, SubmitJob, Start, Timeout,
         ListFails, ListRuns, Collect, Finish, Acquire, Download, Extract, Restart, NoFault
<1> QED
  BY <1>1, <1>2 DEF Fault, NoFault

(* A job whose goroutines do not move stays whole. *)
LEMMA JobSame ==
  ASSUME TypeOK, [Next]_vars, NEW j \in Jobs, Job1(j),
         resCh'[j] = resCh[j], gor'[j] = gor[j], out'[j] = out[j], listed'[j] = listed[j],
         j \notin expired' => j \notin expired,
         pc'[j] = "over" => pc[j] = "over" \/ (resCh[j] = <<>> /\ Closed(j))
  PROVE  Job1(j)'
<1>1. Got(j)' = Got(j)
  BY DEF Got
<1>2. Undisturbed(j)' => Undisturbed(j)
  BY FaultsGrow DEF Undisturbed
<1>3. Closed(j)' = Closed(j) /\ \A r : InChannel(j, r)' = InChannel(j, r)
  BY DEF Closed, InChannel
<1>4. Sent1(j)'
  BY <1>1, <1>2 DEF Job1, Sent1
<1>5. Collected1(j)'
  BY <1>1, <1>2, <1>3 DEF Job1, Collected1
<1>6. Whole1(j)'
  BY <1>1 DEF Job1, Whole1
<1> QED
  BY <1>4, <1>5, <1>6 DEF Job1

(* Nothing listed, nothing sent, nothing collected. *)
LEMMA JobEmpty ==
  ASSUME NEW j \in Jobs, resCh[j] = <<>>, out[j] = <<>>, \A r \in Runs : gor[j][r] # "sent",
         Cardinality(listed[j]) <= MaxRunsPerSim, pc[j] = "over" => Closed(j)
  PROVE  Job1(j)
<1>1. Got(j) = {}
  BY DEF Got
<1>2. Cardinality(Got(j)) = 0
  BY <1>1, FS_EmptySet
<1> QED
  BY <1>1, <1>2 DEF Job1, Sent1, Collected1, Whole1

(* The run of a goroutine that has not sent is in no message and no event. *)
LEMMA Unsent ==
  ASSUME NEW j \in Jobs, NEW r \in Runs, Job1(j), StatusOK, gor[j][r] \notin {"sent", "failed", "none"}
  PROVE  /\ \A e \in Got(j) : e[1] # r
         /\ \A i \in DOMAIN resCh[j] : resCh[j][i].run # r
         /\ pc[j] # "over"
<1>1. r \in listed[j]
  BY DEF StatusOK
<1> QED
  BY <1>1 DEF Job1, Sent1, Collected1, Closed

(* A goroutine moves on without sending. *)
LEMMA JobMoves ==
  ASSUME TypeOK, StatusOK, [Next]_vars, NEW j \in Jobs, NEW r \in Runs, Job1(j),
         gor[j][r] \notin {"sent", "failed", "none"},
         \A s \in Runs : s # r => gor'[j][s] = gor[j][s],
         gor'[j][r] \notin {"sent", "failed"},
         UNCHANGED <<resCh, out, listed, expired, pc>>
  PROVE  Job1(j)'
<1>1. Got(j)' = Got(j)
  BY DEF Got
<1>2. Undisturbed(j)' => Undisturbed(j)
  BY FaultsGrow DEF Undisturbed
<1>3. /\ \A e \in Got(j) : e[1] # r
      /\ \A i \in DOMAIN resCh[j] : resCh[j][i].run # r
      /\ pc[j] # "over"
  BY Unsent
<1>4. resCh[j] \in Seq(Message) /\ out[j] \in Seq(Events)
  BY DEF TypeOK
<1>5. \A i \in DOMAIN resCh[j] : resCh[j][i].run \in Runs
  <2>1. \A i \in DOMAIN resCh[j] : resCh[j][i] \in Message
    BY <1>4
  <2> QED
    BY <2>1 DEF Message
<1>6. \A e \in Got(j) : e[1] \in Runs
  <2>1. \A i \in DOMAIN out[j] : out[j][i] \in Events
    BY <1>4
  <2> QED
    BY <2>1 DEF Got, Events
<1>7. Sent1(j)'
  BY <1>1, <1>2, <1>3, <1>5 DEF Job1, Sent1
<1>8. Collected1(j)'
  BY <1>1, <1>2, <1>3, <1>6 DEF Job1, Collected1, InChannel
<1>9. Whole1(j)'
  BY <1>1 DEF Job1, Whole1
<1> QED
  BY <1>7, <1>8, <1>9 DEF Job1

(* A goroutine sends its result. *)
LEMMA JobSends ==
  ASSUME TypeOK, StatusOK, [Next]_vars, NEW j \in Jobs, NEW r \in Runs, Job1(j),
         gor[j][r] \in {"download", "extract"},
         NEW msg \in Message, msg.run = r, msg.n <= Len(Trace[r]), Send(j, r, msg),
         ~msg.err /\ Undisturbed(j)' => msg.n = Len(Trace[r]),
         UNCHANGED <<out, listed, expired, pc>>
  PROVE  Job1(j)'
<1>1. Got(j)' = Got(j)
  BY DEF Got
<1>2. Undisturbed(j)' => Undisturbed(j)
  BY FaultsGrow DEF Undisturbed
<1>3. /\ \A e \in Got(j) : e[1] # r
      /\ \A i \in DOMAIN resCh[j] : resCh[j][i].run # r
      /\ pc[j] # "over"
  BY Unsent
<1>4. resCh[j] \in Seq(Message) /\ out[j] \in Seq(Events) /\ resCh \in [Jobs -> Seq(Message)]
  BY DEF TypeOK
<1>5. \A i \in DOMAIN resCh[j] : resCh[j][i].run \in Runs
  <2>1. \A i \in DOMAIN resCh[j] : resCh[j][i] \in Message
    BY <1>4
  <2> QED
    BY <2>1 DEF Message
<1>6. \A e \in Got(j) : e[1] \in Runs
  <2>1. \A i \in DOMAIN out[j] : out[j][i] \in Events
    BY <1>4
  <2> QED
    BY <2>1 DEF Got, Events
<1>7. /\ gor'[j][r] = IF msg.err THEN "failed" ELSE "sent"
      /\ \A s \in Runs : s # r => gor'[j][s] = gor[j][s]
  BY DEF TypeOK, Send
<1> DEFINE ch == resCh[j]
           ch2 == resCh'[j]
           n == Len(ch)
<1>8. ch2 = Append(ch, msg) /\ ch \in Seq(Message)
  BY <1>4 DEF Send
<1>9. /\ n \in Nat /\ DOMAIN ch = 1..n /\ DOMAIN ch2 = 1..(n + 1)
      /\ \A i \in 1..n : ch2[i] = ch[i]
      /\ ch2[n + 1] = msg
  BY <1>8
<1> HIDE DEF n, ch, ch2
<1>10. /\ \A i \in DOMAIN ch : i \in DOMAIN ch2 /\ i # n + 1 /\ ch2[i] = ch[i]
       /\ n + 1 \in DOMAIN ch2 /\ ch2[n + 1] = msg
       /\ \A i \in DOMAIN ch2 : i \in DOMAIN ch \/ i = n + 1
  BY <1>9
<1>11. Sent1(j)'
  <2>1. ASSUME NEW i \in DOMAIN ch2
        PROVE  /\ gor'[j][ch2[i].run] = IF ch2[i].err THEN "failed" ELSE "sent"
               /\ \A e \in Got(j) : e[1] # ch2[i].run
               /\ \A k \in DOMAIN ch2 : ch2[k].run = ch2[i].run => k = i
               /\ ch2[i].n <= Len(Trace[ch2[i].run])
               /\ ~ch2[i].err /\ Undisturbed(j)' => ch2[i].n = Len(Trace[ch2[i].run])
    <3>1. CASE i = n + 1
      BY <1>3, <1>7, <1>10, <3>1 DEF ch
    <3>2. CASE i \in DOMAIN ch
      BY <1>2, <1>3, <1>5, <1>7, <1>10, <3>2 DEF Job1, Sent1, ch
    <3> QED
      BY <1>10, <3>1, <3>2
  <2> QED
    BY <1>1, <2>1 DEF Sent1, ch2
<1>12. \A s : InChannel(j, s) => InChannel(j, s)'
  BY <1>10 DEF InChannel, ch, ch2
<1>13. InChannel(j, r)'
  BY <1>10 DEF InChannel, ch2
<1>14. Collected1(j)'
  BY <1>1, <1>2, <1>3, <1>6, <1>7, <1>12, <1>13 DEF Job1, Collected1
<1>15. Whole1(j)'
  BY <1>1 DEF Job1, Whole1
<1> QED
  BY <1>11, <1>14, <1>15 DEF Job1

(* What two sequences of events hold together. *)
LEMMA GotConcat ==
  ASSUME NEW g \in Seq(Events), NEW c \in Seq(Events)
  PROVE  {(g \o c)[i] : i \in DOMAIN (g \o c)}
           = {g[i] : i \in DOMAIN g} \cup {c[i] : i \in DOMAIN c}
<1> DEFINE a == g \o c
           n == Len(g)
           m == Len(c)
<1>1. /\ n \in Nat /\ m \in Nat /\ DOMAIN g = 1..n /\ DOMAIN c = 1..m /\ DOMAIN a = 1..(n + m)
      /\ \A i \in 1..n : a[i] = g[i]
      /\ \A i \in 1..m : a[n + i] = c[i]
  OBVIOUS
<1> HIDE DEF a, n, m
<1>2. \A i \in 1..n : a[i] = g[i] /\ i \in 1..(n + m)
  BY <1>1
<1>3. \A i \in 1..m : a[n + i] = c[i] /\ n + i \in 1..(n + m)
  BY <1>1
<1>4. \A i \in 1..(n + m) : i \in 1..n \/ (i - n \in 1..m /\ n + (i - n) = i)
  BY <1>1
<1>5. \A i \in 1..(n + m) : (\E k \in 1..n : a[i] = g[k]) \/ (\E k \in 1..m : a[i] = c[k])
  BY <1>2, <1>3, <1>4
<1>6. {a[i] : i \in DOMAIN a} \subseteq {g[i] : i \in DOMAIN g} \cup {c[i] : i \in DOMAIN c}
  BY <1>1, <1>5
<1>7. {g[i] : i \in DOMAIN g} \cup {c[i] : i \in DOMAIN c} \subseteq {a[i] : i \in DOMAIN a}
  BY <1>1, <1>2, <1>3
<1> QED
  BY <1>6, <1>7 DEF a

(* The events of a piece, and how many they are. *)
LEMMA PieceCount ==
  ASSUME NEW r \in Runs, NEW n \in Nat
  PROVE  /\ {Piece(r, n)[i] : i \in DOMAIN Piece(r, n)} = {r} \X (1..n)
         /\ IsFiniteSet({r} \X (1..n)) /\ Cardinality({r} \X (1..n)) = n
<1>1. /\ Piece(r, n) \in Seq(Events) /\ DOMAIN Piece(r, n) = 1..n
      /\ \A i \in 1..n : Piece(r, n)[i] = <<r, i>>
  BY PieceType DEF Piece
<1>2. {Piece(r, n)[i] : i \in DOMAIN Piece(r, n)} = {r} \X (1..n)
  <2> DEFINE P == Piece(r, n)
  <2>1. DOMAIN P = 1..n /\ \A i \in 1..n : P[i] = <<r, i>>
    BY <1>1
  <2> HIDE DEF P
  <2>2. \A i \in DOMAIN P : P[i] \in {r} \X (1..n)
    <3>1. \A i \in 1..n : <<r, i>> \in {r} \X (1..n)
      OBVIOUS
    <3> QED
      BY <2>1, <3>1
  <2>3. \A i \in 1..n : <<r, i>> = P[i] /\ i \in DOMAIN P
    BY <2>1
  <2>4. {r} \X (1..n) = {<<r, i>> : i \in 1..n}
    OBVIOUS
  <2>5. {P[i] : i \in DOMAIN P} \subseteq {r} \X (1..n)
    BY <2>2
  <2>6. {<<r, i>> : i \in 1..n} \subseteq {P[i] : i \in DOMAIN P}
    BY <2>3
  <2>7. {P[i] : i \in DOMAIN P} = {r} \X (1..n)
    BY <2>4, <2>5, <2>6
  <2> QED
    BY <2>7 DEF P
<1>3. IsFiniteSet(1..n) /\ Cardinality(1..n) = n
  BY FS_Interval
<1>4. IsFiniteSet({r}) /\ Cardinality({r}) = 1
  BY FS_Singleton
<1>5. /\ IsFiniteSet({r} \X (1..n))
      /\ Cardinality({r} \X (1..n)) = Cardinality({r}) * Cardinality(1..n)
  BY <1>3, <1>4, FS_Product
<1> QED
  BY <1>2, <1>3, <1>4, <1>5

(* What a job got is finite. *)
LEMMA GotFinite ==
  ASSUME NEW j \in Jobs, out[j] \in Seq(Events)
  PROVE  IsFiniteSet(Got(j))
<1>1. IsFiniteSet(1..Len(out[j])) /\ DOMAIN out[j] = 1..Len(out[j])
  <2> DEFINE N == Len(out[j])
  <2>1. N \in Nat /\ DOMAIN out[j] = 1..N
    OBVIOUS
  <2> HIDE DEF N
  <2>2. IsFiniteSet(1..N)
    BY <2>1, FS_Interval
  <2> QED
    BY <2>1, <2>2 DEF N
<1>2. [i \in 1..Len(out[j]) |-> out[j][i]] \in Surjection(1..Len(out[j]), Got(j))
  BY <1>1 DEF Surjection, Got
<1> QED
  BY <1>1, <1>2, FS_Surjection

(* The collector takes the oldest result. *)
LEMMA JobCollects ==
  ASSUME TypeOK, StatusOK, [Next]_vars, NEW j \in Jobs, Job1(j), Collect(j)
  PROVE  Job1(j)'
<1> DEFINE ch == resCh[j]
           ch2 == resCh'[j]
           n == Len(ch) - 1
           msg == ch[1]
           r == msg.run
           piece == Piece(r, msg.n)
<1>1. /\ pc[j] = "collect" /\ ch # <<>> /\ ch2 = Tail(ch)
      /\ out'[j] = IF msg.err THEN out[j] ELSE out[j] \o piece
      /\ UNCHANGED <<gor, pc, listed, expired, faults>>
  <2>1. resCh[j] # <<>> => Head(resCh[j]) = resCh[j][1]
    BY DEF TypeOK
  <2> QED
    BY <2>1 DEF Collect, TypeOK, NoFault
<1>2. ch \in Seq(Message) /\ out[j] \in Seq(Events)
  BY DEF TypeOK
<1>3. Len(ch) \in Nat /\ Len(ch) # 0 /\ DOMAIN ch = 1..Len(ch)
  BY <1>1, <1>2
<1>4. /\ ch2 \in Seq(Message) /\ Len(ch2) = n
      /\ \A i \in 1..n : ch2[i] = ch[i + 1]
  BY <1>1, <1>2
<1>5. n \in Nat /\ DOMAIN ch = 1..(n + 1) /\ DOMAIN ch2 = 1..n
  BY <1>3, <1>4
<1> HIDE DEF n
<1>6. /\ 1 \in DOMAIN ch
      /\ \A i \in DOMAIN ch2 : i + 1 \in DOMAIN ch /\ ch2[i] = ch[i + 1] /\ i + 1 # 1
      /\ \A i \in DOMAIN ch : i = 1 \/ (i - 1 \in DOMAIN ch2 /\ ch2[i - 1] = ch[i])
  <2>1. /\ 1 \in 1..(n + 1)
        /\ \A i \in 1..n : i + 1 \in 1..(n + 1) /\ i + 1 # 1
        /\ \A i \in 1..(n + 1) : i = 1 \/ (i - 1 \in 1..n /\ (i - 1) + 1 = i)
    BY <1>5
  <2>2. \A i \in 1..n : ch2[i] = ch[i + 1]
    BY <1>4
  <2>3. \A i \in 1..(n + 1) : i # 1 => ch2[i - 1] = ch[i]
    <3>1. ASSUME NEW i \in 1..(n + 1), i # 1 PROVE ch2[i - 1] = ch[i]
      <4>1. i - 1 \in 1..n /\ (i - 1) + 1 = i
        BY <2>1, <3>1
      <4>2. ch2[i - 1] = ch[(i - 1) + 1]
        BY <2>2, <4>1
      <4> QED
        BY <4>1, <4>2
    <3> QED
      BY <3>1
  <2> HIDE DEF ch, ch2
  <2>4. 1 \in DOMAIN ch
    BY <1>5, <2>1
  <2>5. \A i \in DOMAIN ch2 : i + 1 \in DOMAIN ch /\ ch2[i] = ch[i + 1] /\ i + 1 # 1
    BY <1>5, <2>1, <2>2
  <2>6. \A i \in DOMAIN ch : i = 1 \/ (i - 1 \in DOMAIN ch2 /\ ch2[i - 1] = ch[i])
    <3>1. \A i \in 1..(n + 1) : i = 1 \/ i - 1 \in 1..n
      BY <2>1
    <3> QED
      BY <1>5, <2>3, <3>1
  <2> QED
    BY <2>4, <2>5, <2>6
<1>7. msg \in Message
  BY <1>2, <1>6
<1>8. r \in Runs /\ msg.n \in Nat /\ msg.err \in BOOLEAN
  BY <1>7 DEF Message
<1>9. /\ gor[j][r] = IF msg.err THEN "failed" ELSE "sent"
      /\ \A e \in Got(j) : e[1] # r
      /\ \A k \in DOMAIN ch : ch[k].run = r => k = 1
      /\ msg.n <= Len(Trace[r])
      /\ ~msg.err /\ Undisturbed(j) => msg.n = Len(Trace[r])
  BY <1>6 DEF Job1, Sent1, ch, msg, r
<1> DEFINE New == IF msg.err THEN {} ELSE {r} \X (1..msg.n)
<1>10. /\ piece \in Seq(Events) /\ Len(piece) = msg.n
       /\ {piece[i] : i \in DOMAIN piece} = {r} \X (1..msg.n)
       /\ IsFiniteSet({r} \X (1..msg.n)) /\ Cardinality({r} \X (1..msg.n)) = msg.n
  BY <1>8, PieceType, PieceCount
<1> HIDE DEF piece
<1>11. Got(j)' = Got(j) \cup New
  <2>1. CASE msg.err
    <3>1. Got(j)' = Got(j) /\ New = {}
      BY <1>1, <2>1 DEF Got
    <3> QED
      BY <3>1
  <2>2. CASE ~msg.err
    <3>1. {(out[j] \o piece)[i] : i \in DOMAIN (out[j] \o piece)}
            = {out[j][i] : i \in DOMAIN out[j]} \cup {piece[i] : i \in DOMAIN piece}
      BY <1>2, <1>10, GotConcat
    <3>2. Got(j)' = {out'[j][i] : i \in DOMAIN out'[j]} /\ out'[j] = out[j] \o piece
      BY <1>1, <2>2 DEF Got
    <3>3. New = {r} \X (1..msg.n)
      BY <2>2
    <3>4. {out'[j][i] : i \in DOMAIN out'[j]} = Got(j) \cup New
      <4> HIDE DEF New
      <4>1. {out[j][i] : i \in DOMAIN out[j]} = Got(j)
        BY DEF Got
      <4>2. {piece[i] : i \in DOMAIN piece} = New
        BY <1>10, <3>3
      <4> QED
        BY <3>1, <3>2, <4>1, <4>2
    <3> HIDE DEF New
    <3> QED
      BY <3>2, <3>4
  <2> QED
    BY <1>8, <2>1, <2>2
<1>12. Len(out'[j]) = Len(out[j]) + Cardinality(New) /\ IsFiniteSet(New) /\ Cardinality(New) \in Nat
  <2>1. CASE msg.err
    <3>1. New = {} /\ out'[j] = out[j]
      BY <1>1, <2>1
    <3>2. IsFiniteSet({}) /\ Cardinality({}) = 0
      BY FS_EmptySet
    <3>3. IsFiniteSet(New) /\ Cardinality(New) = 0
      BY <3>1, <3>2
    <3>4. Len(out[j]) \in Nat
      BY <1>2
    <3> HIDE DEF New
    <3> QED
      BY <3>1, <3>3, <3>4
  <2>2. CASE ~msg.err
    <3>1. New = {r} \X (1..msg.n) /\ out'[j] = out[j] \o piece
      BY <1>1, <2>2
    <3>2. IsFiniteSet(New) /\ Cardinality(New) = msg.n
      BY <1>10, <3>1
    <3>3. Len(out[j] \o piece) = Len(out[j]) + Len(piece)
      BY <1>2, <1>10
    <3> HIDE DEF New, msg
    <3> QED
      BY <1>8, <1>10, <3>1, <3>2, <3>3
  <2> QED
    BY <1>8, <2>1, <2>2
<1>13. Got(j) \cap New = {}
  BY <1>9
<1>14. \A e \in New : /\ e[1] = r /\ ~msg.err
                      /\ \A i \in 1..e[2] : <<e[1], i>> \in New
  <2>1. ASSUME NEW e \in New PROVE e[1] = r /\ ~msg.err /\ e[2] \in 1..msg.n
    BY <2>1
  <2>2. \A e \in New : \A i \in 1..e[2] : i \in 1..msg.n
    BY <1>8, <2>1
  <2>3. ~msg.err => \A i \in 1..msg.n : <<r, i>> \in New
    OBVIOUS
  <2> QED
    BY <2>1, <2>2, <2>3
<1>15. ~msg.err => \A i \in 1..msg.n : <<r, i>> \in New
  OBVIOUS
<1> HIDE DEF New, ch, ch2, msg, r
<1>16. Whole1(j)'
  <2>1. Cardinality(Got(j) \cup New) = Cardinality(Got(j)) + Cardinality(New)
    <3>1. IsFiniteSet(Got(j)) /\ Cardinality(Got(j)) \in Nat
      BY <1>2, GotFinite, FS_CardinalityType
    <3>2. Cardinality(Got(j) \cup New)
            = Cardinality(Got(j)) + Cardinality(New) - Cardinality(Got(j) \cap New)
      BY <1>12, <3>1, FS_Union
    <3>3. Cardinality(Got(j) \cap New) = 0
      BY <1>13, FS_EmptySet
    <3> QED
      BY <1>12, <3>1, <3>2, <3>3
  <2>2. Cardinality(Got(j)) = Len(out[j])
    BY DEF Job1, Whole1
  <2>3. Cardinality(Got(j)') = Len(out'[j])
    BY <1>11, <1>12, <2>1, <2>2
  <2>4. \A e \in Got(j)' : \A i \in 1..e[2] : <<e[1], i>> \in Got(j)'
    BY <1>11, <1>14 DEF Job1, Whole1
  <2>5. Cardinality(listed'[j]) <= MaxRunsPerSim
    BY <1>1 DEF Job1, Whole1
  <2> QED
    BY <2>3, <2>4, <2>5 DEF Whole1
<1>17. Undisturbed(j)' = Undisturbed(j)
  BY <1>1 DEF Undisturbed
<1>18. Sent1(j)'
  <2>1. ASSUME NEW i \in DOMAIN ch2
        PROVE  /\ gor'[j][ch2[i].run] = IF ch2[i].err THEN "failed" ELSE "sent"
               /\ \A e \in Got(j)' : e[1] # ch2[i].run
               /\ \A k \in DOMAIN ch2 : ch2[k].run = ch2[i].run => k = i
               /\ ch2[i].n <= Len(Trace[ch2[i].run])
               /\ ~ch2[i].err /\ Undisturbed(j)' => ch2[i].n = Len(Trace[ch2[i].run])
    <3> DEFINE i1 == i + 1
    <3>1. i1 \in DOMAIN ch /\ ch2[i] = ch[i1] /\ i1 # 1
      BY <1>6
    <3>2. /\ gor[j][ch[i1].run] = IF ch[i1].err THEN "failed" ELSE "sent"
          /\ \A e \in Got(j) : e[1] # ch[i1].run
          /\ \A k \in DOMAIN ch : ch[k].run = ch[i1].run => k = i1
          /\ ch[i1].n <= Len(Trace[ch[i1].run])
          /\ ~ch[i1].err /\ Undisturbed(j) => ch[i1].n = Len(Trace[ch[i1].run])
      BY <3>1 DEF Job1, Sent1, ch
    <3>3. ch[i1].run # r
      BY <1>9, <3>1
    <3>4. \A e \in Got(j)' : e[1] # ch[i1].run
      BY <1>11, <1>14, <3>2, <3>3
    <3>5. \A k \in DOMAIN ch2 : ch2[k].run = ch2[i].run => k = i
      <4>1. ASSUME NEW k \in DOMAIN ch2, ch2[k].run = ch2[i].run PROVE k = i
        <5>1. k + 1 \in DOMAIN ch /\ ch[k + 1].run = ch[i1].run
          BY <1>6, <3>1, <4>1
        <5>2. k + 1 = i + 1
          BY <3>2, <5>1
        <5> QED
          BY <1>5, <5>2
      <4> QED
        BY <4>1
    <3> HIDE DEF i1
    <3> QED
      BY <1>1, <1>17, <3>1, <3>2, <3>4, <3>5
  <2> QED
    BY <2>1 DEF Sent1, ch2
<1>19. Collected1(j)'
  <2>1. \A e \in Got(j)' : gor'[j][e[1]] = "sent" /\ e[2] \in DOMAIN Trace[e[1]]
    <3>1. \A e \in New : e[2] \in DOMAIN Trace[e[1]]
      <4>1. DOMAIN Trace[r] = 1..Len(Trace[r]) /\ Len(Trace[r]) \in Nat
        BY <1>8, SimulateAssumption
      <4>2. 1..msg.n \subseteq 1..Len(Trace[r])
        BY <1>8, <1>9, <4>1
      <4>3. \A e \in New : e[1] = r /\ e[2] \in 1..msg.n
        BY <1>14 DEF New
      <4> QED
        BY <4>1, <4>2, <4>3
    <3>2. \A e \in New : gor'[j][e[1]] = "sent"
      BY <1>1, <1>9, <1>14
    <3> QED
      BY <1>1, <1>11, <3>1, <3>2 DEF Job1, Collected1
  <2>2. pc'[j] # "over"
    BY <1>1
  <2>3. ASSUME Undisturbed(j)', NEW s \in Runs, gor'[j][s] = "sent"
        PROVE  InChannel(j, s)' \/ \A i \in DOMAIN Trace[s] : <<s, i>> \in Got(j)'
    <3>1. InChannel(j, s) \/ \A i \in DOMAIN Trace[s] : <<s, i>> \in Got(j)
      BY <1>1, <1>17, <2>3 DEF Job1, Collected1
    <3>2. CASE s = r
      <4>1. ~msg.err /\ msg.n = Len(Trace[r])
        BY <1>1, <1>8, <1>9, <1>17, <2>3, <3>2
      <4>2. DOMAIN Trace[r] = 1..msg.n
        BY <1>8, <4>1, SimulateAssumption
      <4> QED
        BY <1>11, <1>15, <3>2, <4>1, <4>2
    <3>3. CASE s # r
      <4>1. InChannel(j, s) => InChannel(j, s)'
        <5>1. ASSUME NEW i \in DOMAIN ch, ch[i].run = s PROVE \E k \in DOMAIN ch2 : ch2[k].run = s
          BY <1>6, <3>3, <5>1 DEF r, msg
        <5> QED
          BY <5>1 DEF InChannel, ch, ch2
      <4> QED
        BY <1>11, <3>1, <4>1
    <3> QED
      BY <3>2, <3>3
  <2> QED
    BY <2>1, <2>2, <2>3 DEF Collected1
<1> QED
  BY <1>16, <1>18, <1>19 DEF Job1

(* A job that is empty after a step is whole after it. *)
LEMMA JobEmptied ==
  ASSUME NEW j \in Jobs, resCh'[j] = <<>>, out'[j] = <<>>,
         \A r \in Runs : gor'[j][r] # "sent",
         Cardinality(listed'[j]) <= MaxRunsPerSim, pc'[j] = "over" => Closed(j)'
  PROVE  Job1(j)'
<1>1. Got(j)' = {}
  BY DEF Got
<1>2. Cardinality(Got(j)') = 0
  BY <1>1, FS_EmptySet
<1> QED
  BY <1>1, <1>2 DEF Job1, Sent1, Collected1, Whole1

(* A query lists no more runs than it may. *)
LEMMA ListsFew ==
  ASSUME NEW j \in Jobs, NEW n \in 0..MaxRunsPerSim, NEW S \in Listings(j, n)
  PROVE  Cardinality(S) <= MaxRunsPerSim
<1>1. InWindow(j) \subseteq Runs /\ IsFiniteSet(Runs) /\ MaxRunsPerSim \in Nat
  BY SimulateAssumption DEF InWindow
<1>2. Cardinality(InWindow(j)) \in Nat
  BY <1>1, FS_Subset, FS_CardinalityType
<1>3. Cardinality(S) = IF Cardinality(InWindow(j)) < n THEN Cardinality(InWindow(j)) ELSE n
  BY DEF Listings
<1> QED
  BY <1>1, <1>2, <1>3

(* Every job stays whole. *)
LEMMA JobsStep ==
  ASSUME IndInv, \A j \in Jobs : Job1(j), [Next]_vars
  PROVE  \A j \in Jobs : Job1(j)'
<1>0. TypeOK /\ StatusOK
  BY DEF IndInv
<1>1. ASSUME NEW x \in Jobs, UNCHANGED <<resCh, gor, out, listed, expired, pc>> PROVE Job1(x)'
  BY <1>0, <1>1, JobSame
<1>2. ASSUME NEW j \in Jobs, NEW q \in Requests, SubmitJob(j, q) PROVE \A x \in Jobs : Job1(x)'
  <2>1. \A x \in Jobs : pc'[x] = "over" => pc[x] = "over"
    BY <1>0, <1>2 DEF TypeOK, SubmitJob
  <2>2. UNCHANGED <<resCh, gor, out, listed, expired>>
    BY <1>2 DEF SubmitJob
  <2> QED
    BY <1>0, <2>1, <2>2, JobSame
<1>3. ASSUME NEW j \in Jobs, Start(j) \/ Timeout(j) PROVE \A x \in Jobs : Job1(x)'
  <2>1. \A x \in Jobs : pc'[x] = "over" => pc[x] = "over"
    BY <1>0, <1>3 DEF TypeOK, Start, Timeout
  <2>2. UNCHANGED <<resCh, gor, out, listed>> /\ expired \subseteq expired'
    BY <1>3 DEF Start, Timeout
  <2> QED
    BY <1>0, <2>1, <2>2, JobSame
<1>4. ASSUME NEW j \in Jobs, ListFails(j) \/ Finish(j) PROVE \A x \in Jobs : Job1(x)'
  <2>1. UNCHANGED <<resCh, gor, out, listed, expired>> /\ pc' = [pc EXCEPT ![j] = "over"]
    BY <1>4, Zenon DEF ListFails, Finish, finishError, finishDone
  <2>2. resCh[j] = <<>> /\ Closed(j)
    BY <1>0, <1>4 DEF StatusOK, ListFails, Finish, Closed
  <2>3. \A x \in Jobs : pc'[x] = "over" => pc[x] = "over" \/ (resCh[x] = <<>> /\ Closed(x))
    BY <1>0, <2>1, <2>2 DEF TypeOK
  <2> QED
    BY <1>0, <2>1, <2>3, JobSame
<1>5. ASSUME NEW j \in Jobs, ListRuns(j) PROVE \A x \in Jobs : Job1(x)'
  <2>1. PICK n \in 0..MaxRunsPerSim : \E S \in Listings(j, n) :
          \/ finishDone(j, Scanned(NoDiff, 0)) /\ UNCHANGED <<listed, gor>>
          \/ FanOut(j, S)
    BY <1>5, Zenon DEF ListRuns
  <2>2. PICK S \in Listings(j, n) :
          \/ finishDone(j, Scanned(NoDiff, 0)) /\ UNCHANGED <<listed, gor>>
          \/ FanOut(j, S)
    BY <2>1
  <2>3. Cardinality(S) <= MaxRunsPerSim
    BY ListsFew
  <2>4. /\ pc[j] = "list" /\ UNCHANGED <<resCh, out, expired>>
        /\ resCh[j] = <<>> /\ out[j] = <<>> /\ listed[j] = {}
        /\ gor[j] = [r \in Runs |-> "none"]
    BY <1>0, <1>5 DEF StatusOK, ListRuns
  <2>5. CASE finishDone(j, Scanned(NoDiff, 0)) /\ UNCHANGED <<listed, gor>>
    <3>1. pc' = [pc EXCEPT ![j] = "over"]
      BY <2>5 DEF finishDone
    <3>2. \A x \in Jobs : pc'[x] = "over" => pc[x] = "over" \/ (resCh[x] = <<>> /\ Closed(x))
      BY <1>0, <2>4, <3>1 DEF TypeOK, Closed
    <3> QED
      BY <1>0, <2>4, <2>5, <3>2, JobSame
  <2>6. CASE FanOut(j, S)
    <3>1. /\ listed' = [listed EXCEPT ![j] = S] /\ pc' = [pc EXCEPT ![j] = "collect"]
          /\ gor' = [gor EXCEPT ![j] = [r \in Runs |-> IF r \in S THEN "wait" ELSE "none"]]
      BY <2>6 DEF FanOut
    <3>2. /\ listed'[j] = S /\ pc'[j] = "collect" /\ \A r \in Runs : gor'[j][r] # "sent"
          /\ resCh'[j] = <<>> /\ out'[j] = <<>>
      BY <1>0, <2>4, <3>1 DEF TypeOK
    <3>3. Job1(j)'
      BY <2>3, <3>2, JobEmptied
    <3>4. ASSUME NEW x \in Jobs, x # j PROVE Job1(x)'
      <4>1. listed'[x] = listed[x] /\ pc'[x] = pc[x] /\ gor'[x] = gor[x]
        BY <1>0, <3>1, <3>4 DEF TypeOK
      <4> QED
        BY <1>0, <2>4, <4>1, JobSame
    <3> QED
      BY <3>3, <3>4
  <2> QED
    BY <2>2, <2>5, <2>6
<1>6. ASSUME NEW j \in Jobs, Collect(j) PROVE \A x \in Jobs : Job1(x)'
  <2>1. ASSUME NEW x \in Jobs, x # j PROVE Job1(x)'
    <3>1. resCh'[x] = resCh[x] /\ out'[x] = out[x] /\ UNCHANGED <<gor, listed, expired, pc>>
      BY <1>0, <1>6, <2>1 DEF TypeOK, Collect
    <3> QED
      BY <1>0, <3>1, JobSame
  <2> QED
    BY <1>0, <1>6, <2>1, JobCollects
<1>7. ASSUME NEW j \in Jobs, NEW r \in Runs, RunStep(j, r) PROVE \A x \in Jobs : Job1(x)'
  <2>1. UNCHANGED <<out, listed, expired, pc>>
    BY <1>7 DEF RunStep, Acquire, Download, Extract
  <2>2. gor[j][r] \in {"wait", "download", "extract"}
    BY <1>7 DEF RunStep, Acquire, Download, Extract
  <2>3. \/ /\ UNCHANGED resCh
           /\ \E l \in {"download", "extract"} : gor' = [gor EXCEPT ![j][r] = l]
        \/ \E msg \in Message :
             /\ gor[j][r] \in {"download", "extract"} /\ msg.run = r /\ Send(j, r, msg)
             /\ msg.n <= Len(Trace[r])
             /\ ~msg.err /\ Undisturbed(j)' => msg.n = Len(Trace[r])
    <3>1. CASE Acquire(j, r)
      BY <3>1 DEF Acquire
    <3>2. CASE Download(j, r)
      <4>1. Failed(r) \in Message /\ Failed(r).run = r /\ Failed(r).err /\ Failed(r).n <= Len(Trace[r])
        BY MessageType, SimulateAssumption DEF Failed
      <4>2. \/ UNCHANGED resCh /\ gor' = [gor EXCEPT ![j][r] = "extract"]
            \/ Send(j, r, Failed(r))
        BY <3>2 DEF Download
      <4>3. gor[j][r] = "download"
        BY <3>2 DEF Download
      <4> QED
        BY <4>1, <4>2, <4>3
    <3>3. CASE Extract(j, r)
      <4>1. gor[j][r] = "extract" /\ expired' = expired
        BY <3>3 DEF Extract
      <4>2. CASE Send(j, r, [run |-> r, n |-> Len(Trace[r]), err |-> FALSE])
        <5> DEFINE m == [run |-> r, n |-> Len(Trace[r]), err |-> FALSE]
        <5>0. Len(Trace[r]) \in Nat
          BY SimulateAssumption
        <5>1. m \in Message /\ m.run = r /\ m.n = Len(Trace[r])
          BY MessageType
        <5> HIDE DEF m
        <5>2. Send(j, r, m)
          BY <4>2 DEF m
        <5> QED
          BY <4>1, <5>0, <5>1, <5>2
      <4>3. CASE /\ IF j \in expired THEN NoFault ELSE Fault
                 /\ \E n \in 0..Len(Trace[r]) :
                      Send(j, r, [run |-> r, n |-> n, err |-> n = 0])
        <5>1. ~Undisturbed(j)'
          BY <1>0, <4>1, <4>3, FaultsGrow DEF Undisturbed
        <5>2. PICK n \in 0..Len(Trace[r]) : Send(j, r, [run |-> r, n |-> n, err |-> n = 0])
          BY <4>3
        <5> DEFINE m == [run |-> r, n |-> n, err |-> n = 0]
        <5>3. m \in Message /\ m.run = r /\ m.n = n
          BY MessageType
        <5> HIDE DEF m
        <5>4. Send(j, r, m)
          BY <5>2 DEF m
        <5>5. n <= Len(Trace[r])
          BY SimulateAssumption
        <5> QED
          BY <4>1, <5>1, <5>3, <5>4, <5>5
      <4> QED
        BY <3>3, <4>2, <4>3 DEF Extract
    <3> QED
      BY <1>7, <3>1, <3>2, <3>3 DEF RunStep
  <2>4. ASSUME UNCHANGED resCh,
               NEW l \in {"download", "extract"}, gor' = [gor EXCEPT ![j][r] = l]
        PROVE  \A x \in Jobs : Job1(x)'
    <3>1. /\ gor'[j][r] = l /\ \A s \in Runs : s # r => gor'[j][s] = gor[j][s]
          /\ \A x \in Jobs : x # j => gor'[x] = gor[x]
      BY <1>0, <2>4 DEF TypeOK
    <3>2. Job1(j)'
      BY <1>0, <2>1, <2>2, <2>4, <3>1, JobMoves
    <3>3. ASSUME NEW x \in Jobs, x # j PROVE Job1(x)'
      BY <1>0, <2>1, <2>4, <3>1, <3>3, JobSame
    <3> QED
      BY <3>2, <3>3
  <2>5. ASSUME NEW msg \in Message, gor[j][r] \in {"download", "extract"}, msg.run = r,
               msg.n <= Len(Trace[r]), Send(j, r, msg), ~msg.err /\ Undisturbed(j)' => msg.n = Len(Trace[r])
        PROVE  \A x \in Jobs : Job1(x)'
    <3>1. \A x \in Jobs : x # j => gor'[x] = gor[x] /\ resCh'[x] = resCh[x]
      BY <1>0, <2>5 DEF TypeOK, Send
    <3>2. Job1(j)'
      BY <1>0, <2>1, <2>5, JobSends
    <3>3. ASSUME NEW x \in Jobs, x # j PROVE Job1(x)'
      BY <1>0, <2>1, <3>1, <3>3, JobSame
    <3> QED
      BY <3>2, <3>3
  <2> QED
    BY <2>3, <2>4, <2>5
<1>8. ASSUME Restart PROVE \A x \in Jobs : Job1(x)'
  <2>1. Cardinality({}) <= MaxRunsPerSim
    BY FS_EmptySet, SimulateAssumption
  <2> QED
    BY <1>8, <2>1, JobEmptied DEF Restart
<1>9. \/ UNCHANGED <<resCh, gor, out, listed, expired, pc>> \/ Restart
      \/ \E j \in Jobs, q \in Requests : SubmitJob(j, q)
      \/ \E j \in Jobs : Start(j) \/ Timeout(j) \/ ListFails(j) \/ Finish(j) \/ ListRuns(j)
                         \/ Collect(j)
      \/ \E j \in Jobs, r \in Runs : RunStep(j, r)
  BY DEF Next, JobStep, vars, jobvars, Upload, Remove, Store
<1> QED
  BY <1>1, <1>2, <1>3, <1>4, <1>5, <1>6, <1>7, <1>8, <1>9

(* fetchEvents: no event is collected twice, each run from its beginning,  *)
(* and a job nothing disturbed has every event of the traces it fetched,   *)
(* whatever the order in which its goroutines finish.                      *)
THEOREM EventsCollectedWhole == Spec => []EventsWhole
<1>1. Init => \A j \in Jobs : Job1(j)
  <2> SUFFICES ASSUME Init, NEW j \in Jobs PROVE Job1(j)
    OBVIOUS
  <2>1. Cardinality({}) <= MaxRunsPerSim
    BY FS_EmptySet, SimulateAssumption
  <2> QED
    BY <2>1, JobEmpty DEF Init
<1>2. IndInv /\ (\A j \in Jobs : Job1(j)) /\ [Next]_vars => (\A j \in Jobs : Job1(j))'
  BY JobsStep
<1>3. IndInv /\ (\A j \in Jobs : Job1(j)) => EventsWhole
  BY JobByJob DEF IndInv
<1> QED
  BY <1>1, <1>2, <1>3, Invariance, PTL DEF Spec


(***************************************************************************)
(* What a finished job answers.                                            *)
(***************************************************************************)

(* Places in a finite set S that R orders strictly. *)
Earlier(S, R, x) == {y \in S : <<y, x>> \in R}
Place(S, R, x)   == Cardinality(Earlier(S, R, x))
Places(S, R)     == {Place(S, R, x) : x \in S}
StrictOrder(S, R) ==
  /\ \A x \in S : <<x, x>> \notin R
  /\ \A x, y, z \in S : <<x, y>> \in R /\ <<y, z>> \in R => <<x, z>> \in R
  /\ \A x, y \in S : x = y \/ <<x, y>> \in R \/ <<y, x>> \in R

(* An order gives every element a place of its own, from first to last. *)
LEMMA PlacesInOrder ==
  ASSUME NEW S, IsFiniteSet(S), NEW R, StrictOrder(S, R)
  PROVE  /\ Cardinality(S) \in Nat
         /\ \A x \in S : Place(S, R, x) \in 0..(Cardinality(S) - 1)
         /\ \A x, y \in S : <<x, y>> \in R => Place(S, R, x) < Place(S, R, y)
         /\ \A x, y \in S : Place(S, R, x) = Place(S, R, y) => x = y
         /\ Places(S, R) = 0..(Cardinality(S) - 1)
<1> DEFINE N == Cardinality(S)
<1>0. N \in Nat
  BY FS_CardinalityType
<1>1. ASSUME NEW x \in S
      PROVE  IsFiniteSet(Earlier(S, R, x)) /\ Place(S, R, x) \in 0..(N - 1)
  <2>1. Earlier(S, R, x) \subseteq S \ {x}
    BY DEF Earlier, StrictOrder
  <2>2. IsFiniteSet(S \ {x}) /\ Cardinality(S \ {x}) = N - 1
    BY FS_RemoveElement
  <2>3. /\ IsFiniteSet(Earlier(S, R, x)) /\ Cardinality(Earlier(S, R, x)) <= N - 1
    BY <2>1, <2>2, FS_Subset
  <2>4. Cardinality(Earlier(S, R, x)) \in Nat
    BY <2>3, FS_CardinalityType
  <2> QED
    BY <1>0, <2>3, <2>4 DEF Place
<1>2. ASSUME NEW x \in S, NEW y \in S, <<x, y>> \in R
      PROVE  Place(S, R, x) < Place(S, R, y)
  <2>1. Earlier(S, R, x) \cup {x} \subseteq Earlier(S, R, y)
    BY <1>2 DEF Earlier, StrictOrder
  <2>2. x \notin Earlier(S, R, x)
    BY DEF Earlier, StrictOrder
  <2>3. Cardinality(Earlier(S, R, x) \cup {x}) = Cardinality(Earlier(S, R, x)) + 1
    BY <1>1, <2>2, FS_AddElement
  <2>4. Cardinality(Earlier(S, R, x) \cup {x}) <= Cardinality(Earlier(S, R, y))
    BY <1>1, <2>1, FS_Subset
  <2>5. Place(S, R, x) \in Nat /\ Place(S, R, y) \in Nat
    BY <1>1
  <2> QED
    BY <2>3, <2>4, <2>5 DEF Place
<1>3. ASSUME NEW x \in S, NEW y \in S, Place(S, R, x) = Place(S, R, y)
      PROVE  x = y
  <2>1. Place(S, R, x) \in Nat
    BY <1>1
  <2>2. x = y \/ <<x, y>> \in R \/ <<y, x>> \in R
    BY DEF StrictOrder
  <2> QED
    BY <1>2, <1>3, <2>1, <2>2
<1> DEFINE f == [x \in S |-> Place(S, R, x)]
<1>4. f \in Injection(S, 0..(N - 1))
  BY <1>1, <1>3 DEF Injection, IsInjective
<1>5. IsFiniteSet(0..(N - 1)) /\ Cardinality(0..(N - 1)) = N
  BY <1>0, FS_Interval
<1>6. f \in Surjection(S, 0..(N - 1))
  BY <1>4, <1>5, FS_Injection
<1>7. Places(S, R) = 0..(N - 1)
  <2>1. \A n \in 0..(N - 1) : \E x \in S : Place(S, R, x) = n
    BY <1>6 DEF Surjection
  <2>2. Places(S, R) \subseteq 0..(N - 1)
    BY <1>1 DEF Places
  <2>3. 0..(N - 1) \subseteq Places(S, R)
    BY <2>1 DEF Places
  <2> QED
    BY <2>2, <2>3
<1> HIDE DEF f
<1> QED
  BY <1>0, <1>1, <1>2, <1>3, <1>7

(* The first M of a finite set of numbers. *)
LEMMA FirstFew ==
  ASSUME NEW D \in SUBSET Nat, IsFiniteSet(D), NEW M \in Nat
  PROVE  Cardinality({i \in D : Cardinality({j \in D : j < i}) < M})
           = Least(M, Cardinality(D))
<1> DEFINE R == {e \in D \X D : e[1] < e[2]}
           N == Cardinality(D)
           T == {i \in D : Place(D, R, i) < M}
           L == Least(M, N)
<1>1. StrictOrder(D, R)
  BY DEF StrictOrder
<1>2. \A i \in D : Earlier(D, R, i) = {j \in D : j < i}
  BY DEF Earlier
<1>3. {i \in D : Cardinality({j \in D : j < i}) < M} = T
  BY <1>2 DEF Place
<1> HIDE DEF R
<1>4. /\ N \in Nat
      /\ \A x \in D : Place(D, R, x) \in 0..(N - 1)
      /\ \A x, y \in D : Place(D, R, x) = Place(D, R, y) => x = y
      /\ \A n \in 0..(N - 1) : \E x \in D : Place(D, R, x) = n
  <2>1. Places(D, R) = 0..(N - 1)
    BY <1>1, PlacesInOrder
  <2>2. \A n \in Places(D, R) : \E x \in D : Place(D, R, x) = n
    BY DEF Places
  <2>3. \A n \in 0..(N - 1) : \E x \in D : Place(D, R, x) = n
    BY <2>1, <2>2
  <2>4. /\ N \in Nat
        /\ \A x \in D : Place(D, R, x) \in 0..(N - 1)
        /\ \A x, y \in D : Place(D, R, x) = Place(D, R, y) => x = y
    BY <1>1, PlacesInOrder
  <2> QED
    BY <2>3, <2>4
<1>5. L \in Nat /\ L <= M /\ L <= N /\ (L = M \/ L = N)
  BY <1>4 DEF Least
<1> DEFINE f == [i \in T |-> Place(D, R, i)]
<1> HIDE DEF L, N
<1>6. \A n \in 0..(L - 1) : n \in 0..(N - 1) /\ n < M
  BY <1>4, <1>5
<1>7. \A i \in T : Place(D, R, i) \in 0..(L - 1)
  BY <1>4, <1>5
<1>8. f \in Bijection(T, 0..(L - 1))
  <2>1. f \in Injection(T, 0..(L - 1))
    BY <1>4, <1>7 DEF Injection, IsInjective
  <2>2. f \in Surjection(T, 0..(L - 1))
    BY <1>4, <1>6, <1>7 DEF Surjection
  <2> QED
    BY <2>1, <2>2 DEF Bijection
<1>9. IsFiniteSet(T)
  BY FS_Subset
<1>10. Cardinality(0..(L - 1)) = Cardinality(T)
  BY <1>8, <1>9, FS_Bijection DEF ExistsBijection
<1>11. Cardinality(0..(L - 1)) = L
  BY <1>5, FS_Interval
<1> QED
  BY <1>3, <1>10, <1>11 DEF L, N

(* A set of rules has a first. *)
LEMMA FirstOf ==
  ASSUME NEW N \in Nat, NEW H \in SUBSET (1..N), H # {}
  PROVE  \E n \in H : /\ \A h \in H : n <= h
                      /\ (CHOOSE m \in H : \A h \in H : m <= h) = n
<1> DEFINE R == {e \in H \X H : e[1] < e[2]}
<1>1. IsFiniteSet(H)
  <2>1. IsFiniteSet(1..N)
    BY FS_Interval
  <2> QED
    BY <2>1, FS_Subset
<1>2. StrictOrder(H, R)
  BY DEF StrictOrder
<1>3. Cardinality(H) \in Nat /\ Cardinality(H) # 0
  BY <1>1, FS_CardinalityType, FS_EmptySet
<1>4. 0 \in 0..(Cardinality(H) - 1)
  BY <1>3
<1>5. PICK n \in H : Place(H, R, n) = 0
  <2> HIDE DEF R
  <2>1. 0 \in Places(H, R)
    <3>1. Places(H, R) = 0..(Cardinality(H) - 1)
      BY <1>1, <1>2, PlacesInOrder
    <3> QED
      BY <1>4, <3>1
  <2> QED
    BY <2>1 DEF Places
<1>6. ASSUME NEW h \in H PROVE n <= h
  <2>1. CASE h < n
    <3>1. Place(H, R, h) < Place(H, R, n) /\ Place(H, R, h) \in Nat
      <4>1. <<h, n>> \in R
        BY <2>1
      <4> HIDE DEF R
      <4>2. Place(H, R, h) \in 0..(Cardinality(H) - 1)
        BY <1>1, <1>2, PlacesInOrder
      <4> QED
        BY <1>1, <1>2, <4>1, <4>2, PlacesInOrder
    <3> QED
      BY <1>5, <3>1
  <2> QED
    BY <2>1
<1>7. \A m \in H : (\A h \in H : m <= h) => m = n
  BY <1>6
<1> QED
  BY <1>6, <1>7

(* A candidate policy of a request. *)
Wellformed(p) ==
  /\ Len(p.rules) \in Nat /\ DOMAIN p.rules = 1..Len(p.rules)
  /\ p.maxActions \in Int /\ p.maxDuration \in Int

(* The mode does not change what counts as denied. *)
LEMMA ModeKeepsDenial ==
  ASSUME NEW action, NEW mode
  PROVE  isDeniedVerdict(applyMode(action, mode)) <=> action = "deny"
<1>1. CASE action # "deny"
  <2>1. applyMode(action, mode) = "allow"
    BY <1>1 DEF applyMode
  <2> QED
    BY <1>1, <2>1 DEF isDeniedVerdict
<1>2. CASE action = "deny"
  <2>1. applyMode(action, mode) = CASE mode = "audit" -> "audit_deny"
                                    [] mode = "permissive" -> "would_deny" [] OTHER -> "deny"
    BY <1>2 DEF applyMode
  <2>2. applyMode(action, mode) \in {"deny", "audit_deny", "would_deny"}
    BY <2>1
  <2> QED
    BY <1>2, <2>2 DEF isDeniedVerdict
<1> QED
  BY <1>1, <1>2

(* The first match decides, and a fresh state has reached no limit. *)
LEMMA DenialsAgree ==
  ASSUME NEW p, Wellformed(p), NEW e
  PROVE  isDeniedVerdict(Evaluate(e, p, [actions |-> 0, elapsed |-> 0])) <=> WouldDeny(p, e)
<1> DEFINE N == Len(p.rules)
           H == {n \in DOMAIN p.rules : Matches(e, p.rules[n])}
<1>1. N \in Nat /\ DOMAIN p.rules = 1..N
  BY DEF Wellformed
<1>2. ~Reached(p.maxActions, 0) /\ ~Reached(p.maxDuration, 0)
  BY DEF Wellformed, Reached
<1>3. Evaluate(e, p, [actions |-> 0, elapsed |-> 0]) = applyMode(RuleAction(e, p), p.mode)
  BY <1>2 DEF Evaluate
<1>4. RuleAction(e, p) = "deny" <=> WouldDeny(p, e)
  <2>1. CASE H = {}
    <3>1. RuleAction(e, p) = p.default
      BY <2>1 DEF RuleAction
    <3>2. \A n \in DOMAIN p.rules : ~Matches(e, p.rules[n])
      BY <2>1
    <3> QED
      BY <3>1, <3>2 DEF WouldDeny
  <2>2. CASE H # {}
    <3>1. PICK n \in H : /\ \A h \in H : n <= h
                         /\ (CHOOSE m \in H : \A h \in H : m <= h) = n
      BY <1>1, <2>2, FirstOf
    <3>2. RuleAction(e, p) = p.rules[n].action
      BY <2>2, <3>1 DEF RuleAction
    <3>3. n \in 1..N /\ Matches(e, p.rules[n])
      BY <1>1
    <3>4. \A m \in 1..(n - 1) : ~Matches(e, p.rules[m])
      <4>1. ASSUME NEW m \in 1..(n - 1), Matches(e, p.rules[m]) PROVE FALSE
        <5>1. m \in 1..N /\ m < n
          BY <1>1, <3>3
        <5>2. m \in H
          BY <1>1, <4>1, <5>1
        <5> QED
          BY <3>1, <3>3, <5>1, <5>2
      <4> QED
        BY <4>1
    <3>5. ASSUME NEW m \in 1..N, Matches(e, p.rules[m]),
                 \A l \in 1..(m - 1) : ~Matches(e, p.rules[l])
          PROVE  m = n
      <4>1. m \in H
        BY <1>1, <3>5
      <4>2. n <= m
        BY <3>1, <4>1
      <4>3. n < m => n \in 1..(m - 1)
        BY <3>3
      <4> QED
        BY <3>3, <3>5, <4>2, <4>3
    <3>6. WouldDeny(p, e) => p.rules[n].action = "deny"
      BY <1>1, <3>3, <3>5 DEF WouldDeny
    <3>7. p.rules[n].action = "deny" => WouldDeny(p, e)
      BY <1>1, <3>3, <3>4 DEF WouldDeny
    <3> QED
      BY <3>2, <3>6, <3>7
  <2> QED
    BY <2>1, <2>2
<1> QED
  BY <1>3, <1>4, ModeKeepsDenial

(* A flip is a recorded verdict the candidate turns round. *)
LEMMA FlipsAre ==
  ASSUME NEW p, Wellformed(p), NEW e
  PROVE  /\ Flip(p, e) \in {"denied", "allowed", "unchanged"}
         /\ Flip(p, e) = "denied" <=> ~WasDenied(e) /\ WouldDeny(p, e)
         /\ Flip(p, e) = "allowed" <=> WasDenied(e) /\ ~WouldDeny(p, e)
<1> DEFINE now == isDeniedVerdict(Evaluate(e, p, [actions |-> 0, elapsed |-> 0]))
<1>1. now <=> WouldDeny(p, e)
  BY DenialsAgree
<1>2. isDeniedVerdict(e.oldAuth) <=> WasDenied(e)
  BY DEF isDeniedVerdict, WasDenied
<1>3. now \in BOOLEAN /\ isDeniedVerdict(e.oldAuth) \in BOOLEAN
  BY DEF isDeniedVerdict
<1>4. Flip(p, e) = IF isDeniedVerdict(e.oldAuth) = now THEN "unchanged"
                   ELSE IF now THEN "denied" ELSE "allowed"
  BY DEF Flip
<1> HIDE DEF now
<1>5. CASE isDeniedVerdict(e.oldAuth) = now
  <2>1. Flip(p, e) = "unchanged"
    BY <1>4, <1>5
  <2> QED
    BY <1>1, <1>2, <1>3, <1>5, <2>1
<1>6. CASE isDeniedVerdict(e.oldAuth) # now /\ now
  <2>1. Flip(p, e) = "denied"
    BY <1>4, <1>6
  <2> QED
    BY <1>1, <1>2, <1>3, <1>6, <2>1
<1>7. CASE isDeniedVerdict(e.oldAuth) # now /\ ~now
  <2>1. Flip(p, e) = "allowed"
    BY <1>4, <1>7
  <2> QED
    BY <1>1, <1>2, <1>3, <1>7, <2>1
<1> QED
  BY <1>5, <1>6, <1>7

(* A sequence without repetition meets every value of a set once. *)
LEMMA MetOnce ==
  ASSUME NEW o \in Seq(Events), Cardinality({o[i] : i \in DOMAIN o}) = Len(o),
         NEW G \in SUBSET {o[i] : i \in DOMAIN o}
  PROVE  Cardinality({i \in DOMAIN o : o[i] \in G}) = Cardinality(G)
<1> DEFINE N == Len(o)
           V == {o[i] : i \in DOMAIN o}
           I == {i \in DOMAIN o : o[i] \in G}
           f == [i \in 1..N |-> o[i]]
           g == [i \in I |-> o[i]]
<1>1. N \in Nat /\ DOMAIN o = 1..N
  OBVIOUS
<1>2. IsFiniteSet(1..N) /\ Cardinality(1..N) = N
  <2>0. N \in Nat
    BY <1>1
  <2> HIDE DEF N
  <2>1. N \in Int /\ 1 \in Int /\ (1 > N => N = 0)
    BY <2>0
  <2>2. /\ IsFiniteSet(1..N)
        /\ Cardinality(1..N) = IF 1 > N THEN 0 ELSE N - 1 + 1
    BY <2>1, FS_Interval
  <2> QED
    BY <2>0, <2>1, <2>2
<1>3. f \in Surjection(1..N, V)
  BY <1>1 DEF Surjection
<1>4. f \in Injection(1..N, V)
  BY <1>2, <1>3, FS_Surjection
<1>5. \A i, k \in 1..N : o[i] = o[k] => i = k
  BY <1>4 DEF Injection, IsInjective
<1>6. g \in Bijection(I, G)
  <2>1. g \in Injection(I, G)
    BY <1>1, <1>5 DEF Injection, IsInjective
  <2>2. g \in Surjection(I, G)
    BY <1>1 DEF Surjection
  <2> QED
    BY <2>1, <2>2 DEF Bijection
<1>7. IsFiniteSet(I)
  <2>1. I \subseteq 1..N
    BY <1>1
  <2> QED
    BY <1>2, <2>1, FS_Subset
<1> QED
  BY <1>6, <1>7, FS_Bijection DEF ExistsBijection

(* Three kinds that are all there is add up to all. *)
LEMMA ThreeKinds ==
  ASSUME NEW N \in Nat, NEW flip, DOMAIN flip = 1..N,
         \A i \in 1..N : flip[i] \in {"denied", "allowed", "unchanged"}
  PROVE  /\ \A d : IsFiniteSet(OfFlip(flip, d)) /\ Cardinality(OfFlip(flip, d)) \in Nat
         /\ Cardinality(OfFlip(flip, "denied")) + Cardinality(OfFlip(flip, "allowed"))
              + Cardinality(OfFlip(flip, "unchanged")) = N
<1> DEFINE D == OfFlip(flip, "denied")
           A == OfFlip(flip, "allowed")
           U == OfFlip(flip, "unchanged")
<1>1. IsFiniteSet(1..N) /\ Cardinality(1..N) = N
  BY FS_Interval
<1>2. ASSUME NEW d PROVE IsFiniteSet(OfFlip(flip, d)) /\ Cardinality(OfFlip(flip, d)) \in Nat
  <2>1. OfFlip(flip, d) \subseteq 1..N
    BY DEF OfFlip
  <2>2. IsFiniteSet(OfFlip(flip, d))
    BY <1>1, <2>1, FS_Subset
  <2> QED
    BY <2>2, FS_CardinalityType
<1>3. /\ D \cap A = {} /\ (D \cup A) \cap U = {} /\ (D \cup A) \cup U = 1..N
  BY DEF OfFlip
<1>4. Cardinality({}) = 0
  BY FS_EmptySet
<1>5. /\ IsFiniteSet(D) /\ Cardinality(D) \in Nat
      /\ IsFiniteSet(A) /\ Cardinality(A) \in Nat
      /\ IsFiniteSet(U) /\ Cardinality(U) \in Nat
  BY <1>2
<1> HIDE DEF D, A, U
<1>6. /\ IsFiniteSet(D \cup A)
      /\ Cardinality(D \cup A) = Cardinality(D) + Cardinality(A) - Cardinality(D \cap A)
  BY <1>5, FS_Union
<1>7. Cardinality((D \cup A) \cup U)
        = Cardinality(D \cup A) + Cardinality(U) - Cardinality((D \cup A) \cap U)
  BY <1>5, <1>6, FS_Union
<1>8. Cardinality(D) + Cardinality(A) + Cardinality(U) = N
  <2>0. Cardinality(D \cap A) = 0 /\ Cardinality((D \cup A) \cap U) = 0
    BY <1>3, FS_EmptySet
  <2>1. Cardinality(D \cup A) = Cardinality(D) + Cardinality(A)
    BY <1>5, <1>6, <2>0
  <2>2. Cardinality((D \cup A) \cup U) = Cardinality(D \cup A) + Cardinality(U)
    BY <1>5, <1>7, <2>0, <2>1
  <2>3. Cardinality((D \cup A) \cup U) = N
    BY <1>1, <1>3
  <2> QED
    BY <1>5, <2>1, <2>2, <2>3
<1> QED
  BY <1>2, <1>8 DEF D, A, U

(* The order of the samples. *)
SampleOrder(events, flip) ==
  {e \in Sampled(flip) \X Sampled(flip) : Before(events, flip, e[1], e[2])}

(* Recorded events with their flips. *)
Flips(N, events, flip) ==
  /\ N \in Nat /\ DOMAIN flip = 1..N
  /\ \A i \in 1..N : /\ flip[i] \in {"denied", "allowed", "unchanged"}
                     /\ Rank[events[i].target] \in Nat

LEMMA SamplesOrdered ==
  ASSUME NEW N, NEW events, NEW flip, Flips(N, events, flip)
  PROVE  StrictOrder(Sampled(flip), SampleOrder(events, flip))
<1> DEFINE S == Sampled(flip)
           rank(x) == Rank[events[x].target]
           R == SampleOrder(events, flip)
<1>1. \A i \in S : /\ i \in Nat /\ rank(i) \in Nat /\ flip[i] \in {"denied", "allowed"}
  BY DEF Flips, Sampled
<1>2. \A i, j \in S : <<i, j>> \in R <=>
        IF flip[i] = flip[j] THEN rank(i) < rank(j) \/ (rank(i) = rank(j) /\ i < j)
                             ELSE flip[i] = "denied"
  BY DEF SampleOrder, Before
<1> HIDE DEF S, R, rank
<1>3. \A x \in S : <<x, x>> \notin R
  BY <1>1, <1>2
<1>4. ASSUME NEW x \in S, NEW y \in S PROVE x = y \/ <<x, y>> \in R \/ <<y, x>> \in R
  <2>1. /\ x \in Nat /\ rank(x) \in Nat /\ flip[x] \in {"denied", "allowed"}
        /\ y \in Nat /\ rank(y) \in Nat /\ flip[y] \in {"denied", "allowed"}
    BY <1>1
  <2>2. CASE flip[x] = flip[y]
    <3>1. rank(x) < rank(y) \/ (rank(x) = rank(y) /\ x < y) => <<x, y>> \in R
      BY <1>2, <2>2
    <3>2. rank(y) < rank(x) \/ (rank(y) = rank(x) /\ y < x) => <<y, x>> \in R
      BY <1>2, <2>2
    <3>3. rank(x) < rank(y) \/ rank(y) < rank(x) \/ rank(x) = rank(y)
      BY <2>1
    <3>4. x < y \/ y < x \/ x = y
      BY <2>1
    <3> QED
      BY <3>1, <3>2, <3>3, <3>4
  <2>3. CASE flip[x] # flip[y]
    <3>1. flip[x] = "denied" => <<x, y>> \in R
      BY <1>2, <2>3
    <3>2. flip[y] = "denied" => <<y, x>> \in R
      BY <1>2, <2>3
    <3> QED
      BY <2>1, <2>3, <3>1, <3>2
  <2> QED
    BY <2>2, <2>3
<1>5. \A x, y, z \in S : <<x, y>> \in R /\ <<y, z>> \in R => <<x, z>> \in R
  BY <1>1, <1>2
<1> QED
  BY <1>3, <1>4, <1>5 DEF StrictOrder, S, R

(* The samples are the first of each direction, as many as the cap allows. *)
LEMMA SampleCount ==
  ASSUME NEW N, NEW events, NEW flip, Flips(N, events, flip)
  PROVE  LET S == Sampled(flip)
             Of(d) == {i \in S : flip[i] = d}
         IN /\ IsFiniteSet(S) /\ S = Of("denied") \cup Of("allowed")
            /\ \A d \in {"denied", "allowed"} :
                 /\ IsFiniteSet(Of(d))
                 /\ Cardinality(Of(d)) = Least(MaxSamples, Cardinality(OfFlip(flip, d)))
                 /\ Cardinality(Of(d)) \in Nat
            /\ Cardinality(S) = Cardinality(Of("denied")) + Cardinality(Of("allowed"))
<1> DEFINE S == Sampled(flip)
           Of(d) == {i \in S : flip[i] = d}
<1>1. S \subseteq 1..N /\ IsFiniteSet(1..N)
  <2>1. IsFiniteSet(1..N)
    BY FS_Interval DEF Flips
  <2> QED
    BY <2>1 DEF Sampled, Flips
<1>2. IsFiniteSet(S)
  BY <1>1, FS_Subset
<1>3. S = Of("denied") \cup Of("allowed") /\ Of("denied") \cap Of("allowed") = {}
  BY DEF Flips, Sampled
<1>4. ASSUME NEW d \in {"denied", "allowed"}
      PROVE  /\ IsFiniteSet(Of(d))
             /\ Cardinality(Of(d)) = Least(MaxSamples, Cardinality(OfFlip(flip, d)))
             /\ Cardinality(Of(d)) \in Nat
  <2> DEFINE D == OfFlip(flip, d)
  <2>1. IsFiniteSet(D) /\ D \in SUBSET Nat
    <3>1. D \subseteq 1..N /\ 1..N \subseteq Nat
      BY DEF OfFlip, Flips
    <3> QED
      BY <1>1, <3>1, FS_Subset
  <2>2. Of(d) = {i \in D : Cardinality({j \in D : j < i}) < MaxSamples}
    BY DEF OfFlip, Sampled
  <2>3. MaxSamples \in Nat
    BY SimulateAssumption
  <2>4. IsFiniteSet(Of(d))
    <3>1. Of(d) \subseteq S
      OBVIOUS
    <3> HIDE DEF Of, S
    <3> QED
      BY <1>2, <3>1, FS_Subset
  <2> HIDE DEF D
  <2>5. Cardinality({i \in D : Cardinality({j \in D : j < i}) < MaxSamples})
          = Least(MaxSamples, Cardinality(D))
    BY <2>1, <2>3, FirstFew
  <2> HIDE DEF Of
  <2> QED
    BY <2>2, <2>4, <2>5, FS_CardinalityType DEF D
<1> HIDE DEF S, Of
<1>5. Cardinality(Of("denied") \cup Of("allowed"))
        = Cardinality(Of("denied")) + Cardinality(Of("allowed"))
            - Cardinality(Of("denied") \cap Of("allowed"))
  BY <1>4, FS_Union
<1>6. Cardinality(Of("denied") \cap Of("allowed")) = 0
  BY <1>3, FS_EmptySet
<1>7. Cardinality(S) = Cardinality(Of("denied")) + Cardinality(Of("allowed"))
  BY <1>3, <1>4, <1>5, <1>6
<1> QED
  BY <1>2, <1>3, <1>4, <1>7 DEF S, Of

(* A sample's place tells its direction. *)
LEMMA DenialsFirst ==
  ASSUME NEW N, NEW events, NEW flip, Flips(N, events, flip), NEW x \in Sampled(flip)
  PROVE  LET k == Cardinality({i \in Sampled(flip) : flip[i] = "denied"})
         IN flip[x] = "denied" <=> Place(Sampled(flip), SampleOrder(events, flip), x) < k
<1> DEFINE S == Sampled(flip)
           D == {i \in S : flip[i] = "denied"}
           R == SampleOrder(events, flip)
           B == Earlier(S, R, x)
<1>1. IsFiniteSet(S) /\ IsFiniteSet(D) /\ Cardinality(D) \in Nat
  BY SampleCount
<1>2. IsFiniteSet(B) /\ Cardinality(B) \in Nat
  <2>1. B \subseteq S
    BY DEF Earlier
  <2> HIDE DEF B, S
  <2>2. IsFiniteSet(B)
    BY <1>1, <2>1, FS_Subset
  <2> QED
    BY <2>2, FS_CardinalityType
<1>3. \A i \in S : <<i, x>> \in R <=> Before(events, flip, i, x)
  BY DEF SampleOrder
<1>4. CASE flip[x] = "denied"
  <2>1. B \subseteq D \ {x}
    <3>1. \A i \in B : i \in S /\ <<i, x>> \in R
      BY DEF Earlier
    <3>2. \A i \in B : flip[i] = "denied"
      BY <1>3, <1>4, <3>1 DEF Before
    <3>3. x \notin B
      BY SamplesOrdered DEF StrictOrder, Earlier
    <3> QED
      BY <3>1, <3>2, <3>3
  <2>2. x \in D
    BY <1>4
  <2> HIDE DEF B, D
  <2>3. IsFiniteSet(D \ {x}) /\ Cardinality(D \ {x}) = Cardinality(D) - 1
    BY <1>1, <2>2, FS_RemoveElement
  <2>4. Cardinality(B) <= Cardinality(D \ {x})
    BY <2>1, <2>3, FS_Subset
  <2>5. Cardinality(B) < Cardinality(D)
    BY <1>1, <1>2, <2>3, <2>4
  <2> QED
    BY <1>4, <2>5 DEF Place, B, D
<1>5. CASE flip[x] # "denied"
  <2>1. D \subseteq B
    BY <1>3, <1>5 DEF Earlier, Before
  <2> HIDE DEF B, D
  <2>2. Cardinality(D) <= Cardinality(B)
    BY <1>2, <2>1, FS_Subset
  <2>3. ~(Cardinality(B) < Cardinality(D))
    BY <1>1, <1>2, <2>2
  <2> QED
    BY <1>5, <2>3 DEF Place, B, D
<1> QED
  BY <1>4, <1>5

(* The samples: how many there are, which, and in what order. *)
LEMMA SamplesShown ==
  ASSUME NEW N, NEW events, NEW flip, Flips(N, events, flip),
         NEW s, s = sortSamples(events, flip),
         NEW k, k = Least(MaxSamples, Cardinality(OfFlip(flip, "denied")))
  PROVE  /\ Len(s) = k + Least(MaxSamples, Cardinality(OfFlip(flip, "allowed")))
         /\ k \in Nat /\ Len(s) \in Nat /\ DOMAIN s = 1..Len(s)
         /\ \A n \in DOMAIN s :
              \E i \in OfFlip(flip, IF n <= k THEN "denied" ELSE "allowed") : s[n] = events[i]
         /\ \A n \in 1..(Len(s) - 1) :
              n = k \/ Rank[s[n].target] <= Rank[s[n + 1].target]
<1> DEFINE S == Sampled(flip)
           R == SampleOrder(events, flip)
           c == Cardinality(S)
           rank(x) == Rank[events[x].target]
           at(n) == CHOOSE i \in S : Place(S, R, i) = n - 1
<1>1. /\ IsFiniteSet(S) /\ k \in Nat
      /\ c = k + Least(MaxSamples, Cardinality(OfFlip(flip, "allowed")))
      /\ k = Cardinality({i \in S : flip[i] = "denied"})
  BY SampleCount
<1>2. c \in Nat
  BY <1>1, FS_CardinalityType
<1>3. StrictOrder(S, R)
  BY SamplesOrdered
<1>4. \A i, j \in S : <<i, j>> \in R <=> Before(events, flip, i, j)
  BY DEF SampleOrder
<1>5. \A i \in S : Place(S, R, i) = Cardinality({j \in S : Before(events, flip, j, i)})
  <2>1. \A i \in S : Earlier(S, R, i) = {j \in S : Before(events, flip, j, i)}
    BY <1>4 DEF Earlier
  <2> QED
    BY <2>1 DEF Place
<1>6. s = [n \in 1..c |-> events[at(n)]]
  <2>1. \A n : (CHOOSE i \in S : Cardinality({j \in S : Before(events, flip, j, i)}) = n - 1)
               = at(n)
    BY <1>5
  <2>2. s = [n \in 1..c |->
               events[CHOOSE i \in S : Cardinality({j \in S : Before(events, flip, j, i)}) = n - 1]]
    BY DEF sortSamples
  <2> QED
    BY <2>1, <2>2
<1>7. \A i \in S : /\ flip[i] \in {"denied", "allowed"} /\ rank(i) \in Nat
                   /\ i \in OfFlip(flip, flip[i])
  BY DEF Flips, Sampled, OfFlip
<1>8. \A i \in S : flip[i] = "denied" <=> Place(S, R, i) < k
  BY <1>1, DenialsFirst
<1>9. \A i, j \in S : <<i, j>> \in R => flip[i] # flip[j] \/ rank(i) <= rank(j)
  BY <1>4, <1>7 DEF Before
<1> HIDE DEF S, R
<1>10. /\ Places(S, R) = 0..(c - 1)
       /\ \A x, y \in S : <<x, y>> \in R => Place(S, R, x) < Place(S, R, y)
  BY <1>1, <1>3, PlacesInOrder
<1> HIDE DEF c
<1>11. ASSUME NEW n \in 1..c PROVE at(n) \in S /\ Place(S, R, at(n)) = n - 1
  <2>1. n - 1 \in Places(S, R)
    BY <1>2, <1>10
  <2> DEFINE m == n - 1
  <2>2. \E i \in S : Place(S, R, i) = m
    BY <2>1 DEF Places
  <2> QED
    BY <2>2
<1> HIDE DEF at
<1>12. Len(s) = c /\ DOMAIN s = 1..c
  BY <1>2, <1>6
<1>13. ASSUME NEW n \in 1..c
       PROVE  \E i \in OfFlip(flip, IF n <= k THEN "denied" ELSE "allowed") : s[n] = events[i]
  <2>1. s[n] = events[at(n)] /\ at(n) \in S
    BY <1>6, <1>11
  <2>2. flip[at(n)] = "denied" <=> n <= k
    BY <1>1, <1>8, <1>11
  <2>3. flip[at(n)] = IF n <= k THEN "denied" ELSE "allowed"
    BY <1>7, <2>1, <2>2
  <2> QED
    BY <1>7, <2>1, <2>3
<1>14. ASSUME NEW n \in 1..(c - 1), n # k
       PROVE  Rank[s[n].target] <= Rank[s[n + 1].target]
  <2> DEFINE a == at(n)
             n1 == n + 1
             b == at(n1)
  <2>1. n \in 1..c /\ n1 \in 1..c /\ n \in Nat
    BY <1>2
  <2>2. s[n] = events[a] /\ s[n1] = events[b]
    BY <1>6, <2>1
  <2>3. a \in S /\ Place(S, R, a) = n - 1 /\ b \in S /\ Place(S, R, b) = n1 - 1
    BY <1>11, <2>1
  <2> HIDE DEF a, b
  <2>4. flip[a] = flip[b]
    <3>1. flip[a] = "denied" <=> n <= k
      BY <1>1, <1>8, <2>1, <2>3
    <3>2. flip[b] = "denied" <=> n + 1 <= k
      BY <1>1, <1>8, <2>1, <2>3
    <3>3. n <= k <=> n + 1 <= k
      BY <1>1, <1>14, <2>1
    <3> QED
      BY <1>7, <2>3, <3>1, <3>2, <3>3
  <2>5. <<a, b>> \in R
    <3>1. a = b \/ <<a, b>> \in R \/ <<b, a>> \in R
      BY <1>3, <2>3 DEF StrictOrder
    <3>2. a # b
      BY <2>1, <2>3
    <3>3. ~(Place(S, R, b) < Place(S, R, a))
      BY <2>1, <2>3
    <3> QED
      BY <1>10, <2>3, <3>1, <3>2, <3>3
  <2>6. rank(a) <= rank(b)
    BY <1>9, <2>3, <2>4, <2>5
  <2> QED
    BY <2>2, <2>6
<1> QED
  BY <1>1, <1>2, <1>12, <1>13, <1>14

(* What the answer of a finished job has to be, one job at a time. *)
Answer1(j) == \A res \in result[j] : Counted(j, res.diff) /\ Shown(j, res.diff)

(* The simulation answers for what was collected. *)
LEMMA SimulationAnswers ==
  ASSUME TypeOK, NEW j \in Jobs, Job1(j), j \in DOMAIN req,
         NEW d, d = Simulate(req[j].policy, [i \in DOMAIN out[j] |-> Event(out[j][i])])
  PROVE  Counted(j, d) /\ Shown(j, d)
<1> DEFINE p == req[j].policy
           o == out[j]
           N == Len(o)
           events == [i \in DOMAIN o |-> Event(o[i])]
           flip == [i \in DOMAIN events |-> Flip(p, events[i])]
           D == OfFlip(flip, "denied")
           A == OfFlip(flip, "allowed")
           k == Least(MaxSamples, Cardinality(D))
<1>1. o \in Seq(Events) /\ N \in Nat /\ DOMAIN o = 1..N
  BY DEF TypeOK
<1>2. Wellformed(p)
  BY SimulateAssumption DEF TypeOK, Wellformed
<1>3. DOMAIN events = 1..N /\ Len(events) = N /\ DOMAIN flip = 1..N
  BY <1>1
<1>4. \A i \in 1..N : /\ events[i] = Event(o[i]) /\ flip[i] = Flip(p, Event(o[i]))
                      /\ o[i] \in Got(j)
  BY <1>1 DEF Got
<1>5. Flips(N, events, flip)
  <2>1. \A i \in 1..N : flip[i] \in {"denied", "allowed", "unchanged"}
    BY <1>2, <1>4, FlipsAre
  <2>2. ASSUME NEW i \in 1..N PROVE Rank[events[i].target] \in Nat
    <3>1. o[i][1] \in Runs /\ o[i][2] \in DOMAIN Trace[o[i][1]]
      <4>1. o[i] \in Events
        BY <1>1
      <4> QED
        BY <1>4, <4>1 DEF Events, Job1, Collected1
    <3>2. events[i] = Trace[o[i][1]][o[i][2]]
      BY <1>4 DEF Event
    <3> QED
      BY <3>1, <3>2, SimulateAssumption
  <2> HIDE DEF events, flip
  <2> QED
    BY <1>1, <1>3, <2>1, <2>2 DEF Flips
<1>6. d = [newlyDenied |-> Cardinality(D), newlyAllowed |-> Cardinality(A),
           unchanged |-> Cardinality(OfFlip(flip, "unchanged")),
           totalEvaluated |-> Len(events), samples |-> sortSamples(events, flip)]
  BY DEF Simulate
<1> HIDE DEF events, flip
<1>7. /\ \A i \in 1..N : i \in D <=> o[i] \in ToDeny(j)
      /\ \A i \in 1..N : i \in A <=> o[i] \in ToAllow(j)
  <2>1. \A i \in 1..N :
          /\ flip[i] = "denied" <=> ~WasDenied(Event(o[i])) /\ WouldDeny(p, Event(o[i]))
          /\ flip[i] = "allowed" <=> WasDenied(Event(o[i])) /\ ~WouldDeny(p, Event(o[i]))
    BY <1>2, <1>4, FlipsAre
  <2> QED
    BY <1>3, <1>4, <2>1 DEF OfFlip, ToDeny, ToAllow
<1>8. D \subseteq 1..N /\ A \subseteq 1..N
  BY <1>3 DEF OfFlip
<1>9. ToDeny(j) \subseteq Got(j) /\ ToAllow(j) \subseteq Got(j)
  BY DEF ToDeny, ToAllow
<1>10. Cardinality(D) = Cardinality(ToDeny(j)) /\ Cardinality(A) = Cardinality(ToAllow(j))
  <2>1. Got(j) = {o[i] : i \in DOMAIN o} /\ Cardinality(Got(j)) = Len(o)
    BY DEF Got, Job1, Whole1
  <2>2. D = {i \in DOMAIN o : o[i] \in ToDeny(j)} /\ A = {i \in DOMAIN o : o[i] \in ToAllow(j)}
    BY <1>1, <1>7, <1>8
  <2> HIDE DEF o, D, A
  <2> QED
    BY <1>1, <1>9, <2>1, <2>2, MetOnce
<1>11. \A i \in 1..N : flip[i] \in {"denied", "allowed", "unchanged"}
  BY <1>5 DEF Flips
<1>12. Counted(j, d)
  <2>1. /\ Cardinality(D) \in Nat /\ Cardinality(A) \in Nat
        /\ Cardinality(OfFlip(flip, "unchanged")) \in Nat
        /\ Cardinality(D) + Cardinality(A) + Cardinality(OfFlip(flip, "unchanged")) = N
    BY <1>1, <1>3, <1>11, ThreeKinds
  <2>2. /\ d.newlyDenied = Cardinality(D) /\ d.newlyAllowed = Cardinality(A)
        /\ d.unchanged = Cardinality(OfFlip(flip, "unchanged")) /\ d.totalEvaluated = N
    BY <1>3, <1>6
  <2> HIDE DEF D, A
  <2> QED
    BY <1>10, <2>1, <2>2 DEF Counted
<1>13. Shown(j, d)
  <2> DEFINE s == d.samples
  <2>1. s = sortSamples(events, flip)
    BY <1>6
  <2> HIDE DEF s, D, A, N
  <2>2. /\ Len(s) = k + Least(MaxSamples, Cardinality(A))
        /\ \A n \in DOMAIN s :
             \E i \in OfFlip(flip, IF n <= k THEN "denied" ELSE "allowed") : s[n] = events[i]
        /\ \A n \in 1..(Len(s) - 1) : n = k \/ Rank[s[n].target] <= Rank[s[n + 1].target]
    BY <1>5, <2>1, SamplesShown DEF D, A
  <2>3. ASSUME NEW n \in DOMAIN s
        PROVE  \E e \in (IF n <= k THEN ToDeny(j) ELSE ToAllow(j)) : s[n] = Event(e)
    <3>1. CASE n <= k
      <4>1. PICK i \in D : s[n] = events[i]
        BY <2>2, <3>1 DEF D
      <4>2. o[i] \in ToDeny(j) /\ s[n] = Event(o[i])
        BY <1>4, <1>7, <1>8, <4>1
      <4> QED
        BY <3>1, <4>2
    <3>2. CASE ~(n <= k)
      <4>1. PICK i \in A : s[n] = events[i]
        BY <2>2, <3>2 DEF A
      <4>2. o[i] \in ToAllow(j) /\ s[n] = Event(o[i])
        BY <1>4, <1>7, <1>8, <4>1
      <4> QED
        BY <3>2, <4>2
    <3> QED
      BY <3>1, <3>2
  <2>4. k = Least(MaxSamples, Cardinality(ToDeny(j)))
    BY <1>10
  <2> HIDE DEF k
  <2> QED
    BY <1>10, <2>2, <2>3, <2>4 DEF Shown, s
<1> QED
  BY <1>12, <1>13

(* A job that lists no runs answers for nothing. *)
LEMMA NothingAnswers ==
  ASSUME NEW j \in Jobs, out[j] = <<>>
  PROVE  Counted(j, NoDiff) /\ Shown(j, NoDiff)
<1>1. Got(j) = {} /\ MaxSamples \in Nat
  BY SimulateAssumption DEF Got
<1>2. ToDeny(j) = {} /\ ToAllow(j) = {}
  BY <1>1 DEF ToDeny, ToAllow
<1>3. Cardinality(ToDeny(j)) = 0 /\ Cardinality(ToAllow(j)) = 0
  BY <1>2, FS_EmptySet
<1>4. Least(MaxSamples, 0) = 0
  BY <1>1 DEF Least
<1>5. Counted(j, NoDiff)
  BY <1>3 DEF Counted, NoDiff
<1>6. NoDiff.samples = <<>>
  BY DEF NoDiff
<1>7. Len(<<>>) = 0 /\ DOMAIN <<>> = {} /\ 1..(0 - 1) = {}
  OBVIOUS
<1>8. Shown(j, NoDiff)
  BY <1>3, <1>4, <1>6, <1>7 DEF Shown
<1> QED
  BY <1>5, <1>8

(* What an answer says depends on the request and on what was collected. *)
LEMMA SameQuestion ==
  ASSUME NEW j \in Jobs, out'[j] = out[j], req'[j] = req[j]
  PROVE  \A d : Counted(j, d)' = Counted(j, d) /\ Shown(j, d)' = Shown(j, d)
<1>1. Got(j)' = Got(j)
  BY DEF Got
<1>2. ToDeny(j)' = ToDeny(j) /\ ToAllow(j)' = ToAllow(j)
  BY <1>1 DEF ToDeny, ToAllow
<1> QED
  BY <1>2 DEF Counted, Shown

(* An answer stands while what it is about stands. *)
LEMMA AnswerSame ==
  ASSUME NEW j \in Jobs, Answer1(j),
         result'[j] = {} \/ (result'[j] = result[j] /\ out'[j] = out[j] /\ req'[j] = req[j])
  PROVE  Answer1(j)'
<1>1. CASE result'[j] = {}
  BY <1>1 DEF Answer1
<1>2. CASE result'[j] = result[j] /\ out'[j] = out[j] /\ req'[j] = req[j]
  BY <1>2, SameQuestion DEF Answer1
<1> QED
  BY <1>1, <1>2

(* Every answer stays exact. *)
LEMMA AnswersStep ==
  ASSUME IndInv, \A j \in Jobs : Job1(j) /\ Answer1(j), [Next]_vars
  PROVE  \A j \in Jobs : Answer1(j)'
<1>0. TypeOK /\ StatusOK
  BY DEF IndInv
<1>1. ASSUME UNCHANGED <<result, out, req>> PROVE \A x \in Jobs : Answer1(x)'
  BY <1>1, AnswerSame
<1>2. ASSUME NEW j \in Jobs, NEW q \in Requests, SubmitJob(j, q)
      PROVE  \A x \in Jobs : Answer1(x)'
  <2>1. ASSUME NEW x \in Jobs PROVE result'[x] = {} \/ req'[x] = req[x]
    <3>1. x \in DOMAIN req => req'[x] = req[x]
      BY <1>2 DEF SubmitJob
    <3>2. x \notin DOMAIN req => result[x] = {}
      BY <1>0 DEF TypeOK, StatusOK
    <3> QED
      BY <1>2, <3>1, <3>2 DEF SubmitJob
  <2> QED
    BY <1>2, <2>1, AnswerSame DEF SubmitJob
<1>3. ASSUME NEW j \in Jobs, NEW d, finishDone(j, Scanned(d, 0)) \/
               finishDone(j, Scanned(d, Cardinality(listed[j]))),
             UNCHANGED <<out, req>>, Counted(j, d) /\ Shown(j, d)
      PROVE  \A x \in Jobs : Answer1(x)'
  <2>1. PICK n : finishDone(j, Scanned(d, n))
    BY <1>3
  <2>2. result' = [result EXCEPT ![j] = {Scanned(d, n)}] /\ Scanned(d, n).diff = d
    BY <2>1 DEF finishDone, Scanned
  <2>3. result'[j] = {Scanned(d, n)} /\ \A x \in Jobs : x # j => result'[x] = result[x]
    BY <1>0, <2>2 DEF TypeOK
  <2>4. Answer1(j)'
    BY <1>3, <2>2, <2>3, SameQuestion DEF Answer1
  <2> QED
    BY <1>3, <2>3, <2>4, AnswerSame
<1>4. ASSUME NEW j \in Jobs, ListRuns(j) PROVE \A x \in Jobs : Answer1(x)'
  <2>1. finishDone(j, Scanned(NoDiff, 0)) \/ UNCHANGED result
    BY <1>4, Zenon DEF ListRuns, FanOut
  <2>2. out[j] = <<>> /\ UNCHANGED <<out, req>>
    BY <1>0, <1>4 DEF StatusOK, ListRuns
  <2> QED
    BY <1>1, <1>3, <2>1, <2>2, NothingAnswers
<1>5. ASSUME NEW j \in Jobs, Finish(j) PROVE \A x \in Jobs : Answer1(x)'
  <2> DEFINE d == Simulate(req[j].policy, [i \in DOMAIN out[j] |-> Event(out[j][i])])
  <2>1. finishError(j) \/ finishDone(j, Scanned(d, Cardinality(listed[j])))
    BY <1>5 DEF Finish
  <2>2. UNCHANGED <<out, req>> /\ j \in DOMAIN req
    BY <1>0, <1>5 DEF StatusOK, Finish
  <2>3. Counted(j, d) /\ Shown(j, d)
    BY <1>0, <2>2, SimulationAnswers
  <2> HIDE DEF d
  <2>4. finishError(j) => UNCHANGED result
    BY DEF finishError
  <2> QED
    BY <1>1, <1>3, <2>1, <2>2, <2>3, <2>4
<1>6. ASSUME NEW j \in Jobs, Collect(j) PROVE \A x \in Jobs : Answer1(x)'
  <2>1. ASSUME NEW x \in Jobs PROVE result'[x] = {} \/ out'[x] = out[x]
    <3>1. x # j => out'[x] = out[x]
      BY <1>0, <1>6 DEF TypeOK, Collect
    <3>2. result[j] = {}
      BY <1>0, <1>6 DEF TypeOK, StatusOK, Collect
    <3> QED
      BY <1>6, <3>1, <3>2 DEF Collect
  <2> QED
    BY <1>6, <2>1, AnswerSame DEF Collect
<1>7. ASSUME Restart PROVE \A x \in Jobs : Answer1(x)'
  BY <1>7, AnswerSame DEF Restart
<1>8. \/ UNCHANGED <<result, out, req>> \/ Restart
      \/ \E j \in Jobs, q \in Requests : SubmitJob(j, q)
      \/ \E j \in Jobs : ListRuns(j) \/ Finish(j) \/ Collect(j)
  <2>1. ASSUME NEW j \in Jobs, Start(j) \/ Timeout(j) \/ ListFails(j)
        PROVE  UNCHANGED <<result, out, req>>
    BY <2>1, Zenon DEF Start, Timeout, ListFails, finishError
  <2>2. ASSUME NEW j \in Jobs, NEW r \in Runs, RunStep(j, r)
        PROVE  UNCHANGED <<result, out, req>>
    BY <2>2, Zenon DEF RunStep, Acquire, Download, Extract
  <2>3. ASSUME NEW r \in Runs, Upload(r) \/ Remove(r) PROVE UNCHANGED <<result, out, req>>
    BY <2>3 DEF Upload, Remove, Store, jobvars
  <2>4. UNCHANGED vars => UNCHANGED <<result, out, req>>
    BY DEF vars, jobvars
  <2> QED
    BY <2>1, <2>2, <2>3, <2>4 DEF Next, JobStep
<1> QED
  BY <1>1, <1>2, <1>4, <1>5, <1>6, <1>7, <1>8

(* Simulate, as runner.run stores it: whatever arrived in whatever order,  *)
(* a finished job counts exactly the verdicts its candidate policy turns   *)
(* round, and shows as many as the cap allows for each direction, denials  *)
(* first and by target.                                                    *)
THEOREM AnswersExact == Spec => []ResultExact
<1>1. Init => \A j \in Jobs : Job1(j) /\ Answer1(j)
  <2> SUFFICES ASSUME Init, NEW j \in Jobs PROVE Job1(j) /\ Answer1(j)
    OBVIOUS
  <2>1. Cardinality({}) <= MaxRunsPerSim
    BY FS_EmptySet, SimulateAssumption
  <2>2. Job1(j)
    BY <2>1, JobEmpty DEF Init
  <2> QED
    BY <2>2 DEF Init, Answer1
<1>2. IndInv /\ (\A j \in Jobs : Job1(j) /\ Answer1(j)) /\ [Next]_vars
        => (\A j \in Jobs : Job1(j) /\ Answer1(j))'
  BY JobsStep, AnswersStep
<1>3. (\A j \in Jobs : Job1(j) /\ Answer1(j)) => ResultExact
  BY DEF Answer1, ResultExact
<1> QED
  BY <1>1, <1>2, <1>3, Invariance, PTL DEF Spec


=============================================================================
