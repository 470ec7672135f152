-------------------------- MODULE TraceStore_proofs --------------------------
(***************************************************************************)
(* Proofs about TraceStore, for any orgs, runs, traces, requests, workers, *)
(* batch size and set of faults.                                           *)
(***************************************************************************)
EXTENDS TraceStore, TLAPS

(* The initial state: empty stores, every handler at its start. *)
LEMMA InitInv == Init => IndInv
<1> SUFFICES ASSUME Init PROVE IndInv
  OBVIOUS
<1> USE TraceStoreAssumption DEF Init
<1>1. TypeOK
  BY DEF TypeOK, PCs, Resps, Procs
<1>2. OneRowPerRun /\ FiledByOwner /\ ServedOwnTrace
  BY DEF OneRowPerRun, FiledByOwner, ServedOwnTrace
<1>3. HandlersOK
  BY DEF HandlersOK, Procs
<1>4. ASSUME NEW o \in Orgs, NEW r \in Runs PROVE Consistent(o, r)
  BY DEF Consistent, Uploaders, Deleters, RowsOf, ObjsOf, KeyIdsOf, Procs
<1> QED
  BY <1>1, <1>2, <1>3, <1>4 DEF IndInv, CleanRunsConsistent

(* A key is the key of the org and run it was built from. *)
LEMMA StorageKeyType ==
  ASSUME NEW o \in Orgs, NEW t \in Traces
  PROVE  /\ StorageKey(o, t) \in Keys
         /\ StorageKey(o, t).org = o
         /\ StorageKey(o, t).run = RunOf[t]
BY TraceStoreAssumption DEF StorageKey, Keys

(* What a call is for each operation. *)
LEMMA CallType ==
  ASSUME TypeOK, NEW q \in Reqs
  PROVE  /\ call[q].org \in Orgs /\ call[q].run \in Runs
         /\ call[q].op = "upload" => call[q].trace \in Traces
         /\ call[q].op \in {"upload", "delete", "read"}
BY DEF TypeOK, Calls

(* Type correctness of every step. *)
LEMMA TypeStep == IndInv /\ [Next]_vars => TypeOK'
<1> SUFFICES ASSUME IndInv, [Next]_vars PROVE TypeOK'
  OBVIOUS
<1> USE TraceStoreAssumption
<1>0. TypeOK /\ HandlersOK
  BY DEF IndInv
<1>k. \A x \in rows : StorageKey(x.org, x.trace) \in Keys
  BY <1>0, StorageKeyType DEF TypeOK, Rows
<1>1. ASSUME NEW q \in Reqs, UploadRefused(q) PROVE TypeOK'
  BY <1>0, <1>1 DEF TypeOK, UploadRefused, Respond, Goto, PCs, Resps
<1>2. ASSUME NEW q \in Reqs, InsertRun(q) PROVE TypeOK'
  <2>1. call[q].op = "upload" /\ IdOf(q) \in Ids
    BY <1>0, <1>2, CallType DEF InsertRun, At, IdOf, Ids
  <2>2. NewRow(q) \in Rows
    BY <1>0, <2>1, CallType DEF NewRow, Rows, TypeOK
  <2> QED
    BY <1>0, <1>2, <2>1, <2>2 DEF TypeOK, InsertRun, Respond, Goto, TaintIf, PCs, Resps
<1>3. ASSUME NEW q \in Reqs, AnswerDuplicate(q) PROVE TypeOK'
  <2>1. IdOf(q) \in Ids
    BY <1>0, CallType DEF IdOf, Ids
  <2> QED
    BY <1>0, <1>3, <2>1 DEF TypeOK, AnswerDuplicate, Respond, Goto, PCs, Resps
<1>4. ASSUME NEW q \in Reqs, UploadBytes(q) PROVE TypeOK'
  <2>1. call[q].op = "upload" /\ IdOf(q) \in Ids
    BY <1>0, <1>4, CallType DEF UploadBytes, HandlersOK, IdOf, Ids
  <2>2. Stored(q) \in Objects
    BY <1>0, <2>1, CallType, StorageKeyType DEF Stored, Objects
  <2> QED
    BY <1>0, <1>4, <2>1, <2>2 DEF TypeOK, UploadBytes, PutObject, Goto, TaintIf, PCs
<1>5. ASSUME NEW q \in Reqs, RollBackInsert(q) PROVE TypeOK'
  <2>1. IdOf(q) \in Ids
    BY <1>0, CallType DEF IdOf, Ids
  <2> QED
    BY <1>0, <1>5, <2>1 DEF TypeOK, RollBackInsert, RowsOf, Respond, Goto, TaintIf, PCs, Resps
<1>6. ASSUME NEW q \in Reqs, FinishUpload(q) PROVE TypeOK'
  <2>1. lastSeen' \in [Registered -> Nat]
    <3>1. lastSeen' = lastSeen \/ \E a \in Registered : lastSeen' = [lastSeen EXCEPT ![a] = now]
      BY <1>6 DEF FinishUpload
    <3> QED
      BY <1>0, <3>1 DEF TypeOK
  <2>2. pc' \in [Reqs -> PCs] /\ resp' \in [Reqs -> Resps]
    BY <1>0, <1>6 DEF TypeOK, FinishUpload, Respond, Goto, PCs, Resps
  <2>3. audit' \subseteq Reqs
    BY <1>0, <1>6 DEF TypeOK, FinishUpload
  <2> QED
    BY <1>0, <1>6, <2>1, <2>2, <2>3 DEF TypeOK, FinishUpload
<1>7. ASSUME NEW q \in Reqs, DeleteRun(q) PROVE TypeOK'
  <2>1. IdOf(q) \in Ids
    BY <1>0, CallType DEF IdOf, Ids
  <2>2. {StorageKey(x.org, x.trace) : x \in RowsOf(call[q].org, call[q].run)} \subseteq Keys
    BY <1>k DEF RowsOf
  <2> QED
    BY <1>0, <1>7, <2>1, <2>2 DEF TypeOK, DeleteRun, RowsOf, Respond, Goto, TaintIf, PCs, Resps, Procs
<1>8. ASSUME NEW q \in Reqs, DeleteObject(q) PROVE TypeOK'
  <2>1. IdOf(q) \in Ids
    BY <1>0, CallType DEF IdOf, Ids
  <2> QED
    BY <1>0, <1>8, <2>1 DEF TypeOK, DeleteObject, RemoveObjects, Respond, Goto, TaintIf, PCs, Resps, Procs
<1>9. ASSUME NEW q \in Reqs, LookupForDownload(q) PROVE TypeOK'
  <2>2. {StorageKey(x.org, x.trace) : x \in RowsOf(call[q].org, call[q].run)} \subseteq Keys
    BY <1>k DEF RowsOf
  <2>3. /\ pc' = [pc EXCEPT ![q] = "download"] \/ pc' = [pc EXCEPT ![q] = "done"]
        /\ resp' = resp \/ \E c \in Resps : resp' = [resp EXCEPT ![q] = c]
        /\ \/ keys' = keys
           \/ keys' = [keys EXCEPT ![q] = {StorageKey(x.org, x.trace) :
                                             x \in RowsOf(call[q].org, call[q].run)}]
    BY <1>9 DEF LookupForDownload, Respond, Goto, Resps
  <2>4. pc' \in [Reqs -> PCs] /\ resp' \in [Reqs -> Resps]
    BY <1>0, <2>3 DEF TypeOK, PCs
  <2>5. keys' \in [Procs -> SUBSET Keys]
    BY <1>0, <2>2, <2>3 DEF TypeOK, Procs
  <2> QED
    BY <1>0, <1>9, <2>4, <2>5 DEF TypeOK, LookupForDownload
<1>10. ASSUME NEW q \in Reqs, Download(q) PROVE TypeOK'
  BY <1>0, <1>10 DEF TypeOK, Download, Respond, Goto, PCs, Resps, Procs
<1>11. ASSUME NEW w \in Workers, ReapExpiredRuns(w) PROVE TypeOK'
  <2>1. PICK S \in Candidates :
          /\ rows' = rows \ Reaped(S)
          /\ \/ keys' = [keys EXCEPT ![w] = {StorageKey(x.org, x.trace) : x \in Reaped(S)}]
             \/ UNCHANGED keys
          /\ tainted' \subseteq tainted \cup ReapIds(Reaped(S))
    BY <1>11 DEF ReapExpiredRuns
  <2>2. {StorageKey(x.org, x.trace) : x \in Reaped(S)} \subseteq Keys
    BY <1>k DEF Reaped
  <2>3. ReapIds(Reaped(S)) \subseteq Ids
    BY <1>0 DEF ReapIds, Reaped, TypeOK, Rows, Ids
  <2> QED
    BY <1>0, <1>11, <2>1, <2>2, <2>3 DEF TypeOK, ReapExpiredRuns, Procs
<1>12. ASSUME NEW w \in Workers, SweepObject(w) PROVE TypeOK'
  <2>1. PICK k \in keys[w] : /\ keys' = [keys EXCEPT ![w] = @ \ {k}]
                             /\ objs' \subseteq objs
                             /\ tainted' \subseteq tainted \cup {<<k.org, k.run>>}
    BY <1>12 DEF SweepObject, RemoveObjects, TaintIf
  <2>2. <<k.org, k.run>> \in Ids
    BY <1>0 DEF TypeOK, Procs, Keys, Ids
  <2> QED
    BY <1>0, <1>12, <2>1, <2>2 DEF TypeOK, SweepObject, Procs
<1>13. ASSUME Tick PROVE TypeOK'
  BY <1>0, <1>13 DEF TypeOK, Tick
<1>14. ASSUME NEW q \in Reqs, Disconnect(q) PROVE TypeOK'
  BY <1>0, <1>14 DEF TypeOK, Disconnect
<1>15. ASSUME NEW q \in Reqs, CrashHandler(q) PROVE TypeOK'
  <2>1. IdOf(q) \in Ids
    BY <1>0, CallType DEF IdOf, Ids
  <2> QED
    BY <1>0, <1>15, <2>1 DEF TypeOK, CrashHandler, Goto, TaintIf, PCs, Procs
<1>16. ASSUME NEW w \in Workers, CrashSweep(w) PROVE TypeOK'
  <2>1. {<<k.org, k.run>> : k \in keys[w]} \subseteq Ids
    BY <1>0 DEF TypeOK, Procs, Keys, Ids
  <2> QED
    BY <1>0, <1>16, <2>1 DEF TypeOK, CrashSweep, Procs
<1>17. ASSUME UNCHANGED vars PROVE TypeOK'
  BY <1>0, <1>17 DEF TypeOK, vars
<1> QED
  BY <1>1, <1>2, <1>3, <1>4, <1>5, <1>6, <1>7, <1>8, <1>9, <1>10, <1>11, <1>12, <1>13,
     <1>14, <1>15, <1>16, <1>17 DEF Next, Handler

(* The primary key, the handlers' bookkeeping, the filing of rows and      *)
(* objects and tenant isolation survive every step.                        *)
LEMMA StructureStep ==
  IndInv /\ [Next]_vars => (OneRowPerRun /\ HandlersOK /\ FiledByOwner /\ ServedOwnTrace)'
<1> DEFINE Good == OneRowPerRun /\ HandlersOK /\ FiledByOwner /\ ServedOwnTrace
<1> SUFFICES ASSUME IndInv, [Next]_vars PROVE Good'
  OBVIOUS
<1> USE TraceStoreAssumption
<1>0. TypeOK /\ Good
  BY DEF IndInv
<1>k. \A x \in rows : /\ StorageKey(x.org, x.trace) \in Keys
                      /\ StorageKey(x.org, x.trace).org = x.org
                      /\ StorageKey(x.org, x.trace).run = x.run
  BY <1>0, StorageKeyType DEF TypeOK, Rows, FiledByOwner
<1>1. ASSUME NEW q \in Reqs, UploadRefused(q) PROVE Good'
  <2>1. OneRowPerRun'
    BY <1>0, <1>1 DEF OneRowPerRun, RowsOf, TypeOK, UploadRefused, Respond, Goto
  <2>2. HandlersOK'
    BY <1>0, <1>1 DEF HandlersOK, TypeOK, Procs, UploadRefused, At, Respond, Goto
  <2>3. FiledByOwner'
    BY <1>0, <1>1 DEF FiledByOwner, TypeOK, UploadRefused, Respond, Goto
  <2>4. ServedOwnTrace'
    BY <1>0, <1>1 DEF ServedOwnTrace, TypeOK, UploadRefused, Respond, Goto
  <2> QED
    BY <2>1, <2>2, <2>3, <2>4
<1>2. ASSUME NEW q \in Reqs, InsertRun(q) PROVE Good'
  <2>a. call[q].op = "upload" /\ call[q].trace \in Traces
    BY <1>0, <1>2, CallType DEF InsertRun, At
  <2>b. \/ rows' = rows
        \/ /\ RowsOf(call[q].org, call[q].run) = {}
           /\ rows' = rows \cup {NewRow(q)}
    BY <1>2 DEF InsertRun
  <2>c. /\ NewRow(q).org = call[q].org /\ NewRow(q).run = call[q].run
        /\ NewRow(q).trace = call[q].trace
    BY DEF NewRow
  <2>1. OneRowPerRun'
    BY <1>0, <2>b, <2>c DEF OneRowPerRun, RowsOf
  <2>2. HandlersOK'
    <3>1. /\ keys' = keys /\ call' = call /\ pc[q] = "start"
          /\ \E l \in {"put", "dup", "done"} : pc' = [pc EXCEPT ![q] = l]
      BY <1>2 DEF InsertRun, At, Respond, Goto
    <3> QED
      BY <1>0, <2>a, <3>1 DEF HandlersOK, TypeOK
  <2>3. FiledByOwner'
    BY <1>0, <1>2, <2>a, <2>b, <2>c DEF FiledByOwner, HandlersOK, InsertRun
  <2>4. ServedOwnTrace'
    BY <1>0, <1>2 DEF ServedOwnTrace, TypeOK, InsertRun, At, NewRow, Respond, Goto
  <2> QED
    BY <2>1, <2>2, <2>3, <2>4
<1>3. ASSUME NEW q \in Reqs, AnswerDuplicate(q) PROVE Good'
  <2>1. OneRowPerRun'
    BY <1>0, <1>3 DEF OneRowPerRun, RowsOf, TypeOK, AnswerDuplicate, Respond, Goto
  <2>2. HandlersOK'
    BY <1>0, <1>3 DEF HandlersOK, TypeOK, Procs, AnswerDuplicate, Respond, Goto
  <2>3. FiledByOwner'
    BY <1>0, <1>3 DEF FiledByOwner, TypeOK, AnswerDuplicate, Respond, Goto
  <2>4. ServedOwnTrace'
    BY <1>0, <1>3 DEF ServedOwnTrace, TypeOK, AnswerDuplicate, Respond, Goto
  <2> QED
    BY <2>1, <2>2, <2>3, <2>4
<1>4. ASSUME NEW q \in Reqs, UploadBytes(q) PROVE Good'
  <2>a. /\ call[q].op = "upload" /\ call[q].trace \in Traces /\ call[q].org \in Orgs
        /\ call[q].run = RunOf[call[q].trace]
    BY <1>0, <1>4, CallType DEF UploadBytes, HandlersOK
  <2>b. /\ Stored(q).org = Stored(q).key.org
        /\ RunOf[Stored(q).trace] = Stored(q).key.run
    BY <2>a DEF Stored, StorageKey
  <2>1. OneRowPerRun'
    BY <1>0, <1>4 DEF OneRowPerRun, RowsOf, TypeOK, UploadBytes, PutObject, Stored, Goto
  <2>2. HandlersOK'
    <3>1. /\ keys' = keys /\ call' = call /\ pc[q] = "put"
          /\ \E l \in {"touch", "rollback"} : pc' = [pc EXCEPT ![q] = l]
      BY <1>4 DEF UploadBytes, Goto
    <3> QED
      BY <1>0, <2>a, <3>1 DEF HandlersOK, TypeOK
  <2>3. FiledByOwner'
    BY <1>0, <1>4, <2>b DEF FiledByOwner, UploadBytes, PutObject
  <2>4. ServedOwnTrace'
    BY <1>0, <1>4 DEF ServedOwnTrace, TypeOK, UploadBytes, PutObject, Stored, Goto
  <2> QED
    BY <2>1, <2>2, <2>3, <2>4
<1>5. ASSUME NEW q \in Reqs, RollBackInsert(q) PROVE Good'
  <2>1. OneRowPerRun'
    BY <1>0, <1>5 DEF OneRowPerRun, RowsOf, TypeOK, RollBackInsert, Respond, Goto
  <2>2. HandlersOK'
    BY <1>0, <1>5 DEF HandlersOK, TypeOK, Procs, RollBackInsert, Respond, Goto
  <2>3. FiledByOwner'
    BY <1>0, <1>5 DEF FiledByOwner, TypeOK, RollBackInsert, Respond, Goto
  <2>4. ServedOwnTrace'
    BY <1>0, <1>5 DEF ServedOwnTrace, TypeOK, RollBackInsert, Respond, Goto
  <2> QED
    BY <2>1, <2>2, <2>3, <2>4
<1>6. ASSUME NEW q \in Reqs, FinishUpload(q) PROVE Good'
  <2>1. OneRowPerRun'
    BY <1>0, <1>6 DEF OneRowPerRun, RowsOf, TypeOK, FinishUpload, Respond, Goto
  <2>2. HandlersOK'
    BY <1>0, <1>6 DEF HandlersOK, TypeOK, Procs, FinishUpload, Respond, Goto
  <2>3. FiledByOwner'
    BY <1>0, <1>6 DEF FiledByOwner, TypeOK, FinishUpload, Respond, Goto
  <2>4. ServedOwnTrace'
    BY <1>0, <1>6 DEF ServedOwnTrace, TypeOK, FinishUpload, Respond, Goto
  <2> QED
    BY <2>1, <2>2, <2>3, <2>4
<1>7. ASSUME NEW q \in Reqs, DeleteRun(q) PROVE Good'
  <2>a. keys[q] = {}
    BY <1>0, <1>7 DEF HandlersOK, DeleteRun, At
  <2>b. \/ keys' = keys /\ pc' = [pc EXCEPT ![q] = "done"]
        \/ /\ keys' = [keys EXCEPT ![q] =
                         {StorageKey(x.org, x.trace) : x \in RowsOf(call[q].org, call[q].run)}]
           /\ RowsOf(call[q].org, call[q].run) # {}
           /\ pc' = [pc EXCEPT ![q] = "s3del"]
    BY <1>7 DEF DeleteRun, Respond, Goto
  <2>c. \A k \in {StorageKey(x.org, x.trace) : x \in RowsOf(call[q].org, call[q].run)} :
          k.org = call[q].org /\ k.run = call[q].run
    BY <1>k DEF RowsOf
  <2>1. OneRowPerRun'
    BY <1>0, <1>7 DEF OneRowPerRun, RowsOf, TypeOK, DeleteRun, At, Respond, Goto
  <2>2. HandlersOK'
    <3> DEFINE ks == {StorageKey(x.org, x.trace) : x \in RowsOf(call[q].org, call[q].run)}
    <3>1. RowsOf(call[q].org, call[q].run) # {} => ks # {}
      OBVIOUS
    <3>2. call' = call /\ pc[q] = "start" /\ call[q].op = "delete"
      BY <1>7 DEF DeleteRun, At
    <3> HIDE DEF ks
    <3> QED
      <4>1. CASE keys' = keys /\ pc' = [pc EXCEPT ![q] = "done"]
        BY <1>0, <2>a, <3>2, <4>1 DEF HandlersOK, TypeOK
      <4>2. CASE /\ keys' = [keys EXCEPT ![q] = ks] /\ ks # {}
                 /\ pc' = [pc EXCEPT ![q] = "s3del"]
        <5>1. \A k \in ks : k.org = call[q].org /\ k.run = call[q].run
          BY <2>c DEF ks
        <5> QED
          BY <1>0, <3>2, <4>2, <5>1 DEF HandlersOK, TypeOK, Procs
      <4> QED
        BY <2>b, <3>1, <4>1, <4>2 DEF ks
  <2>3. FiledByOwner'
    BY <1>0, <1>7 DEF FiledByOwner, TypeOK, DeleteRun, At, Respond, Goto
  <2>4. ServedOwnTrace'
    BY <1>0, <1>7 DEF ServedOwnTrace, TypeOK, DeleteRun, At, Respond, Goto
  <2> QED
    BY <2>1, <2>2, <2>3, <2>4
<1>8. ASSUME NEW q \in Reqs, DeleteObject(q) PROVE Good'
  <2>1. OneRowPerRun'
    BY <1>0, <1>8 DEF OneRowPerRun, RowsOf, TypeOK, DeleteObject, RemoveObjects, Respond, Goto
  <2>2. HandlersOK'
    BY <1>0, <1>8 DEF HandlersOK, TypeOK, Procs, DeleteObject, RemoveObjects, Respond, Goto
  <2>3. FiledByOwner'
    BY <1>0, <1>8 DEF FiledByOwner, TypeOK, DeleteObject, RemoveObjects, Respond, Goto
  <2>4. ServedOwnTrace'
    BY <1>0, <1>8 DEF ServedOwnTrace, TypeOK, DeleteObject, RemoveObjects, Respond, Goto
  <2> QED
    BY <2>1, <2>2, <2>3, <2>4
<1>9. ASSUME NEW q \in Reqs, LookupForDownload(q) PROVE Good'
  <2>1. OneRowPerRun'
    BY <1>0, <1>9 DEF OneRowPerRun, RowsOf, TypeOK, LookupForDownload, At, Respond, Goto
  <2>2. HandlersOK'
    BY <1>0, <1>k, <1>9 DEF HandlersOK, TypeOK, Procs, RowsOf, LookupForDownload, At, Respond, Goto
  <2>3. FiledByOwner'
    BY <1>0, <1>9 DEF FiledByOwner, TypeOK, LookupForDownload, At, Respond, Goto
  <2>4. ServedOwnTrace'
    BY <1>0, <1>9 DEF ServedOwnTrace, TypeOK, LookupForDownload, At, Respond, Goto
  <2> QED
    BY <2>1, <2>2, <2>3, <2>4
<1>10. ASSUME NEW q \in Reqs, Download(q) PROVE Good'
  <2>1. OneRowPerRun'
    BY <1>0, <1>10 DEF OneRowPerRun, RowsOf, TypeOK, Download, Respond, Goto
  <2>2. HandlersOK'
    BY <1>0, <1>10 DEF HandlersOK, TypeOK, Procs, Download, Respond, Goto
  <2>3. FiledByOwner'
    BY <1>0, <1>10 DEF FiledByOwner, TypeOK, Download, Respond, Goto
  <2>4. ServedOwnTrace'
    <3>1. \A x \in objs : x.key \in keys[q] =>
            x.org = call[q].org /\ RunOf[x.trace] = call[q].run
      BY <1>0 DEF HandlersOK, FiledByOwner
    <3>2. /\ call' = call /\ got \in [Reqs -> SUBSET Objects]
          /\ got' = got \/ got' = [got EXCEPT ![q] = {x \in objs : x.key \in keys[q]}]
      BY <1>0, <1>10 DEF Download, TypeOK
    <3> QED
      BY <1>0, <3>1, <3>2 DEF ServedOwnTrace
  <2> QED
    BY <2>1, <2>2, <2>3, <2>4
<1>11. ASSUME NEW w \in Workers, ReapExpiredRuns(w) PROVE Good'
  <2>1. OneRowPerRun'
    BY <1>0, <1>11 DEF OneRowPerRun, RowsOf, TypeOK, ReapExpiredRuns
  <2>2. HandlersOK'
    BY <1>0, <1>11 DEF HandlersOK, TypeOK, Procs, ReapExpiredRuns
  <2>3. FiledByOwner'
    BY <1>0, <1>11 DEF FiledByOwner, TypeOK, ReapExpiredRuns
  <2>4. ServedOwnTrace'
    BY <1>0, <1>11 DEF ServedOwnTrace, TypeOK, ReapExpiredRuns
  <2> QED
    BY <2>1, <2>2, <2>3, <2>4
<1>12. ASSUME NEW w \in Workers, SweepObject(w) PROVE Good'
  <2>1. OneRowPerRun'
    BY <1>0, <1>12 DEF OneRowPerRun, RowsOf, TypeOK, SweepObject, RemoveObjects
  <2>2. HandlersOK'
    BY <1>0, <1>12 DEF HandlersOK, TypeOK, Procs, SweepObject, RemoveObjects
  <2>3. FiledByOwner'
    BY <1>0, <1>12 DEF FiledByOwner, TypeOK, SweepObject, RemoveObjects
  <2>4. ServedOwnTrace'
    BY <1>0, <1>12 DEF ServedOwnTrace, TypeOK, SweepObject, RemoveObjects
  <2> QED
    BY <2>1, <2>2, <2>3, <2>4
<1>13. ASSUME Tick PROVE Good'
  <2>1. OneRowPerRun'
    BY <1>0, <1>13 DEF OneRowPerRun, RowsOf, TypeOK, Tick
  <2>2. HandlersOK'
    BY <1>0, <1>13 DEF HandlersOK, TypeOK, Procs, Tick
  <2>3. FiledByOwner'
    BY <1>0, <1>13 DEF FiledByOwner, TypeOK, Tick
  <2>4. ServedOwnTrace'
    BY <1>0, <1>13 DEF ServedOwnTrace, TypeOK, Tick
  <2> QED
    BY <2>1, <2>2, <2>3, <2>4
<1>14. ASSUME NEW q \in Reqs, Disconnect(q) PROVE Good'
  <2>1. OneRowPerRun'
    BY <1>0, <1>14 DEF OneRowPerRun, RowsOf, TypeOK, Disconnect
  <2>2. HandlersOK'
    BY <1>0, <1>14 DEF HandlersOK, TypeOK, Procs, Disconnect
  <2>3. FiledByOwner'
    BY <1>0, <1>14 DEF FiledByOwner, TypeOK, Disconnect
  <2>4. ServedOwnTrace'
    BY <1>0, <1>14 DEF ServedOwnTrace, TypeOK, Disconnect
  <2> QED
    BY <2>1, <2>2, <2>3, <2>4
<1>15. ASSUME NEW q \in Reqs, CrashHandler(q) PROVE Good'
  <2>1. OneRowPerRun'
    BY <1>0, <1>15 DEF OneRowPerRun, RowsOf, TypeOK, CrashHandler, Goto
  <2>2. HandlersOK'
    BY <1>0, <1>15 DEF HandlersOK, TypeOK, Procs, CrashHandler, Goto
  <2>3. FiledByOwner'
    BY <1>0, <1>15 DEF FiledByOwner, TypeOK, CrashHandler, Goto
  <2>4. ServedOwnTrace'
    BY <1>0, <1>15 DEF ServedOwnTrace, TypeOK, CrashHandler, Goto
  <2> QED
    BY <2>1, <2>2, <2>3, <2>4
<1>16. ASSUME NEW w \in Workers, CrashSweep(w) PROVE Good'
  <2>1. OneRowPerRun'
    BY <1>0, <1>16 DEF OneRowPerRun, RowsOf, TypeOK, CrashSweep
  <2>2. HandlersOK'
    BY <1>0, <1>16 DEF HandlersOK, TypeOK, Procs, CrashSweep
  <2>3. FiledByOwner'
    BY <1>0, <1>16 DEF FiledByOwner, TypeOK, CrashSweep
  <2>4. ServedOwnTrace'
    BY <1>0, <1>16 DEF ServedOwnTrace, TypeOK, CrashSweep
  <2> QED
    BY <2>1, <2>2, <2>3, <2>4
<1>17. ASSUME UNCHANGED vars PROVE Good'
  BY <1>0, <1>17 DEF vars, OneRowPerRun, HandlersOK, FiledByOwner, ServedOwnTrace
<1> QED
  BY <1>1, <1>2, <1>3, <1>4, <1>5, <1>6, <1>7, <1>8, <1>9, <1>10, <1>11, <1>12, <1>13,
     <1>14, <1>15, <1>16, <1>17 DEF Next, Handler

(* A run no part of whose state changes stays consistent. *)
LEMMA Frame ==
  ASSUME NEW o, NEW r, Consistent(o, r),
         RowsOf(o, r)' = RowsOf(o, r), ObjsOf(o, r)' = ObjsOf(o, r),
         Uploaders(o, r)' = Uploaders(o, r), Deleters(o, r)' = Deleters(o, r),
         call' = call,
         \A p \in Deleters(o, r) : \A x \in ObjsOf(o, r) : x.key \in keys[p] => x.key \in keys'[p]
  PROVE  Consistent(o, r)'
BY DEF Consistent, StorageKey

(* A handler that is, before and after, in no step that owns a row or an   *)
(* object changes the owners of no run.                                    *)
LEMMA SameOwners ==
  ASSUME TypeOK, HandlersOK, NEW q \in Reqs, NEW o, NEW r, NEW label,
         pc' = [pc EXCEPT ![q] = label], call' = call,
         \A p \in Procs \ {q} : keys'[p] = keys[p],
         \/ pc[q] \notin {"put", "rollback", "s3del"} /\ label \notin {"put", "rollback", "s3del"}
         \/ IdOf(q) # <<o, r>> /\ \A k \in keys'[q] : k.org = call[q].org /\ k.run = call[q].run
  PROVE  /\ Uploaders(o, r)' = Uploaders(o, r)
         /\ Deleters(o, r)' = Deleters(o, r)
         /\ q \notin Deleters(o, r)
<1>1. Uploaders(o, r)' = Uploaders(o, r)
  BY DEF Uploaders, IdOf, TypeOK
<1>2. \A p \in Procs \ {q} : p \in Deleters(o, r)' <=> p \in Deleters(o, r)
  BY DEF Deleters, KeyIdsOf, TypeOK, Procs
<1>3. q \notin Deleters(o, r)
  BY DEF Deleters, KeyIdsOf, HandlersOK, IdOf
<1>4. q \notin Deleters(o, r)'
  BY DEF Deleters, KeyIdsOf, IdOf, TypeOK
<1> QED
  BY <1>1, <1>2, <1>3, <1>4 DEF Deleters

(* A step of a handler that touches neither store. *)
LEMMA QuietStep ==
  ASSUME TypeOK, HandlersOK, NEW q \in Reqs, NEW o, NEW r, NEW label, Consistent(o, r),
         pc' = [pc EXCEPT ![q] = label], call' = call, rows' = rows, objs' = objs,
         \A p \in Procs \ {q} : keys'[p] = keys[p],
         pc[q] \notin {"put", "rollback", "s3del"}, label \notin {"put", "rollback", "s3del"}
  PROVE  Consistent(o, r)'
<1>1. /\ Uploaders(o, r)' = Uploaders(o, r) /\ Deleters(o, r)' = Deleters(o, r)
      /\ q \notin Deleters(o, r)
  BY SameOwners
<1>2. RowsOf(o, r)' = RowsOf(o, r) /\ ObjsOf(o, r)' = ObjsOf(o, r)
  BY DEF RowsOf, ObjsOf
<1>3. \A p \in Deleters(o, r) : keys'[p] = keys[p]
  BY <1>1 DEF Deleters
<1> QED
  BY <1>1, <1>2, <1>3, Frame

(* InsertRun: the upload becomes the one owner of a run that had neither   *)
(* row nor owner.                                                          *)
LEMMA InsertClean ==
  ASSUME IndInv, NEW q \in Reqs, InsertRun(q), NEW o \in Orgs, NEW r \in Runs,
         <<o, r>> \notin tainted'
  PROVE  Consistent(o, r)'
<1> USE TraceStoreAssumption
<1>0. TypeOK /\ HandlersOK /\ call' = call /\ objs' = objs /\ keys' = keys /\ keys[q] = {}
  BY DEF IndInv, InsertRun, HandlersOK, At
<1>1. <<o, r>> \notin tainted /\ Consistent(o, r)
  BY DEF InsertRun, TaintIf, IndInv, CleanRunsConsistent
<1>2. pc[q] = "start" /\ call[q].op = "upload" /\ call[q].run = RunOf[call[q].trace]
  BY <1>0 DEF InsertRun, At, HandlersOK
<1>3. CASE rows' = rows /\ \E l \in {"dup", "done"} : pc' = [pc EXCEPT ![q] = l]
  BY <1>0, <1>1, <1>2, <1>3, QuietStep
<1>4. CASE /\ RowsOf(call[q].org, call[q].run) = {}
           /\ rows' = rows \cup {NewRow(q)}
           /\ pc' = [pc EXCEPT ![q] = "put"]
           /\ TaintIf(Busy(IdOf(q)), IdOf(q))
  <2>1. CASE <<o, r>> = IdOf(q)
    <3>1. /\ o = call[q].org /\ r = call[q].run
          /\ Uploaders(o, r) = {} /\ Deleters(o, r) = {}
      BY <1>4, <2>1 DEF TaintIf, Busy, IdOf
    <3>2. RowsOf(o, r) = {} /\ ObjsOf(o, r) = {}
      BY <1>1, <1>4, <3>1 DEF Consistent
    <3>3. Uploaders(o, r)' = {q}
      BY <1>0, <1>4, <2>1, <3>1 DEF Uploaders, IdOf, TypeOK
    <3>4. Deleters(o, r)' = {}
      BY <1>0, <1>4, <3>1 DEF Deleters, KeyIdsOf, TypeOK, Procs
    <3>5. NewRow(q) \in RowsOf(o, r)' /\ NewRow(q).trace = call[q].trace
      BY <1>4, <3>1 DEF RowsOf, NewRow
    <3>6. ObjsOf(o, r)' = {}
      BY <1>0, <3>2 DEF ObjsOf
    <3> QED
      BY <1>0, <3>3, <3>4, <3>5, <3>6 DEF Consistent
  <2>2. CASE <<o, r>> # IdOf(q)
    <3>1. /\ Uploaders(o, r)' = Uploaders(o, r) /\ Deleters(o, r)' = Deleters(o, r)
          /\ q \notin Deleters(o, r)
      BY <1>0, <1>4, <2>2, SameOwners
    <3>2. RowsOf(o, r)' = RowsOf(o, r) /\ ObjsOf(o, r)' = ObjsOf(o, r)
      BY <1>0, <1>4, <2>2 DEF RowsOf, ObjsOf, NewRow, IdOf
    <3> QED
      BY <1>0, <1>1, <3>1, <3>2, Frame
  <2> QED
    BY <2>1, <2>2
<1>5. CASE rows' = rows \cup {NewRow(q)} /\ TaintIf(TRUE, IdOf(q)) /\ pc' = [pc EXCEPT ![q] = "done"]
  <2>1. <<o, r>> # IdOf(q)
    BY <1>5 DEF TaintIf
  <2>2. /\ Uploaders(o, r)' = Uploaders(o, r) /\ Deleters(o, r)' = Deleters(o, r)
        /\ q \notin Deleters(o, r)
    BY <1>0, <1>2, <1>5, <2>1, SameOwners
  <2>3. RowsOf(o, r)' = RowsOf(o, r) /\ ObjsOf(o, r)' = ObjsOf(o, r)
    BY <1>0, <1>5, <2>1 DEF RowsOf, ObjsOf, NewRow, IdOf
  <2> QED
    BY <1>0, <1>1, <2>2, <2>3, Frame
<1> QED
  BY <1>3, <1>4, <1>5 DEF InsertRun, Respond, Goto

(* A step of a handler on another run. *)
LEMMA OtherRun ==
  ASSUME TypeOK, HandlersOK, NEW q \in Reqs, NEW o, NEW r, NEW label, Consistent(o, r),
         IdOf(q) # <<o, r>>, pc' = [pc EXCEPT ![q] = label], call' = call,
         RowsOf(o, r)' = RowsOf(o, r), ObjsOf(o, r)' = ObjsOf(o, r),
         \A p \in Procs \ {q} : keys'[p] = keys[p],
         \A k \in keys'[q] : k.org = call[q].org /\ k.run = call[q].run
  PROVE  Consistent(o, r)'
<1>1. /\ Uploaders(o, r)' = Uploaders(o, r) /\ Deleters(o, r)' = Deleters(o, r)
      /\ q \notin Deleters(o, r)
  BY SameOwners
<1>2. \A p \in Deleters(o, r) : keys'[p] = keys[p]
  BY <1>1 DEF Deleters
<1> QED
  BY <1>1, <1>2, Frame

(* The state of a run owned by an upload. *)
LEMMA OwnedByUpload ==
  ASSUME TypeOK, HandlersOK, NEW q \in Reqs, NEW o, NEW r, Consistent(o, r),
         pc[q] \in {"put", "rollback"}, IdOf(q) = <<o, r>>
  PROVE  /\ o = call[q].org /\ r = call[q].run
         /\ keys[q] = {}
         /\ call[q].op = "upload" /\ call[q].trace \in Traces
         /\ call[q].run = RunOf[call[q].trace]
         /\ Uploaders(o, r) = {q} /\ Deleters(o, r) = {}
         /\ \E x \in RowsOf(o, r) : x.trace = call[q].trace
         /\ ObjsOf(o, r) = {}
<1>1. q \in Uploaders(o, r)
  BY DEF Uploaders
<1>2. keys[q] = {} /\ q \notin Deleters(o, r)
  BY DEF HandlersOK, Deleters
<1>3. o = call[q].org /\ r = call[q].run
  BY DEF IdOf
<1>4. call[q].op = "upload" /\ call[q].trace \in Traces /\ call[q].run = RunOf[call[q].trace]
  BY CallType DEF HandlersOK
<1> QED
  BY <1>1, <1>2, <1>3, <1>4 DEF Consistent

(* UploadBytes: the owner stores its object and lets go of the run, or     *)
(* keeps it for the rollback.                                              *)
LEMMA UploadClean ==
  ASSUME IndInv, NEW q \in Reqs, UploadBytes(q), NEW o \in Orgs, NEW r \in Runs,
         <<o, r>> \notin tainted'
  PROVE  Consistent(o, r)'
<1> USE TraceStoreAssumption
<1>0. /\ TypeOK /\ HandlersOK /\ call' = call /\ rows' = rows /\ keys' = keys
      /\ pc[q] = "put" /\ keys[q] = {} /\ RowsOf(o, r)' = RowsOf(o, r)
  BY DEF IndInv, UploadBytes, HandlersOK, RowsOf
<1>1. <<o, r>> \notin tainted /\ Consistent(o, r)
  BY DEF UploadBytes, TaintIf, IndInv, CleanRunsConsistent
<1>2. Stored(q).key.org = call[q].org /\ Stored(q).key.run = call[q].run
  BY <1>0, CallType DEF Stored, StorageKey, HandlersOK
<1>3. CASE PutObject(q) /\ (\E l \in {"touch", "rollback"} : pc' = [pc EXCEPT ![q] = l])
           /\ <<o, r>> # IdOf(q)
  <2>1. ObjsOf(o, r)' = ObjsOf(o, r)
    BY <1>2, <1>3 DEF ObjsOf, PutObject, IdOf
  <2> QED
    BY <1>0, <1>1, <1>3, <2>1, OtherRun
<1>4. CASE PutObject(q) /\ pc' = [pc EXCEPT ![q] = "touch"] /\ <<o, r>> = IdOf(q)
  <2>1. /\ o = call[q].org /\ r = call[q].run
        /\ Uploaders(o, r) = {q} /\ Deleters(o, r) = {}
        /\ \E x \in RowsOf(o, r) : x.trace = call[q].trace
        /\ ObjsOf(o, r) = {}
    BY <1>0, <1>1, <1>4, OwnedByUpload
  <2>2. ObjsOf(o, r)' = {Stored(q)}
    BY <1>2, <1>4, <2>1 DEF ObjsOf, PutObject
  <2>3. Uploaders(o, r)' = {}
    BY <1>0, <1>4, <2>1 DEF Uploaders, IdOf, TypeOK
  <2>4. Deleters(o, r)' = {}
    BY <1>0, <1>4, <2>1 DEF Deleters, KeyIdsOf, TypeOK, Procs
  <2>5. Stored(q) = [key |-> StorageKey(o, call[q].trace), org |-> o, trace |-> call[q].trace]
    BY <2>1 DEF Stored
  <2> HIDE DEF Stored
  <2>6. \E x \in RowsOf(o, r)' :
          ObjsOf(o, r)' = {[key |-> StorageKey(o, x.trace), org |-> o, trace |-> x.trace]}
    BY <1>0, <2>1, <2>2, <2>5
  <2> QED
    BY <2>3, <2>4, <2>6 DEF Consistent, StorageKey
<1>5. CASE objs' = objs /\ pc' = [pc EXCEPT ![q] = "rollback"]
  <2>1. Uploaders(o, r)' = Uploaders(o, r) /\ Deleters(o, r)' = Deleters(o, r)
    BY <1>0, <1>5 DEF Uploaders, Deleters, KeyIdsOf, IdOf, TypeOK
  <2>2. ObjsOf(o, r)' = ObjsOf(o, r)
    BY <1>5 DEF ObjsOf
  <2> QED
    BY <1>0, <1>1, <2>1, <2>2, Frame
<1> QED
  BY <1>3, <1>4, <1>5 DEF UploadBytes, TaintIf, Goto

(* RollBackInsert: the owner of a run without object removes its row. *)
LEMMA RollbackClean ==
  ASSUME IndInv, NEW q \in Reqs, RollBackInsert(q), NEW o \in Orgs, NEW r \in Runs,
         <<o, r>> \notin tainted'
  PROVE  Consistent(o, r)'
<1>0. /\ TypeOK /\ HandlersOK /\ call' = call /\ objs' = objs /\ keys' = keys
      /\ pc[q] = "rollback" /\ keys[q] = {} /\ ObjsOf(o, r)' = ObjsOf(o, r)
      /\ pc' = [pc EXCEPT ![q] = "done"]
  BY DEF IndInv, RollBackInsert, HandlersOK, ObjsOf, Respond, Goto
<1>1. <<o, r>> \notin tainted /\ Consistent(o, r)
  BY DEF RollBackInsert, TaintIf, IndInv, CleanRunsConsistent
<1>2. CASE <<o, r>> # IdOf(q)
  <2>1. RowsOf(o, r)' = RowsOf(o, r)
    BY <1>2 DEF RollBackInsert, RowsOf, IdOf
  <2> QED
    BY <1>0, <1>1, <1>2, <2>1, OtherRun
<1>3. CASE <<o, r>> = IdOf(q)
  <2>1. /\ o = call[q].org /\ r = call[q].run
        /\ Uploaders(o, r) = {q} /\ Deleters(o, r) = {} /\ ObjsOf(o, r) = {}
    BY <1>0, <1>1, <1>3, OwnedByUpload
  <2>2. RowsOf(o, r)' = {}
    BY <1>3, <2>1 DEF RollBackInsert, RowsOf, TaintIf
  <2>3. Uploaders(o, r)' = {} /\ Deleters(o, r)' = {}
    BY <1>0, <2>1 DEF Uploaders, Deleters, KeyIdsOf, IdOf, TypeOK
  <2> QED
    BY <1>0, <2>1, <2>2, <2>3 DEF Consistent
<1> QED
  BY <1>2, <1>3

(* DeleteRun: the delete takes a run at rest, with its row. *)
LEMMA DeleteRunClean ==
  ASSUME IndInv, NEW q \in Reqs, DeleteRun(q), NEW o \in Orgs, NEW r \in Runs,
         <<o, r>> \notin tainted'
  PROVE  Consistent(o, r)'
<1> USE TraceStoreAssumption
<1> DEFINE gone == RowsOf(call[q].org, call[q].run)
           ks == {StorageKey(x.org, x.trace) : x \in gone}
<1>0. /\ TypeOK /\ HandlersOK /\ call' = call /\ objs' = objs
      /\ pc[q] = "start" /\ keys[q] = {} /\ ObjsOf(o, r)' = ObjsOf(o, r)
  BY DEF IndInv, DeleteRun, At, HandlersOK, ObjsOf
<1>1. <<o, r>> \notin tainted /\ Consistent(o, r)
  BY DEF DeleteRun, TaintIf, IndInv, CleanRunsConsistent
<1>2. \A k \in ks : k.org = call[q].org /\ k.run = call[q].run
  BY StorageKeyType DEF RowsOf, IndInv, TypeOK, Rows, FiledByOwner
<1>3. CASE rows' = rows /\ keys' = keys /\ pc' = [pc EXCEPT ![q] = "done"]
  BY <1>0, <1>1, <1>3, QuietStep
<1>4. CASE /\ rows' = rows \ gone /\ <<o, r>> # IdOf(q)
           /\ \/ keys' = keys /\ pc' = [pc EXCEPT ![q] = "done"]
              \/ keys' = [keys EXCEPT ![q] = ks] /\ pc' = [pc EXCEPT ![q] = "s3del"]
  <2>1. RowsOf(o, r)' = RowsOf(o, r)
    BY <1>4 DEF RowsOf, IdOf
  <2>2. /\ \A p \in Procs \ {q} : keys'[p] = keys[p]
        /\ \A k \in keys'[q] : k.org = call[q].org /\ k.run = call[q].run
    BY <1>0, <1>2, <1>4 DEF TypeOK, Procs
  <2> QED
    BY <1>0, <1>1, <1>4, <2>1, <2>2, OtherRun
<1>5. CASE /\ rows' = rows \ gone /\ gone # {} /\ <<o, r>> = IdOf(q)
           /\ keys' = [keys EXCEPT ![q] = ks] /\ pc' = [pc EXCEPT ![q] = "s3del"]
           /\ TaintIf(Busy(IdOf(q)), IdOf(q))
  <2>1. /\ o = call[q].org /\ r = call[q].run
        /\ Uploaders(o, r) = {} /\ Deleters(o, r) = {}
    BY <1>5 DEF TaintIf, Busy, IdOf
  <2>2. RowsOf(o, r)' = {}
    BY <1>5, <2>1 DEF RowsOf
  <2>3. \A x \in ObjsOf(o, r) : x.key \in ks
    BY <1>1, <1>5, <2>1 DEF Consistent, RowsOf
  <2>4. Uploaders(o, r)' = {}
    BY <1>0, <1>5, <2>1 DEF Uploaders, IdOf, TypeOK
  <2>5. Deleters(o, r)' \subseteq {q}
    BY <1>0, <1>5, <2>1 DEF Deleters, KeyIdsOf, TypeOK, Procs
  <2>6. q \in Deleters(o, r)'
    <3>1. keys'[q] = ks /\ pc'[q] = "s3del"
      BY <1>0, <1>5 DEF TypeOK, Procs
    <3>2. \E k \in ks : k.org = o /\ k.run = r
      BY <1>2, <1>5, <2>1
    <3> HIDE DEF ks
    <3> QED
      BY <3>1, <3>2 DEF Deleters, KeyIdsOf, Procs
  <2>7. keys'[q] = ks
    BY <1>0, <1>5 DEF TypeOK, Procs
  <2> HIDE DEF ks
  <2> QED
    BY <1>0, <2>2, <2>3, <2>4, <2>5, <2>6, <2>7 DEF Consistent
<1> QED
  BY <1>3, <1>4, <1>5 DEF DeleteRun, Respond, Goto, TaintIf

(* DeleteObject: the owner of a run without row removes its object. *)
LEMMA DeleteObjectClean ==
  ASSUME IndInv, NEW q \in Reqs, DeleteObject(q), NEW o \in Orgs, NEW r \in Runs,
         <<o, r>> \notin tainted'
  PROVE  Consistent(o, r)'
<1>0. /\ TypeOK /\ HandlersOK /\ call' = call /\ rows' = rows
      /\ pc[q] = "s3del" /\ keys[q] # {} /\ RowsOf(o, r)' = RowsOf(o, r)
      /\ pc' = [pc EXCEPT ![q] = "done"]
      /\ keys' = [keys EXCEPT ![q] = {}]
  BY DEF IndInv, DeleteObject, HandlersOK, RowsOf, Respond, Goto
<1>1. <<o, r>> \notin tainted /\ Consistent(o, r)
  BY DEF DeleteObject, TaintIf, IndInv, CleanRunsConsistent
<1>2. \A k \in keys[q] : k.org = call[q].org /\ k.run = call[q].run
  BY <1>0 DEF HandlersOK
<1>3. /\ \A p \in Procs \ {q} : keys'[p] = keys[p]
      /\ keys'[q] = {}
  BY <1>0 DEF TypeOK, Procs
<1>4. CASE <<o, r>> # IdOf(q)
  <2>1. ObjsOf(o, r)' = ObjsOf(o, r)
    BY <1>2, <1>4 DEF DeleteObject, RemoveObjects, ObjsOf, IdOf
  <2> QED
    BY <1>0, <1>1, <1>3, <1>4, <2>1, OtherRun
<1>5. CASE <<o, r>> = IdOf(q)
  <2>1. o = call[q].org /\ r = call[q].run
    BY <1>5 DEF IdOf
  <2>2. q \in Deleters(o, r)
    BY <1>0, <1>2, <2>1 DEF Deleters, KeyIdsOf, Procs
  <2>3. /\ Uploaders(o, r) \subseteq {q} /\ Deleters(o, r) = {q} /\ RowsOf(o, r) = {}
        /\ \A x \in ObjsOf(o, r) : x.key \in keys[q]
    BY <1>1, <2>2 DEF Consistent
  <2>4. ObjsOf(o, r)' = {}
    BY <1>5, <2>3 DEF DeleteObject, RemoveObjects, ObjsOf, TaintIf
  <2>5. Uploaders(o, r)' = {}
    BY <1>0, <2>3 DEF Uploaders, IdOf, TypeOK
  <2>6. Deleters(o, r)' = {}
    BY <1>0, <1>3, <2>3 DEF Deleters, KeyIdsOf, TypeOK
  <2> QED
    BY <1>0, <2>3, <2>4, <2>5, <2>6 DEF Consistent
<1> QED
  BY <1>4, <1>5

(* ReapExpiredRuns: the sweep takes runs at rest, with all their rows. *)
LEMMA ReapClean ==
  ASSUME IndInv, NEW w \in Workers, ReapExpiredRuns(w), NEW o \in Orgs, NEW r \in Runs,
         <<o, r>> \notin tainted'
  PROVE  Consistent(o, r)'
<1> USE TraceStoreAssumption
<1>0. /\ TypeOK /\ HandlersOK /\ call' = call /\ objs' = objs /\ pc' = pc
      /\ keys[w] = {} /\ ObjsOf(o, r)' = ObjsOf(o, r) /\ Uploaders(o, r)' = Uploaders(o, r)
      /\ w \notin Reqs /\ w \in Procs
  BY DEF IndInv, ReapExpiredRuns, ObjsOf, Uploaders, IdOf, Procs
<1>1. PICK S \in Candidates :
        /\ rows' = rows \ Reaped(S)
        /\ \/ /\ keys' = [keys EXCEPT ![w] = {StorageKey(x.org, x.trace) : x \in Reaped(S)}]
              /\ tainted' = tainted \cup {id \in ReapIds(Reaped(S)) : Busy(id)}
           \/ keys' = keys /\ tainted' = tainted \cup ReapIds(Reaped(S))
  BY DEF ReapExpiredRuns
<1> DEFINE gone == Reaped(S)
           ks == {StorageKey(x.org, x.trace) : x \in gone}
<1>2. <<o, r>> \notin tainted /\ Consistent(o, r)
  BY <1>1 DEF IndInv, CleanRunsConsistent
<1>3. \A x \in gone : /\ x \in rows
                      /\ StorageKey(x.org, x.trace).org = x.org
                      /\ StorageKey(x.org, x.trace).run = x.run
  BY StorageKeyType DEF Reaped, IndInv, TypeOK, Rows, FiledByOwner
<1>4. \A p \in Procs \ {w} : keys'[p] = keys[p]
  BY <1>0, <1>1 DEF TypeOK
<1>5. \A p \in Procs \ {w} : p \in Deleters(o, r)' <=> p \in Deleters(o, r)
  BY <1>0, <1>4 DEF Deleters, KeyIdsOf
<1>6. CASE <<o, r>> \in ReapIds(gone)
  <2>1. /\ keys' = [keys EXCEPT ![w] = ks]
        /\ Uploaders(o, r) = {} /\ Deleters(o, r) = {}
    BY <1>1, <1>6 DEF Busy
  <2>2. PICK y \in gone : y.org = o /\ y.run = r
    BY <1>6 DEF ReapIds
  <2>3. RowsOf(o, r) \subseteq gone /\ RowsOf(o, r)' = {}
    BY <1>1, <2>2 DEF Reaped, RowsOf
  <2>4. keys'[w] = ks
    BY <1>0, <2>1 DEF TypeOK
  <2>5. StorageKey(y.org, y.trace) \in ks /\ \A x \in ObjsOf(o, r) : x.key \in ks
    BY <1>2, <2>1, <2>2, <2>3 DEF Consistent, RowsOf
  <2>6. Deleters(o, r)' = {w}
    <3>1. \E k \in keys'[w] : k.org = o /\ k.run = r
      BY <1>3, <2>2, <2>4, <2>5
    <3>2. w \in Deleters(o, r)'
      BY <1>0, <3>1 DEF Deleters, KeyIdsOf
    <3> QED
      BY <1>5, <2>1, <3>2 DEF Deleters
  <2> HIDE DEF ks, gone
  <2> QED
    BY <1>0, <2>1, <2>3, <2>4, <2>5, <2>6 DEF Consistent
<1>7. CASE <<o, r>> \notin ReapIds(gone)
  <2>1. RowsOf(o, r)' = RowsOf(o, r)
    BY <1>1, <1>7 DEF RowsOf, ReapIds
  <2>2. w \notin Deleters(o, r)
    BY <1>0 DEF Deleters, KeyIdsOf
  <2>3. w \notin Deleters(o, r)'
    <3>1. \A k \in ks : <<k.org, k.run>> \in ReapIds(gone)
      BY <1>3 DEF ReapIds
    <3>2. keys'[w] \subseteq ks
      BY <1>0, <1>1 DEF TypeOK
    <3> QED
      BY <1>7, <3>1, <3>2 DEF Deleters, KeyIdsOf
  <2>4. Deleters(o, r)' = Deleters(o, r)
    BY <1>5, <2>2, <2>3 DEF Deleters
  <2>5. \A p \in Deleters(o, r) : keys'[p] = keys[p]
    BY <1>4, <2>2 DEF Deleters
  <2> QED
    BY <1>0, <1>2, <2>1, <2>4, <2>5, Frame
<1> QED
  BY <1>6, <1>7

(* SweepObject: the sweep removes one of the objects it owns. *)
LEMMA SweepClean ==
  ASSUME IndInv, NEW w \in Workers, SweepObject(w), NEW o \in Orgs, NEW r \in Runs,
         <<o, r>> \notin tainted'
  PROVE  Consistent(o, r)'
<1> USE TraceStoreAssumption
<1>0. /\ TypeOK /\ HandlersOK /\ call' = call /\ rows' = rows /\ pc' = pc
      /\ RowsOf(o, r)' = RowsOf(o, r) /\ Uploaders(o, r)' = Uploaders(o, r)
      /\ w \notin Reqs /\ w \in Procs
  BY DEF IndInv, SweepObject, RowsOf, Uploaders, IdOf, Procs
<1>1. PICK k \in keys[w] :
        /\ keys' = [keys EXCEPT ![w] = @ \ {k}]
        /\ \/ RemoveObjects({k}) /\ tainted' = tainted
           \/ objs' = objs /\ tainted' = tainted \cup {<<k.org, k.run>>}
  BY DEF SweepObject, TaintIf
<1>2. <<o, r>> \notin tainted /\ Consistent(o, r)
  BY <1>1 DEF IndInv, CleanRunsConsistent
<1>3. keys'[w] = keys[w] \ {k} /\ \A p \in Procs \ {w} : keys'[p] = keys[p]
  BY <1>0, <1>1 DEF TypeOK
<1>4. \A p \in Procs \ {w} : p \in Deleters(o, r)' <=> p \in Deleters(o, r)
  BY <1>0, <1>3 DEF Deleters, KeyIdsOf
<1>5. CASE k.org = o /\ k.run = r
  <2>1. w \in Deleters(o, r)
    BY <1>0, <1>1, <1>5 DEF Deleters, KeyIdsOf
  <2>2. /\ Uploaders(o, r) = {} /\ Deleters(o, r) = {w} /\ RowsOf(o, r) = {}
        /\ \A x \in ObjsOf(o, r) : x.key \in keys[w]
    BY <1>0, <1>2, <2>1 DEF Consistent, Uploaders
  <2>3. \A x \in ObjsOf(o, r)' : x.key \in keys'[w] /\ x.key.org = o /\ x.key.run = r
    BY <1>1, <1>3, <1>5, <2>2 DEF RemoveObjects, ObjsOf
  <2>4. Deleters(o, r)' \subseteq {w}
    BY <1>4, <2>2 DEF Deleters
  <2>5. ObjsOf(o, r)' # {} => w \in Deleters(o, r)'
    BY <1>0, <2>3 DEF Deleters, KeyIdsOf
  <2> QED
    BY <1>0, <2>2, <2>3, <2>4, <2>5 DEF Consistent
<1>6. CASE ~(k.org = o /\ k.run = r)
  <2>1. ObjsOf(o, r)' = ObjsOf(o, r) /\ \A x \in ObjsOf(o, r) : x.key # k
    BY <1>1, <1>6 DEF RemoveObjects, ObjsOf
  <2>2. w \in Deleters(o, r)' <=> w \in Deleters(o, r)
    BY <1>0, <1>3, <1>6 DEF Deleters, KeyIdsOf
  <2>3. Deleters(o, r)' = Deleters(o, r)
    BY <1>4, <2>2 DEF Deleters
  <2>4. \A p \in Deleters(o, r) : \A x \in ObjsOf(o, r) : x.key \in keys[p] => x.key \in keys'[p]
    BY <1>3, <2>1 DEF Deleters
  <2> QED
    BY <1>0, <1>2, <2>1, <2>3, <2>4, Frame
<1> QED
  BY <1>5, <1>6

(* CrashHandler and CrashSweep: what they interrupt is tainted. *)
LEMMA CrashClean ==
  ASSUME IndInv, NEW o \in Orgs, NEW r \in Runs, <<o, r>> \notin tainted',
         (\E q \in Reqs : CrashHandler(q)) \/ (\E w \in Workers : CrashSweep(w))
  PROVE  Consistent(o, r)'
<1> USE TraceStoreAssumption
<1>0. TypeOK /\ HandlersOK
  BY DEF IndInv
<1>1. /\ <<o, r>> \notin tainted /\ Consistent(o, r) /\ call' = call /\ rows' = rows /\ objs' = objs
      /\ RowsOf(o, r)' = RowsOf(o, r) /\ ObjsOf(o, r)' = ObjsOf(o, r)
  BY DEF CrashHandler, CrashSweep, TaintIf, IndInv, CleanRunsConsistent, RowsOf, ObjsOf
<1>2. ASSUME NEW q \in Reqs, CrashHandler(q) PROVE Consistent(o, r)'
  <2>1. pc' = [pc EXCEPT ![q] = "done"] /\ keys' = [keys EXCEPT ![q] = {}]
    BY <1>2 DEF CrashHandler, Goto
  <2>2. keys'[q] = {} /\ \A p \in Procs \ {q} : keys'[p] = keys[p]
    BY <1>0, <2>1 DEF TypeOK, Procs
  <2>3. CASE IdOf(q) # <<o, r>>
    BY <1>0, <1>1, <2>1, <2>2, <2>3, OtherRun
  <2>4. CASE IdOf(q) = <<o, r>>
    <3>1. pc[q] \notin {"put", "rollback", "s3del"}
      BY <1>2, <2>4 DEF CrashHandler, TaintIf
    <3> QED
      BY <1>0, <1>1, <2>1, <2>2, <3>1, QuietStep
  <2> QED
    BY <2>3, <2>4
<1>3. ASSUME NEW w \in Workers, CrashSweep(w) PROVE Consistent(o, r)'
  <2>1. /\ keys' = [keys EXCEPT ![w] = {}] /\ pc' = pc
        /\ tainted' = tainted \cup {<<k.org, k.run>> : k \in keys[w]}
    BY <1>3 DEF CrashSweep
  <2>2. keys'[w] = {} /\ \A p \in Procs \ {w} : keys'[p] = keys[p]
    BY <1>0, <2>1 DEF TypeOK, Procs
  <2>3. w \notin Deleters(o, r) /\ w \notin Deleters(o, r)'
    BY <2>1, <2>2 DEF Deleters, KeyIdsOf
  <2>4. Deleters(o, r)' = Deleters(o, r)
    BY <2>1, <2>2, <2>3 DEF Deleters, KeyIdsOf
  <2>5. Uploaders(o, r)' = Uploaders(o, r)
    BY <1>1, <2>1 DEF Uploaders, IdOf
  <2>6. \A p \in Deleters(o, r) : keys'[p] = keys[p]
    BY <2>2, <2>3 DEF Deleters
  <2> QED
    BY <1>1, <2>4, <2>5, <2>6, Frame
<1> QED
  BY <1>2, <1>3

(* Every step keeps clean runs consistent. *)
LEMMA CleanStep == IndInv /\ [Next]_vars => CleanRunsConsistent'
<1> SUFFICES ASSUME IndInv, [Next]_vars, NEW o \in Orgs, NEW r \in Runs, <<o, r>> \notin tainted'
             PROVE  Consistent(o, r)'
  BY DEF CleanRunsConsistent, Next, Tick, vars
<1>0. TypeOK /\ HandlersOK
  BY DEF IndInv
<1>1. ASSUME NEW q \in Reqs, UploadRefused(q) \/ AnswerDuplicate(q) \/ FinishUpload(q)
                             \/ LookupForDownload(q) \/ Download(q)
      PROVE  Consistent(o, r)'
  <2>1. Consistent(o, r) /\ call' = call /\ rows' = rows /\ objs' = objs
    BY <1>1 DEF UploadRefused, AnswerDuplicate, FinishUpload, LookupForDownload, Download,
                IndInv, CleanRunsConsistent
  <2>2. \A p \in Procs \ {q} : keys'[p] = keys[p]
    BY <1>0, <1>1 DEF UploadRefused, AnswerDuplicate, FinishUpload, LookupForDownload, Download,
                      TypeOK, Procs
  <2>3. /\ pc[q] \notin {"put", "rollback", "s3del"}
        /\ \E l \in {"download", "done"} : pc' = [pc EXCEPT ![q] = l]
    BY <1>1 DEF UploadRefused, AnswerDuplicate, FinishUpload, LookupForDownload, Download,
                At, Respond, Goto
  <2> QED
    BY <1>0, <2>1, <2>2, <2>3, QuietStep
<1>2. ASSUME \/ Tick \/ UNCHANGED vars \/ \E q \in Reqs : Disconnect(q)
      PROVE  Consistent(o, r)'
  <2>1. /\ Consistent(o, r) /\ call' = call /\ rows' = rows /\ objs' = objs
        /\ pc' = pc /\ keys' = keys
    BY <1>2 DEF Tick, vars, Disconnect, IndInv, CleanRunsConsistent
  <2>2. /\ RowsOf(o, r)' = RowsOf(o, r) /\ ObjsOf(o, r)' = ObjsOf(o, r)
        /\ Uploaders(o, r)' = Uploaders(o, r) /\ Deleters(o, r)' = Deleters(o, r)
    BY <2>1 DEF RowsOf, ObjsOf, Uploaders, Deleters, KeyIdsOf, IdOf
  <2> QED
    BY <2>1, <2>2, Frame
<1> QED
  BY <1>1, <1>2, InsertClean, UploadClean, RollbackClean, DeleteRunClean, DeleteObjectClean,
     ReapClean, SweepClean, CrashClean DEF Next, Handler

(* The invariant is inductive. *)
LEMMA Invariance == Spec => []IndInv
<1>1. IndInv /\ [Next]_vars => IndInv'
  BY TypeStep, StructureStep, CleanStep DEF IndInv
<1> QED
  BY <1>1, InitInv, PTL DEF Spec

(* Type correctness of the upload, delete and download handlers and of the *)
(* retention sweep.                                                        *)
THEOREM TypeCorrect == Spec => []TypeOK
BY Invariance, PTL DEF IndInv

(* Index and bucket agree on every run on which no operations overlapped   *)
(* and no failure of handleUploadTrace, handleDeleteTrace or sweep was     *)
(* left unrepaired.                                                        *)
THEOREM CleanConsistency == Spec => []CleanRunsConsistent
BY Invariance, PTL DEF IndInv

(* handleGetTraceEvents serves an org only what it uploaded for that run,  *)
(* whatever overlaps, fails or crashes.                                    *)
THEOREM TenantIsolation == Spec => []ServedOwnTrace
BY Invariance, PTL DEF IndInv

(* Rows leave the table or stay as they were: InsertRun is the only writer *)
(* and never finds a row of the same run.                                  *)
LEMMA RowStep ==
  ASSUME IndInv, [Next]_vars, NEW x \in rows, NEW y \in rows', x.org = y.org, x.run = y.run
  PROVE  x = y
<1>0. OneRowPerRun
  BY DEF IndInv
<1>1. \/ rows' \subseteq rows
      \/ \E q \in Reqs : RowsOf(call[q].org, call[q].run) = {} /\ rows' = rows \cup {NewRow(q)}
  BY DEF Next, Handler, UploadRefused, InsertRun, AnswerDuplicate, UploadBytes, RollBackInsert,
         FinishUpload, DeleteRun, DeleteObject, LookupForDownload, Download, ReapExpiredRuns,
         SweepObject, Tick, Disconnect, CrashHandler, CrashSweep, vars
<1>2. CASE rows' \subseteq rows
  BY <1>0, <1>2 DEF OneRowPerRun
<1>3. ASSUME NEW q \in Reqs, RowsOf(call[q].org, call[q].run) = {}, rows' = rows \cup {NewRow(q)}
      PROVE  x = y
  <2>1. y # NewRow(q)
    BY <1>3 DEF RowsOf, NewRow
  <2> QED
    BY <1>0, <1>3, <2>1 DEF OneRowPerRun
<1> QED
  BY <1>1, <1>2, <1>3

(* UploadBytes is the only writer of objects and, on a clean run, finds    *)
(* none.                                                                   *)
LEMMA ObjectStep ==
  ASSUME IndInv, [Next]_vars, NEW x \in objs, NEW y \in objs', x.key = y.key,
         <<x.key.org, x.key.run>> \notin tainted'
  PROVE  x = y
<1>0. TypeOK /\ HandlersOK /\ CleanRunsConsistent
  BY DEF IndInv
<1>1. objs' \subseteq objs \/ \E q \in Reqs : UploadBytes(q) /\ PutObject(q)
  BY DEF Next, Handler, UploadRefused, InsertRun, AnswerDuplicate, UploadBytes, RollBackInsert,
         FinishUpload, DeleteRun, DeleteObject, LookupForDownload, Download, ReapExpiredRuns,
         SweepObject, RemoveObjects, Tick, Disconnect, CrashHandler, CrashSweep, vars
<1>2. ASSUME NEW q \in Reqs, UploadBytes(q), PutObject(q) PROVE y \in objs
  <2>1. pc[q] = "put" /\ tainted \subseteq tainted'
    BY <1>2 DEF UploadBytes, TaintIf
  <2>2. x.key.org \in Orgs /\ x.key.run \in Runs
    BY <1>0 DEF TypeOK, Objects, Keys
  <2>3. y # Stored(q)
    <3>1. SUFFICES ASSUME y = Stored(q) PROVE FALSE
      OBVIOUS
    <3>2. IdOf(q) = <<x.key.org, x.key.run>>
      BY <1>0, <2>1, <3>1, CallType DEF Stored, StorageKey, IdOf, HandlersOK
    <3>3. Consistent(x.key.org, x.key.run)
      BY <1>0, <2>1, <2>2 DEF CleanRunsConsistent
    <3>4. ObjsOf(x.key.org, x.key.run) = {}
      BY <1>0, <2>1, <3>2, <3>3, OwnedByUpload
    <3> QED
      BY <3>4 DEF ObjsOf
  <2> QED
    BY <1>2, <2>3 DEF PutObject
<1> QED
  BY <1>1, <1>2 DEF IndInv, FiledByOwner

(* A re-upload of a run changes neither its row nor its stored trace. *)
THEOREM UploadIsWriteOnce == Spec => WriteOnce
<1>1. IndInv /\ [Next]_vars =>
        [/\ \A x \in rows, y \in rows' : x.org = y.org /\ x.run = y.run => x = y
         /\ \A x \in objs, y \in objs' :
              x.key = y.key /\ <<x.key.org, x.key.run>> \notin tainted' => x = y]_vars
  BY RowStep, ObjectStep
<1> QED
  BY <1>1, Invariance, PTL DEF Spec, WriteOnce
=============================================================================
