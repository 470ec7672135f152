------------------------- MODULE TraceParser_proofs -------------------------
(***************************************************************************)
(* Theorems about TraceParser, for any runs, bodies, limits, faults and    *)
(* configurations.                                                         *)
(***************************************************************************)
EXTENDS TraceParser, FiniteSetTheorems, SequenceTheorems, TLAPS

USE TraceParserAssumption

(***************************************************************************)
(* Counting lines.                                                         *)
(***************************************************************************)
LEMMA PrefixSplit ==
  ASSUME NEW p \in Nat
  PROVE  1..(p + 1) = 1..p \cup {p + 1} /\ p + 1 \notin 1..p
OBVIOUS

LEMMA FinitePart ==
  ASSUME NEW p \in Nat, NEW S \in SUBSET (1..p)
  PROVE  IsFiniteSet(S) /\ Cardinality(S) \in Nat
<1>1. IsFiniteSet(1..p)
  BY FS_Interval
<1>2. IsFiniteSet(S)
  BY <1>1, FS_Subset
<1>3. QED
  BY <1>2, FS_CardinalityType

LEMMA OneMore ==
  ASSUME NEW p \in Nat, NEW S \in SUBSET (1..p)
  PROVE  Cardinality(S \cup {p + 1}) = Cardinality(S) + 1
<1>1. p + 1 \notin S
  OBVIOUS
<1>2. QED
  BY <1>1, FinitePart, FS_AddElement

LEMMA SolidStep ==
  ASSUME NEW p \in Nat
  PROVE  /\ Solid(p) \in Nat /\ Solid(0) = 0
         /\ Solid(p + 1) = IF file[p + 1].form = "blank" THEN Solid(p) ELSE Solid(p) + 1
<1> DEFINE S == {j \in 1..p : file[j].form # "blank"}
           T == {j \in 1..(p + 1) : file[j].form # "blank"}
<1>1. S \in SUBSET (1..p) /\ Solid(p) = Cardinality(S) /\ Solid(p + 1) = Cardinality(T)
  BY DEF Solid
<1>2. Solid(0) = 0
  <2>1. {j \in 1..0 : file[j].form # "blank"} = {}
    OBVIOUS
  <2>2. QED
    BY <2>1, FS_EmptySet DEF Solid
<1>3. T = IF file[p + 1].form = "blank" THEN S ELSE S \cup {p + 1}
  BY PrefixSplit
<1> HIDE DEF S, T
<1>4. Cardinality(S) \in Nat /\ Cardinality(S \cup {p + 1}) = Cardinality(S) + 1
  BY <1>1, FinitePart, OneMore
<1>5. QED
  BY <1>1, <1>2, <1>3, <1>4

LEMMA SolidMonotonic ==
  ASSUME NEW p \in Nat, NEW q \in Nat, p <= q
  PROVE  Solid(p) <= Solid(q) /\ Solid(p) <= p
<1> DEFINE S == {j \in 1..p : file[j].form # "blank"}
           T == {j \in 1..q : file[j].form # "blank"}
<1>1. S \subseteq T /\ S \subseteq 1..p /\ T \in SUBSET (1..q)
  OBVIOUS
<1>2. Solid(p) = Cardinality(S) /\ Solid(q) = Cardinality(T)
  BY DEF Solid
<1> HIDE DEF S, T
<1>3. Cardinality(S) <= Cardinality(T)
  BY <1>1, FinitePart, FS_Subset
<1>4. IsFiniteSet(1..p) /\ Cardinality(1..p) = p
  BY FS_Interval
<1>5. Cardinality(S) <= p
  BY <1>1, <1>4, FS_Subset
<1>6. QED
  BY <1>2, <1>3, <1>5

(* A line that is not blank is counted by itself. *)
LEMMA SolidGrows ==
  ASSUME NEW p \in Nat, NEW q \in Nat, p < q, file[q].form # "blank"
  PROVE  Solid(p) + 1 <= Solid(q) /\ Solid(q) = Solid(q - 1) + 1
<1>1. q - 1 \in Nat /\ p <= q - 1 /\ (q - 1) + 1 = q
  OBVIOUS
<1>2. Solid(p) <= Solid(q - 1)
  BY <1>1, SolidMonotonic
<1>3. Solid(q) = Solid(q - 1) + 1 /\ Solid(q - 1) \in Nat
  BY <1>1, SolidStep
<1>4. QED
  BY <1>2, <1>3, SolidStep

(* The lines parse takes into account are those it has scanned when it     *)
(* stops at the end or at the limit.                                       *)
LEMMA CountedIsScanned ==
  ASSUME NEW p \in Nat, Len(file) \in Nat, p <= Len(file), Solid(p) <= MaxEvents,
         p = Len(file) \/ Solid(p) >= MaxEvents
  PROVE  Counted = {i \in 1..p : file[i].form # "blank"}
<1>1. ASSUME NEW i \in 1..Len(file), file[i].form # "blank", Solid(i) <= MaxEvents
      PROVE  i \in 1..p
  <2>1. CASE p < i
    <3>1. i \in Nat
      OBVIOUS
    <3>2. Solid(p) + 1 <= Solid(i) /\ Solid(p) \in Nat /\ Solid(i) \in Nat
      BY <3>1, <1>1, <2>1, SolidGrows, SolidStep
    <3>3. p # Len(file)
      BY <2>1
    <3>4. QED
      BY <1>1, <3>2, <3>3
  <2>2. QED
    BY <2>1
<1>2. ASSUME NEW i \in 1..p PROVE i \in 1..Len(file) /\ Solid(i) <= MaxEvents
  <2>1. i \in Nat /\ i <= p
    OBVIOUS
  <2>2. Solid(i) <= Solid(p) /\ Solid(i) \in Nat /\ Solid(p) \in Nat
    BY <2>1, SolidMonotonic, SolidStep
  <2>3. QED
    BY <2>1, <2>2
<1>3. QED
  BY <1>1, <1>2 DEF Counted

LEMMA SolidLinesMatter ==
  ASSUME NEW p \in Nat, Counted = {i \in 1..p : file[i].form # "blank"}
  PROVE  /\ ActionsOf(Counted) = ActionsOf(1..p)
         /\ StartsOf(Counted) = StartsOf(1..p)
         /\ \A f : EndsOf(Counted, f) = EndsOf(1..p, f)
BY DEF ActionsOf, StartsOf, EndsOf

(* One line more. *)
LEMMA LineMore ==
  ASSUME NEW p \in Nat
  PROVE  LET l == file[p + 1]
             isAction == l.form = "object" /\ l.body.t = "action"
             isRun    == l.form = "object" /\ l.body.t = "run"
         IN /\ ActionsOf(1..(p + 1)) =
                 IF isAction THEN ActionsOf(1..p) \cup {p + 1} ELSE ActionsOf(1..p)
            /\ StartsOf(1..(p + 1)) =
                 IF isRun /\ l.body.status = "start" /\ l.body.run # NoRun
                 THEN StartsOf(1..p) \cup {p + 1} ELSE StartsOf(1..p)
            /\ \A f : EndsOf(1..(p + 1), f) =
                 IF isRun /\ l.body.status = "end" /\ f \in l.body.has
                 THEN EndsOf(1..p, f) \cup {p + 1} ELSE EndsOf(1..p, f)
            /\ Decoded(1..(p + 1)) =
                 IF Simulated(l) THEN Decoded(1..p) \cup {p + 1} ELSE Decoded(1..p)
            /\ DeniedTo(p + 1) =
                 IF DeniedLine(l) THEN DeniedTo(p) \cup {p + 1} ELSE DeniedTo(p)
<1> DEFINE l == file[p + 1]
           isAction == l.form = "object" /\ l.body.t = "action"
           isRun    == l.form = "object" /\ l.body.t = "run"
<1>1. ActionsOf(1..(p + 1)) = IF isAction THEN ActionsOf(1..p) \cup {p + 1} ELSE ActionsOf(1..p)
  BY PrefixSplit DEF ActionsOf
<1>2. StartsOf(1..(p + 1)) =
        IF isRun /\ l.body.status = "start" /\ l.body.run # NoRun
        THEN StartsOf(1..p) \cup {p + 1} ELSE StartsOf(1..p)
  BY PrefixSplit DEF StartsOf
<1>3. ASSUME NEW f
      PROVE  EndsOf(1..(p + 1), f) =
               IF isRun /\ l.body.status = "end" /\ f \in l.body.has
               THEN EndsOf(1..p, f) \cup {p + 1} ELSE EndsOf(1..p, f)
  BY PrefixSplit DEF EndsOf
<1>4. Decoded(1..(p + 1)) = IF Simulated(l) THEN Decoded(1..p) \cup {p + 1} ELSE Decoded(1..p)
  BY PrefixSplit DEF Decoded
<1>5. DeniedTo(p + 1) = IF DeniedLine(l) THEN DeniedTo(p) \cup {p + 1} ELSE DeniedTo(p)
  BY PrefixSplit DEF DeniedTo
<1>6. QED
  BY <1>1, <1>2, <1>3, <1>4, <1>5

LEMMA PartsOfPrefix ==
  ASSUME NEW p \in Nat
  PROVE  /\ ActionsOf(1..p) \subseteq 1..p /\ StartsOf(1..p) \subseteq 1..p
         /\ \A f : EndsOf(1..p, f) \subseteq 1..p
BY DEF ActionsOf, StartsOf, EndsOf

(* What is said of a file stays true while the file stays. *)
LEMMA FileKept ==
  ASSUME file' = file
  PROVE  /\ \A p : Solid(p)' = Solid(p) /\ DeniedTo(p)' = DeniedTo(p)
         /\ \A S : /\ ActionsOf(S)' = ActionsOf(S) /\ StartsOf(S)' = StartsOf(S)
                   /\ Decoded(S)' = Decoded(S) /\ \A f : EndsOf(S, f)' = EndsOf(S, f)
         /\ Counted' = Counted /\ Actions' = Actions /\ (LongBeyond' <=> LongBeyond)
BY DEF Solid, DeniedTo, ActionsOf, StartsOf, EndsOf, Decoded, Counted, Actions, LongBeyond,
   Simulated, DeniedLine

-----------------------------------------------------------------------------
(***************************************************************************)
(* parse.                                                                  *)
(***************************************************************************)

(* What one line does to the summary, field by field. *)
LEMMA FieldsOfLine ==
  ASSUME TypeOK, NEW l \in Lines, pos + 1 \in 1..MaxLines
  PROVE  LET n == IF l.form = "blank" THEN s ELSE Applied(s, l)
             isAction == l.form = "object" /\ l.body.t = "action"
             isRun    == l.form = "object" /\ l.body.t = "run"
             wasDenied == l.body.auth \in Denied
         IN /\ n \in Summary
            /\ n.count = IF l.form = "blank" THEN s.count ELSE s.count + 1
            /\ n.run = IF isRun /\ l.body.status = "start" /\ s.run = NoRun
                       THEN l.body.run ELSE s.run
            /\ \A f \in EndFields :
                 n.end[f] = IF isRun /\ l.body.status = "end" /\ f \in l.body.has
                            THEN pos + 1 ELSE s.end[f]
            /\ n.total = IF isAction THEN s.total + 1 ELSE s.total
            /\ n.denied = IF isAction /\ wasDenied THEN s.denied + 1 ELSE s.denied
            /\ n.allowed = IF isAction /\ ~wasDenied THEN s.allowed + 1 ELSE s.allowed
            /\ n.chain <=> s.chain /\ (isAction => l.mac # NoMac)
            /\ n.sawAction <=> s.sawAction \/ isAction
            /\ n.truncated <=> s.truncated \/ l.form \in {"malformed", "padded"}
<1> DEFINE counted == [s EXCEPT !.count = @ + 1]
<1>1. s \in Summary /\ counted \in Summary
  <2>1. s \in Summary
    BY DEF TypeOK
  <2>2. s.count + 1 \in Nat
    BY <2>1 DEF Summary
  <2>3. QED
    BY <2>1, <2>2 DEF Summary
<1>2. l.body.t \in {"run", "action", "other"} /\ l.body.run \in Runs \cup {NoRun}
  <2>1. l.body \in BodyShapes
    BY DEF Lines
  <2>2. QED
    BY <2>1 DEF BodyShapes
<1>3. CASE l.form = "blank"
  BY <1>1, <1>3
<1>4. CASE l.form \in {"malformed", "padded"}
  <2>1. Applied(s, l) = [counted EXCEPT !.truncated = TRUE]
    BY <1>4 DEF Applied
  <2>2. QED
    BY <1>1, <1>4, <2>1 DEF Summary
<1>5. CASE l.form = "object" /\ l.body.t = "run"
  <2>1. Applied(s, l) = ApplyRunEvent(counted, l.body)
    BY <1>5 DEF Applied
  <2>2. CASE l.body.status = "start" /\ s.run = NoRun
    <3>1. Applied(s, l) = [counted EXCEPT !.run = l.body.run]
      BY <1>1, <2>1, <2>2 DEF ApplyRunEvent, Summary
    <3>2. QED
      BY <1>1, <1>2, <1>5, <2>2, <3>1 DEF Summary
  <2>3. CASE l.body.status = "end"
    <3> DEFINE E == [f \in EndFields |-> IF f \in l.body.has THEN pos + 1 ELSE s.end[f]]
    <3>1. Applied(s, l) = [counted EXCEPT !.end = E]
      <4>1. counted.end = s.end
        BY <1>1 DEF Summary
      <4>2. ApplyRunEvent(counted, l.body) =
              [counted EXCEPT !.end = [f \in EndFields |-> IF f \in l.body.has THEN pos + 1
                                                           ELSE counted.end[f]]]
        BY <1>1, <2>3 DEF ApplyRunEvent, Summary
      <4>3. QED
        BY <2>1, <4>1, <4>2
    <3>2. E \in [EndFields -> 0..MaxLines]
      <4>1. s.end \in [EndFields -> 0..MaxLines] /\ pos + 1 \in 0..MaxLines
        BY <1>1 DEF Summary
      <4>2. QED
        BY <4>1
    <3>3. \A f \in EndFields : E[f] = IF f \in l.body.has THEN pos + 1 ELSE s.end[f]
      OBVIOUS
    <3> HIDE DEF E
    <3>4. QED
      BY <1>1, <1>5, <2>3, <3>1, <3>2, <3>3 DEF Summary
  <2>4. CASE ~(l.body.status = "start" /\ s.run = NoRun) /\ l.body.status # "end"
    <3>1. Applied(s, l) = counted
      BY <1>1, <2>1, <2>4 DEF ApplyRunEvent, Summary
    <3>2. QED
      BY <1>1, <1>5, <2>4, <3>1 DEF Summary
  <2>5. QED
    BY <2>2, <2>3, <2>4
<1>6. CASE l.form = "object" /\ l.body.t = "action"
  <2>1. Applied(s, l) = ApplyActionEvent(counted, l)
    BY <1>6 DEF Applied
  <2>2. /\ counted.total = s.total /\ counted.denied = s.denied /\ counted.allowed = s.allowed
        /\ s.total + 1 \in Nat /\ s.denied + 1 \in Nat /\ s.allowed + 1 \in Nat
        /\ s.chain \in BOOLEAN /\ counted.chain = s.chain
    BY <1>1 DEF Summary
  <2>3. CASE l.body.auth \in Denied
    <3>1. Applied(s, l) = [counted EXCEPT !.total = s.total + 1, !.sawAction = TRUE,
                             !.chain = s.chain /\ l.mac # NoMac, !.denied = s.denied + 1]
      BY <1>1, <2>1, <2>2, <2>3 DEF ApplyActionEvent, Summary
    <3>2. QED
      BY <1>1, <1>6, <2>2, <2>3, <3>1 DEF Summary
  <2>4. CASE l.body.auth \notin Denied
    <3>1. Applied(s, l) = [counted EXCEPT !.total = s.total + 1, !.sawAction = TRUE,
                             !.chain = s.chain /\ l.mac # NoMac, !.allowed = s.allowed + 1]
      BY <1>1, <2>1, <2>2, <2>4 DEF ApplyActionEvent, Summary
    <3>2. QED
      BY <1>1, <1>6, <2>2, <2>4, <3>1 DEF Summary
  <2>5. QED
    BY <2>3, <2>4
<1>7. CASE l.form = "long" \/ (l.form = "object" /\ l.body.t = "other")
  <2>1. Applied(s, l) = counted
    BY <1>7 DEF Applied
  <2>2. QED
    BY <1>1, <1>7, <2>1 DEF Summary
<1>8. QED
  BY <1>2, <1>3, <1>4, <1>5, <1>6, <1>7 DEF Lines, Forms

(* A line that is scanned is in the file, and has a position in it. *)
LEMMA NextLine ==
  ASSUME TypeOK, pos < Len(file)
  PROVE  /\ pos \in Nat /\ Len(file) \in Nat /\ pos + 1 \in 1..Len(file)
         /\ pos + 1 \in 1..MaxLines /\ Next1 \in Lines /\ Next1 = file[pos + 1]
BY DEF TypeOK, Next1

LEMMA ScanLineScans ==
  ASSUME TypeOK, ParsingOK, ScanLine
  PROVE  ScannedTo(pos)' /\ s' \in Summary
<1> DEFINE l == file[pos + 1]
           isAction == l.form = "object" /\ l.body.t = "action"
           isRun    == l.form = "object" /\ l.body.t = "run"
           wasDenied == l.body.auth \in Denied
<1>1. /\ pos \in Nat /\ pos + 1 \in 1..Len(file) /\ Len(file) \in Nat /\ l \in Lines
      /\ pos + 1 \in 1..MaxLines /\ pos' = pos + 1 /\ file' = file /\ l.form # "long"
      /\ s.count < MaxEvents /\ s' = IF l.form = "blank" THEN s ELSE Applied(s, l)
  BY NextLine DEF ScanLine, trace
<1>2. /\ s' \in Summary
      /\ s'.count = IF l.form = "blank" THEN s.count ELSE s.count + 1
      /\ s'.run = IF isRun /\ l.body.status = "start" /\ s.run = NoRun
                 THEN l.body.run ELSE s.run
      /\ \A f \in EndFields :
           s'.end[f] = IF isRun /\ l.body.status = "end" /\ f \in l.body.has
                       THEN pos + 1 ELSE s.end[f]
      /\ s'.total = IF isAction THEN s.total + 1 ELSE s.total
      /\ s'.denied = IF isAction /\ wasDenied THEN s.denied + 1 ELSE s.denied
      /\ s'.allowed = IF isAction /\ ~wasDenied THEN s.allowed + 1 ELSE s.allowed
      /\ s'.sawAction <=> s.sawAction \/ isAction
      /\ s'.truncated <=> s.truncated \/ l.form \in {"malformed", "padded"}
  BY <1>1, FieldsOfLine
<1>3. ScannedTo(pos) /\ s \in Summary
  BY DEF ParsingOK, ScanLine, TypeOK
<1>t. s.count \in Nat /\ s.total \in Nat /\ s.denied \in Nat /\ s.allowed \in Nat
  BY <1>3 DEF Summary
<1>4. /\ ActionsOf(1..(pos + 1)) = IF isAction THEN ActionsOf(1..pos) \cup {pos + 1} ELSE ActionsOf(1..pos)
      /\ StartsOf(1..(pos + 1)) = IF isRun /\ l.body.status = "start" /\ l.body.run # NoRun
                                 THEN StartsOf(1..pos) \cup {pos + 1} ELSE StartsOf(1..pos)
      /\ \A f : EndsOf(1..(pos + 1), f) = IF isRun /\ l.body.status = "end" /\ f \in l.body.has
                                         THEN EndsOf(1..pos, f) \cup {pos + 1}
                                         ELSE EndsOf(1..pos, f)
  BY <1>1, LineMore
<1>5. /\ ActionsOf(1..pos) \in SUBSET (1..pos) /\ StartsOf(1..pos) \in SUBSET (1..pos)
      /\ \A f : EndsOf(1..pos, f) \in SUBSET (1..pos)
  BY <1>1, PartsOfPrefix
<1> HIDE DEF l
<1>6. /\ s'.count = Solid(pos + 1) /\ s'.count <= MaxEvents
  <2>1. Solid(pos + 1) = IF l.form = "blank" THEN Solid(pos) ELSE Solid(pos) + 1
    BY <1>1, SolidStep DEF l
  <2>2. s.count = Solid(pos) /\ s.count + 1 <= MaxEvents
    BY <1>1, <1>3, <1>t DEF ScannedTo
  <2>3. QED
    BY <1>2, <1>t, <2>1, <2>2
<1>7. IF StartsOf(1..(pos + 1)) = {} THEN s'.run = NoRun
      ELSE \E i \in StartsOf(1..(pos + 1)) :
             (\A j \in StartsOf(1..(pos + 1)) : i <= j) /\ s'.run = file[i].body.run
  <2>1. \A j \in StartsOf(1..pos) : j <= pos + 1 /\ j \in Nat
    BY <1>1, <1>5
  <2>2. CASE isRun /\ l.body.status = "start" /\ l.body.run # NoRun
    <3>1. CASE StartsOf(1..pos) = {}
      <4>1. StartsOf(1..(pos + 1)) = {pos + 1}
        BY <1>4, <2>2, <3>1
      <4>2. s'.run = l.body.run
        BY <1>2, <1>3, <2>2, <3>1 DEF ScannedTo
      <4>3. l.body.run = file[pos + 1].body.run /\ pos + 1 <= pos + 1
        BY <1>1 DEF l
      <4>4. QED
        BY <4>1, <4>2, <4>3
    <3>2. CASE StartsOf(1..pos) # {}
      <4>1. PICK i \in StartsOf(1..pos) :
              (\A j \in StartsOf(1..pos) : i <= j) /\ s.run = file[i].body.run
        BY <1>3, <3>2 DEF ScannedTo, FirstStart
      <4>2. s.run # NoRun
        BY <4>1 DEF StartsOf
      <4>3. s'.run = s.run
        BY <1>2, <4>2
      <4>4. \A j \in StartsOf(1..(pos + 1)) : i <= j
        BY <1>4, <2>1, <2>2, <4>1
      <4>5. i \in StartsOf(1..(pos + 1))
        BY <1>4, <4>1
      <4>6. QED
        BY <4>1, <4>3, <4>4, <4>5
    <3>3. QED
      BY <3>1, <3>2
  <2>3. CASE ~(isRun /\ l.body.status = "start" /\ l.body.run # NoRun)
    <3>1. StartsOf(1..(pos + 1)) = StartsOf(1..pos)
      BY <1>4, <2>3
    <3>2. s'.run = s.run
      BY <1>2, <2>3
    <3>3. QED
      BY <1>3, <3>1, <3>2 DEF ScannedTo, FirstStart
  <2>4. QED
    BY <2>2, <2>3
<1>8. ASSUME NEW f \in EndFields
      PROVE  /\ s'.end[f] \in EndsOf(1..(pos + 1), f) \cup {0}
             /\ \A i \in EndsOf(1..(pos + 1), f) : i <= s'.end[f]
  <2>1. /\ s.end[f] \in EndsOf(1..pos, f) \cup {0}
        /\ \A i \in EndsOf(1..pos, f) : i <= s.end[f]
    BY <1>3 DEF ScannedTo, CountsExactly
  <2>2. \A j \in EndsOf(1..pos, f) : j <= pos + 1
    BY <1>1, <1>5
  <2>3. CASE isRun /\ l.body.status = "end" /\ f \in l.body.has
    <3>1. s'.end[f] = pos + 1
      BY <1>2, <2>3
    <3>2. EndsOf(1..(pos + 1), f) = EndsOf(1..pos, f) \cup {pos + 1}
      BY <1>4, <2>3
    <3>3. pos + 1 <= pos + 1
      BY <1>1
    <3>4. QED
      BY <2>2, <3>1, <3>2, <3>3
  <2>4. CASE ~(isRun /\ l.body.status = "end" /\ f \in l.body.has)
    BY <1>2, <1>4, <2>1, <2>4
  <2>5. QED
    BY <2>3, <2>4
<1>9. s'.total = Cardinality(ActionsOf(1..(pos + 1)))
  <2>1. s.total = Cardinality(ActionsOf(1..pos))
    BY <1>3 DEF ScannedTo, CountsExactly
  <2>2. Cardinality(ActionsOf(1..pos) \cup {pos + 1}) = Cardinality(ActionsOf(1..pos)) + 1
    BY <1>1, <1>5, OneMore
  <2>3. QED
    BY <1>2, <1>4, <2>1, <2>2
<1>10. s'.denied = Cardinality({i \in ActionsOf(1..(pos + 1)) : file[i].body.auth \in Denied})
  <2> DEFINE D == {i \in ActionsOf(1..pos) : file[i].body.auth \in Denied}
             E == {i \in ActionsOf(1..(pos + 1)) : file[i].body.auth \in Denied}
  <2>1. D \in SUBSET (1..pos) /\ s.denied = Cardinality(D)
    BY <1>3, <1>5 DEF ScannedTo, CountsExactly
  <2>2. E = IF isAction /\ wasDenied THEN D \cup {pos + 1} ELSE D
    BY <1>4 DEF l
  <2> HIDE DEF D
  <2>3. Cardinality(D \cup {pos + 1}) = Cardinality(D) + 1
    BY <1>1, <2>1, OneMore
  <2>4. QED
    BY <1>2, <2>1, <2>2, <2>3
<1>11. s'.allowed + s'.denied = s'.total
  <2>1. s.allowed + s.denied = s.total
    BY <1>3 DEF ScannedTo, CountsExactly
  <2> HIDE DEF isAction, wasDenied
  <2>2. QED
    BY <1>2, <1>t, <2>1
<1>12. s'.sawAction <=> ActionsOf(1..(pos + 1)) # {}
  BY <1>2, <1>3, <1>4 DEF ScannedTo
<1>13. /\ \A i \in 1..(pos + 1) : file[i].form # "long"
       /\ ~s'.truncated => \A i \in 1..(pos + 1) : file[i].form \notin {"malformed", "padded"}
  BY <1>1, <1>2, <1>3, PrefixSplit DEF ScannedTo, l
<1>14. QED
  <2>1. CountsExactly(1..pos)'
    <3>1. /\ \A f : EndsOf(1..pos, f)' = EndsOf(1..(pos + 1), f)
          /\ ActionsOf(1..pos)' = ActionsOf(1..(pos + 1))
          /\ file' = file
      BY <1>1 DEF EndsOf, ActionsOf
    <3>2. QED
      BY <1>8, <1>9, <1>10, <1>11, <3>1 DEF CountsExactly
  <2>2. QED
    <3>1. /\ StartsOf(1..pos)' = StartsOf(1..(pos + 1)) /\ ActionsOf(1..pos)' = ActionsOf(1..(pos + 1))
          /\ Solid(pos)' = Solid(pos + 1) /\ file' = file /\ pos' = pos + 1 /\ pos' <= Len(file')
      BY <1>1 DEF StartsOf, ActionsOf, Solid
    <3>2. QED
      BY <1>2, <1>6, <1>7, <1>12, <1>13, <2>1, <3>1 DEF ScannedTo, FirstStart

(* Once parse stops at the limit or at the end, its summary speaks of all  *)
(* lines that count, and lines nobody can scan lie beyond the limit.       *)
LEMMA ScanEnds ==
  ASSUME TypeOK, ParsingOK, pc = "parsing", ~TooLong, AtLimit \/ AtEnd,
         s.run # NoRun, s' = Final, UNCHANGED trace
  PROVE  SummaryTrue' /\ LongBeyond'
<1>1. /\ pos \in Nat /\ Len(file) \in Nat /\ pos <= Len(file) /\ s \in Summary
      /\ file' = file /\ broken' = broken
      /\ broken \in BOOLEAN
  BY DEF TypeOK, ParsingOK, ScannedTo, trace
<1>2. ScannedTo(pos) /\ (s.chain <=> \A i \in ActionsOf(1..pos) : file[i].mac # NoMac)
  BY DEF ParsingOK
<1>3. pos = Len(file) \/ Solid(pos) >= MaxEvents
  BY <1>2 DEF AtLimit, AtEnd, ScannedTo
<1>4. Solid(pos) <= MaxEvents /\ Solid(pos) \in Nat
  BY <1>1, <1>2, SolidStep DEF ScannedTo
<1>5. Counted = {i \in 1..pos : file[i].form # "blank"}
  BY <1>1, <1>3, <1>4, CountedIsScanned
<1>6. /\ ActionsOf(Counted) = ActionsOf(1..pos) /\ StartsOf(Counted) = StartsOf(1..pos)
      /\ \A f : EndsOf(Counted, f) = EndsOf(1..pos, f)
  BY <1>1, <1>5, SolidLinesMatter
<1>7. /\ s'.run = s.run /\ s'.end = s.end /\ s'.total = s.total /\ s'.denied = s.denied
      /\ s'.allowed = s.allowed /\ (s'.chain <=> s.chain /\ s.sawAction)
      /\ (s'.truncated <=> s.truncated \/ AtLimit \/ (AtEnd /\ broken))
  BY <1>1 DEF Final, Summary
<1>8. FirstStart(Counted)'
  <2>1. FirstStart(1..pos)
    BY <1>2 DEF ScannedTo
  <2>2. FirstStart(Counted)
    BY <1>6, <2>1 DEF FirstStart
  <2>3. QED
    BY <1>1, <1>7, <2>2, FileKept DEF FirstStart
<1>9. CountsExactly(Counted)'
  <2>1. CountsExactly(1..pos)
    BY <1>2 DEF ScannedTo
  <2>2. CountsExactly(Counted)
    BY <1>6, <2>1 DEF CountsExactly
  <2>3. /\ \A f : EndsOf(Counted, f)' = EndsOf(Counted, f)
        /\ ActionsOf(Counted)' = ActionsOf(Counted)
        /\ file' = file
    BY <1>1 DEF EndsOf, ActionsOf, Counted, Solid
  <2>4. QED
    BY <1>7, <2>2, <2>3 DEF CountsExactly
<1>10. s'.chain <=> Actions # {} /\ \A i \in Actions : file[i].mac # NoMac
  BY <1>2, <1>6, <1>7 DEF ScannedTo, Actions
<1>11. ASSUME ~s'.truncated
       PROVE  /\ ~broken
              /\ \A i \in 1..Len(file) :
                   file[i].form = "blank" \/ (i \in Counted /\ file[i].form = "object")
  <2>1. ~s.truncated /\ AtEnd /\ ~broken
    BY <1>7, <1>11
  <2>2. \A i \in 1..pos : file[i].form \notin {"malformed", "padded", "long"}
    BY <1>2, <2>1 DEF ScannedTo
  <2>3. \A i \in 1..Len(file) : file[i].form \in {"object", "padded", "blank", "malformed", "long"}
    <3>1. \A i \in 1..Len(file) : file[i] \in Lines
      BY DEF TypeOK
    <3>2. QED
      BY <3>1 DEF Lines, Forms
  <2>4. QED
    BY <1>5, <2>1, <2>2, <2>3 DEF AtEnd
<1>12. SummaryTrue'
  BY <1>1, <1>8, <1>9, <1>10, <1>11, FileKept DEF SummaryTrue
<1>13. ASSUME NEW i \in 1..Len(file), file[i].form = "long" PROVE Solid(i - 1) >= MaxEvents
  <2>1. pos < i /\ AtLimit
    BY <1>1, <1>2, <1>13 DEF ScannedTo, AtEnd
  <2>2. i # pos + 1
    BY <1>1, <1>13, <2>1 DEF AtLimit, TooLong, Next1
  <2>3. pos <= i - 1 /\ i - 1 \in Nat
    BY <1>1, <2>1, <2>2
  <2>4. Solid(pos) <= Solid(i - 1) /\ Solid(i - 1) \in Nat
    BY <1>1, <2>3, SolidMonotonic, SolidStep
  <2>5. Solid(pos) >= MaxEvents
    BY <1>2, <2>1 DEF AtLimit, ScannedTo
  <2>6. QED
    BY <1>4, <2>4, <2>5
<1>14. LongBeyond'
  BY <1>1, <1>13, FileKept DEF LongBeyond
<1>15. QED
  BY <1>12, <1>14

(***************************************************************************)
(* The writer, the faults and the steps of parse keep the invariant.       *)
(***************************************************************************)

(* While the file is written nothing has been read. *)
LEMMA WritingKeeps ==
  ASSUME IndInv, pc = "writing", TypeOK', UNCHANGED reader
  PROVE  IndInv'
<1>1. WritingOK'
  BY DEF IndInv, WritingOK, Unread, reader
<1>2. ParsingOK' /\ VerifyingOK'
  BY DEF ParsingOK, VerifyingOK, reader
<1>3. result' = "none" /\ pc' = "writing"
  BY DEF IndInv, WritingOK, reader
<1>4. StoredOK' /\ SummaryFromLines' /\ VerifiedIsSealedPrefix' /\ ReadersAgree'
  BY <1>3 DEF StoredOK, SummaryFromLines, VerifiedIsSealedPrefix, ReadersAgree, Accepted
<1>5. QED
  BY <1>1, <1>2, <1>4 DEF IndInv

LEMMA SealType ==
  ASSUME TypeOK, NEW r \in Runs, NEW b \in Bodies, Seal(r, b)
  PROVE  TypeOK'
<1>1. sealed[r] \in Seq(Bodies) /\ Len(sealed[r]) \in Nat /\ Len(sealed[r]) < MaxLines
  BY DEF TypeOK, Seal
<1>2. sealed' \in [Runs -> Seq(Bodies)]
  BY <1>1 DEF TypeOK, Seal
<1>3. [body |-> b, mac |-> <<r, Len(sealed[r]) + 1>>, form |-> "object"] \in Lines
  <2>1. Len(sealed[r]) + 1 \in 1..MaxLines
    BY <1>1
  <2>2. QED
    BY <2>1 DEF Lines, Macs, Forms
<1>4. file' \in Seq(Lines) /\ Len(file') <= MaxLines
  BY <1>3 DEF TypeOK, Seal
<1>5. faults' \in 0..MaxFaults
  BY DEF TypeOK, Seal
<1>6. QED
  BY <1>2, <1>4, <1>5 DEF TypeOK, Seal, reader

LEMMA WriteUnsealedType ==
  ASSUME TypeOK, NEW b \in Bodies, WriteUnsealed(b)
  PROVE  TypeOK'
<1>1. [body |-> b, mac |-> NoMac, form |-> "object"] \in Lines
  BY DEF Lines, Macs, Forms
<1>2. file' \in Seq(Lines) /\ Len(file') <= MaxLines
  BY <1>1 DEF TypeOK, WriteUnsealed
<1>3. QED
  BY <1>2 DEF TypeOK, WriteUnsealed, reader

LEMMA FaultType ==
  ASSUME TypeOK, Fault
  PROVE  TypeOK'
<1>1. file \in Seq(Lines) /\ Len(file) \in Nat /\ Len(file) <= MaxLines
  BY DEF TypeOK
<1>2. file' \in Seq(Lines) /\ Len(file') <= MaxLines /\ broken' \in BOOLEAN
  <2>1. CASE \E i \in 1..Len(file) : file' = Without(i) /\ UNCHANGED broken
    <3>1. PICK i \in 1..Len(file) : file' = Without(i)
      BY <2>1
    <3>2. Len(file) - 1 \in Nat
      BY <1>1, <3>1
    <3>3. \A j \in 1..(Len(file) - 1) : (IF j < i THEN file[j] ELSE file[j + 1]) \in Lines
      BY <1>1
    <3>4. file' \in Seq(Lines) /\ Len(file') = Len(file) - 1
      BY <3>1, <3>2, <3>3 DEF Without
    <3>5. QED
      BY <1>1, <2>1, <3>4 DEF TypeOK
  <2>2. CASE \E i \in 1..(Len(file) - 1) : file' = Swapped(i) /\ UNCHANGED broken
    <3>1. PICK i \in 1..(Len(file) - 1) : file' = Swapped(i)
      BY <2>2
    <3>2. file[i] \in Lines /\ file[i + 1] \in Lines
      BY <1>1
    <3>3. file' \in Seq(Lines) /\ Len(file') = Len(file)
      BY <1>1, <3>1, <3>2 DEF Swapped
    <3>4. QED
      BY <1>1, <2>2, <3>3 DEF TypeOK
  <2>3. CASE /\ Len(file) < MaxLines
             /\ \E i \in 1..Len(file) : file' = Append(file, file[i]) /\ UNCHANGED broken
    BY <1>1, <2>3 DEF TypeOK
  <2>4. CASE \E i \in 1..Len(file) : \E l \in Variants(file[i]) :
               file' = [file EXCEPT ![i] = l] /\ UNCHANGED broken
    <3>1. PICK i \in 1..Len(file) :
            \E l \in Variants(file[i]) : file' = [file EXCEPT ![i] = l]
      BY <2>4
    <3>2. PICK l \in Variants(file[i]) : file' = [file EXCEPT ![i] = l]
      BY <3>1
    <3>3. file[i] \in Lines
      BY <1>1
    <3>4. l \in Lines
      BY <3>2, <3>3 DEF Variants, Lines, Macs, Forms
    <3>5. QED
      BY <1>1, <2>4, <3>2, <3>4 DEF TypeOK
  <2>5. CASE broken' = TRUE /\ UNCHANGED file
    BY <1>1, <2>5
  <2>6. QED
    BY <2>1, <2>2, <2>3, <2>4, <2>5 DEF Fault
<1>3. faults' \in 0..MaxFaults
  BY DEF TypeOK, Fault
<1>4. QED
  BY <1>2, <1>3 DEF TypeOK, Fault, reader

LEMMA WritersKeep ==
  ASSUME IndInv, \/ \E r \in Runs, b \in Bodies : Seal(r, b)
                 \/ \E b \in Bodies : WriteUnsealed(b)
                 \/ Fault
  PROVE  IndInv'
<1>1. TypeOK'
  BY SealType, WriteUnsealedType, FaultType DEF IndInv
<1>2. pc = "writing" /\ UNCHANGED reader
  BY DEF Seal, WriteUnsealed, Fault
<1>3. QED
  BY <1>1, <1>2, WritingKeeps

LEMMA UploadKeeps ==
  ASSUME IndInv, Upload
  PROVE  IndInv'
<1>1. /\ pos = 0 /\ Unread /\ result = "none" /\ kept = <<>>
      /\ s = Fresh
      /\ UNCHANGED <<config, trace, pos, s, kept, prev, result, events, denials>>
      /\ pc' = "parsing" /\ file' = file
  BY DEF Upload, IndInv, WritingOK, trace
<1>2. TypeOK'
  BY DEF Upload, IndInv, TypeOK, trace
<1>3. /\ Solid(0) = 0 /\ ActionsOf(1..0) = {} /\ StartsOf(1..0) = {}
      /\ \A f : EndsOf(1..0, f) = {}
      /\ {i \in ActionsOf(1..0) : file[i].body.auth \in Denied} = {}
  BY SolidStep DEF ActionsOf, StartsOf, EndsOf
<1>4. ScannedTo(0)
  <2>1. Len(file) \in Nat
    BY DEF IndInv, TypeOK
  <2>2. CountsExactly(1..0)
    <3>1. /\ s.total = 0 /\ s.denied = 0 /\ s.allowed = 0
          /\ \A f \in EndFields : s.end[f] = 0
      BY <1>1 DEF Fresh
    <3>2. Cardinality(ActionsOf(1..0)) = 0
          /\ Cardinality({i \in ActionsOf(1..0) : file[i].body.auth \in Denied}) = 0
      BY <1>3, FS_EmptySet
    <3>3. s.allowed + s.denied = s.total
      BY <3>1
    <3>4. QED
      BY <1>3, <3>1, <3>2, <3>3 DEF CountsExactly
  <2>3. QED
    BY <1>1, <1>3, <2>1, <2>2 DEF ScannedTo, Fresh
<1>5. KeptTo(0)
  BY <1>1, <1>3 DEF KeptTo
<1>6. ParsingOK'
  <2>1. /\ pc' = "parsing" /\ ScannedTo(pos) /\ KeptTo(pos) /\ Unread /\ result = "none"
        /\ s.chain <=> \A i \in ActionsOf(1..pos) : file[i].mac # NoMac
    BY <1>1, <1>3, <1>4, <1>5 DEF Fresh
  <2>2. QED
    BY <1>1, <2>1 DEF ParsingOK, ScannedTo, CountsExactly, FirstStart, StartsOf, ActionsOf, EndsOf,
       Solid, KeptTo, HasKey, Unread
<1>7. WritingOK' /\ VerifyingOK' /\ StoredOK' /\ SummaryFromLines' /\ VerifiedIsSealedPrefix'
      /\ ReadersAgree'
  BY <1>1 DEF WritingOK, VerifyingOK, StoredOK, SummaryFromLines, VerifiedIsSealedPrefix,
     ReadersAgree, Accepted
<1>8. QED
  BY <1>2, <1>6, <1>7 DEF IndInv

LEMMA ScanLineKeeps ==
  ASSUME IndInv, ScanLine
  PROVE  IndInv'
<1> DEFINE l == file[pos + 1]
<1>1. /\ TypeOK /\ ParsingOK /\ pc = "parsing" /\ pos < Len(file)
      /\ pos' = pos + 1 /\ pc' = "parsing" /\ l.form # "long"
      /\ s' = IF l.form = "blank" THEN s ELSE Applied(s, l)
      /\ kept' = IF HasKey /\ l.form # "blank" THEN Append(kept, l) ELSE kept
      /\ UNCHANGED <<config, sealed, file, broken, faults, prev, result, events, denials>>
  BY DEF IndInv, ScanLine, trace, Next1
<1>2. /\ pos \in Nat /\ Len(file) \in Nat /\ pos + 1 \in 1..Len(file)
      /\ pos + 1 \in 1..MaxLines /\ l \in Lines
  BY <1>1, NextLine
<1>3. ScannedTo(pos)' /\ s' \in Summary
  BY <1>1, ScanLineScans DEF IndInv
<1>4. kept \in Seq(Lines) /\ kept' \in Seq(Lines) /\ Len(kept) \in Nat
  BY <1>1, <1>2 DEF TypeOK
<1>5. TypeOK'
  <2>1. pos' \in 0..MaxLines
    BY <1>1, <1>2
  <2>2. QED
    BY <1>1, <1>3, <1>4, <2>1 DEF TypeOK
<1>6. ScannedTo(pos) /\ KeptTo(pos) /\ Unread /\ result = "none"
      /\ (s.chain <=> \A i \in ActionsOf(1..pos) : file[i].mac # NoMac)
  BY <1>1 DEF ParsingOK
<1>7. ASSUME HasKey
      PROVE  /\ Len(kept') = Solid(pos + 1)
             /\ \A i \in 1..(pos + 1) : file[i].form # "blank" => kept'[Solid(i)] = file[i]
  <2>1. HasKey
    BY <1>7
  <2>2. /\ Len(kept) = Solid(pos)
        /\ \A i \in 1..pos : file[i].form # "blank" => kept[Solid(i)] = file[i]
    BY <1>6, <2>1 DEF KeptTo
  <2>3. Solid(pos + 1) = IF l.form = "blank" THEN Solid(pos) ELSE Solid(pos) + 1
    BY <1>2, SolidStep
  <2>4. CASE l.form = "blank"
    <3>1. kept' = kept /\ Solid(pos + 1) = Solid(pos)
      BY <1>1, <2>3, <2>4
    <3>2. ASSUME NEW i \in 1..(pos + 1), file[i].form # "blank" PROVE kept'[Solid(i)] = file[i]
      <4>1. i # pos + 1
        BY <1>2, <2>4, <3>2
      <4>2. i \in 1..pos
        BY <1>2, <4>1
      <4>3. QED
        BY <2>2, <3>1, <3>2, <4>2
    <3>3. QED
      BY <2>2, <3>1, <3>2
  <2>5. CASE l.form # "blank"
    <3>1. kept' = Append(kept, l)
      BY <1>1, <2>1, <2>5
    <3>2. Len(kept') = Len(kept) + 1 /\ kept'[Len(kept) + 1] = l
          /\ \A n \in 1..Len(kept) : kept'[n] = kept[n]
      BY <1>2, <1>4, <3>1
    <3>3. \A i \in 1..pos : file[i].form # "blank" => Solid(i) \in 1..Len(kept)
      <4>1. TAKE i \in 1..pos
      <4>2. HAVE file[i].form # "blank"
      <4>3. i \in Nat /\ 0 < i /\ i <= pos
        BY <1>2
      <4>4. Solid(0) + 1 <= Solid(i) /\ Solid(0) = 0
        BY <4>2, <4>3, SolidGrows, SolidStep
      <4>5. Solid(i) <= Solid(pos) /\ Solid(i) \in Nat
        BY <1>2, <4>3, SolidMonotonic, SolidStep
      <4>6. QED
        BY <2>2, <4>4, <4>5
    <3>4. ASSUME NEW i \in 1..pos, file[i].form # "blank" PROVE kept'[Solid(i)] = file[i]
      BY <2>2, <3>2, <3>3, <3>4
    <3>5. Solid(pos + 1) = Len(kept) + 1 /\ kept'[Solid(pos + 1)] = file[pos + 1]
      BY <2>2, <2>3, <2>5, <3>2
    <3>6. ASSUME NEW i \in 1..(pos + 1), file[i].form # "blank" PROVE kept'[Solid(i)] = file[i]
      <4>1. CASE i = pos + 1
        BY <3>5, <4>1
      <4>2. CASE i # pos + 1
        <5>1. i \in 1..pos
          BY <1>2, <4>2
        <5>2. QED
          BY <3>4, <3>6, <5>1
      <4>3. QED
        BY <4>1, <4>2
    <3>7. QED
      BY <3>2, <3>5, <3>6
  <2>6. QED
    BY <2>4, <2>5
<1>8. s'.chain <=> \A i \in ActionsOf(1..(pos + 1)) : file[i].mac # NoMac
  <2>1. s'.chain <=> s.chain /\ ((l.form = "object" /\ l.body.t = "action") => l.mac # NoMac)
    BY <1>1, <1>2, FieldsOfLine
  <2>2. ActionsOf(1..(pos + 1)) = IF l.form = "object" /\ l.body.t = "action"
                                  THEN ActionsOf(1..pos) \cup {pos + 1} ELSE ActionsOf(1..pos)
    BY <1>2, LineMore
  <2>3. QED
    BY <1>6, <2>1, <2>2
<1>9. ParsingOK'
  <2>1. KeptTo(pos)'
    <3>1. Solid(pos)' = Solid(pos + 1) /\ file' = file /\ pos' = pos + 1 /\ (HasKey' <=> HasKey)
      BY <1>1 DEF Solid, HasKey
    <3>2. \A i \in 1..(pos + 1) : Solid(i)' = Solid(i)
      BY <1>1 DEF Solid
    <3>3. QED
      BY <1>7, <3>1, <3>2 DEF KeptTo
  <2>2. s'.chain <=> \A i \in ActionsOf(1..pos)' : file'[i].mac # NoMac
    BY <1>1, <1>8 DEF ActionsOf
  <2>3. Unread' /\ result' = "none"
    BY <1>1, <1>6 DEF Unread
  <2>4. QED
    BY <1>3, <2>1, <2>2, <2>3 DEF ParsingOK
<1>10. WritingOK' /\ VerifyingOK'
  BY <1>1 DEF WritingOK, VerifyingOK
<1>11. StoredOK' /\ SummaryFromLines' /\ VerifiedIsSealedPrefix' /\ ReadersAgree'
  BY <1>1, <1>6 DEF StoredOK, SummaryFromLines, VerifiedIsSealedPrefix, ReadersAgree, Accepted
<1>12. QED
  BY <1>5, <1>9, <1>10, <1>11 DEF IndInv

(* An upload that is rejected leaves no summary and is read by nobody.     *)
LEMMA Rejects ==
  ASSUME IndInv, TypeOK', pc' = "done", ~Accepted'
  PROVE  IndInv'
<1>1. WritingOK' /\ ParsingOK' /\ VerifyingOK' /\ ReadersAgree'
  BY DEF WritingOK, ParsingOK, VerifyingOK, ReadersAgree
<1>2. StoredOK' /\ SummaryFromLines' /\ VerifiedIsSealedPrefix'
  BY DEF StoredOK, SummaryFromLines, VerifiedIsSealedPrefix, Accepted
<1>3. QED
  BY <1>1, <1>2 DEF IndInv

(* An upload that is accepted, now that its summary is known to be true.   *)
LEMMA Accepts ==
  ASSUME TypeOK', pc' = "extracting", pos' = 0, Accepted', SummaryTrue', LongBeyond',
         VerifiedIsSealedPrefix', events' = {}, denials' = {}
  PROVE  IndInv'
<1>1. WritingOK' /\ ParsingOK' /\ VerifyingOK' /\ ReadersAgree' /\ SummaryFromLines'
  BY DEF WritingOK, ParsingOK, VerifyingOK, ReadersAgree, SummaryFromLines
<1>2. StoredOK'
  <2>1. Len(file') \in Nat
    BY DEF TypeOK
  <2>2. 0 <= Len(file') /\ Solid(0)' = 0 /\ Decoded(1..0)' = {}
    <3>1. Solid(0)' = 0
      <4>1. {j \in 1..0 : file'[j].form # "blank"} = {}
        OBVIOUS
      <4>2. QED
        BY <4>1, FS_EmptySet DEF Solid
    <3>2. QED
      BY <2>1, <3>1 DEF Decoded, ActionsOf
  <2>3. QED
    BY <2>1, <2>2 DEF StoredOK, Decoded, ActionsOf, Solid
<1>3. QED
  BY <1>1, <1>2 DEF IndInv

(* What the end of the scan leaves in the summary. *)
LEMMA FinalFields ==
  ASSUME TypeOK, s' = Final
  PROVE  /\ s' \in Summary /\ s'.run = s.run
         /\ (s'.chain <=> s.chain /\ s.sawAction)
         /\ (s'.truncated <=> s.truncated \/ AtLimit \/ (AtEnd /\ broken))
<1>1. s \in Summary
  BY DEF TypeOK
<1>2. QED
  BY <1>1 DEF Final, Summary

LEMMA EndScanKeeps ==
  ASSUME IndInv, EndScan
  PROVE  IndInv'
<1>1. /\ TypeOK /\ ParsingOK /\ pc = "parsing" /\ s' = Final /\ (TooLong \/ AtLimit \/ AtEnd)
      /\ UNCHANGED <<config, sealed, file, broken, faults, kept, prev, events, denials>>
      /\ UNCHANGED trace
  BY DEF IndInv, EndScan, trace
<1>2. /\ s' \in Summary /\ s'.run = s.run
      /\ (s'.chain <=> s.chain /\ s.sawAction)
      /\ (s'.truncated <=> s.truncated \/ AtLimit \/ (AtEnd /\ broken))
  BY <1>1, FinalFields
<1>3. ScannedTo(pos) /\ KeptTo(pos) /\ Unread /\ result = "none"
  BY <1>1 DEF ParsingOK
<1>4. ASSUME NEW r \in Results, Finish(r)
      PROVE  TypeOK'
  <2>1. pos' \in 0..MaxLines /\ pc' \in {"extracting", "done"} /\ result' \in Results
    BY <1>1, <1>4 DEF Finish, TypeOK
  <2>2. QED
    BY <1>1, <1>2, <2>1 DEF TypeOK
<1>5. CASE Finish("too_large") \/ Finish("empty") \/ Finish("missing_run_start")
           \/ Finish("chain_expected")
  <2>1. TypeOK'
    BY <1>4, <1>5 DEF Results
  <2>2. pc' = "done" /\ ~Accepted'
    BY <1>5 DEF Finish, Accepted
  <2>3. QED
    BY <2>1, <2>2, Rejects
<1>6. CASE ~TooLong /\ s.run # NoRun /\ Finish("accepted")
  <2>1. SummaryTrue' /\ LongBeyond'
    BY <1>1, <1>6, ScanEnds
  <2>2. TypeOK'
    BY <1>4, <1>6 DEF Results
  <2>3. pc' = "extracting" /\ pos' = 0 /\ Accepted' /\ result' = "accepted"
    BY <1>6 DEF Finish, Accepted
  <2>4. VerifiedIsSealedPrefix'
    BY <2>3 DEF VerifiedIsSealedPrefix
  <2>5. events' = {} /\ denials' = {}
    BY <1>1, <1>3 DEF Unread
  <2>6. QED
    BY <2>1, <2>2, <2>3, <2>4, <2>5, Accepts
<1>7. CASE /\ ~TooLong /\ s.run # NoRun /\ HasKey /\ Final.chain /\ ~Final.truncated
           /\ pc' = "verifying" /\ UNCHANGED <<pos, result>>
  <2>1. SummaryTrue' /\ LongBeyond'
    BY <1>1, <1>7, ScanEnds
  <2>2. TypeOK'
    BY <1>1, <1>2, <1>7 DEF TypeOK
  <2>3. pos = Len(file) /\ pos \in Nat
    BY <1>1, <1>2, <1>7 DEF AtEnd, TypeOK
  <2>4. s'.chain /\ ~s'.truncated /\ s'.run \in Runs
    BY <1>1, <1>2, <1>7 DEF Summary
  <2>5. KeptTo(Len(file))'
    <3>1. \A p : Solid(p)' = Solid(p)
      BY <1>1, FileKept
    <3>2. Solid(Len(file))' = Solid(Len(file)) /\ file' = file /\ kept' = kept /\ HasKey' = HasKey
      BY <1>1 DEF Solid, HasKey
    <3>3. QED
      BY <1>3, <2>3, <3>1, <3>2 DEF KeptTo
  <2>6. prev' = [mac |-> NoMac, checked |-> 0] /\ Len(kept') \in Nat /\ HasKey' /\ result' = "none"
        /\ events' = {} /\ denials' = {}
    BY <1>1, <1>3, <1>7 DEF Unread, TypeOK, HasKey
  <2>7. VerifyingOK'
    BY <2>1, <2>4, <2>5, <2>6 DEF VerifyingOK
  <2>8. WritingOK' /\ ParsingOK' /\ StoredOK' /\ SummaryFromLines' /\ VerifiedIsSealedPrefix'
        /\ ReadersAgree'
    BY <1>7, <2>6 DEF WritingOK, ParsingOK, StoredOK, SummaryFromLines, VerifiedIsSealedPrefix,
       ReadersAgree, Accepted
  <2>9. QED
    BY <2>2, <2>7, <2>8 DEF IndInv
<1>8. QED
  BY <1>5, <1>6, <1>7 DEF EndScan

(***************************************************************************)
(* verifyChain.                                                            *)
(***************************************************************************)

LEMMA SummaryStays ==
  ASSUME UNCHANGED <<s, file, broken>>
  PROVE  SummaryTrue' = SummaryTrue
<1>1. /\ Counted' = Counted /\ Actions' = Actions /\ StartsOf(Counted)' = StartsOf(Counted)
      /\ ActionsOf(Counted)' = ActionsOf(Counted)
      /\ \A f : EndsOf(Counted, f)' = EndsOf(Counted, f)
  BY DEF Counted, Actions, StartsOf, EndsOf, ActionsOf, Solid
<1>2. FirstStart(Counted)' = FirstStart(Counted)
  BY <1>1 DEF FirstStart
<1>3. CountsExactly(Counted)' = CountsExactly(Counted)
  BY <1>1 DEF CountsExactly
<1>4. QED
  BY <1>1, <1>2, <1>3 DEF SummaryTrue

LEMMA VerifyLineKeeps ==
  ASSUME IndInv, VerifyLine
  PROVE  IndInv'
<1> DEFINE l == kept[prev.checked + 1]
           computed == MacOf(s.run, l.body, prev.mac)
<1>1. /\ TypeOK /\ VerifyingOK /\ pc = "verifying" /\ prev.checked < Len(kept)
      /\ UNCHANGED <<config, sealed, file, broken, faults, s, kept, events, denials>>
  BY DEF IndInv, VerifyLine, trace
<1>2. CASE /\ l.mac \notin {NoMac, BadMac} /\ l.mac = computed
           /\ prev' = [mac |-> computed, checked |-> prev.checked + 1]
           /\ UNCHANGED <<pc, pos, result>>
  <2>1. /\ s.run \in Runs /\ prev.checked \in Nat /\ Len(kept) \in Nat
        /\ prev.mac = IF prev.checked = 0 THEN NoMac ELSE <<s.run, prev.checked>>
        /\ KeptTo(Len(file)) /\ HasKey
    BY <1>1 DEF VerifyingOK, TypeOK
  <2>2. Len(sealed[s.run]) \in Nat
    BY <1>1, <2>1 DEF TypeOK
  <2>3. s.run # NoRun /\ computed # BadMac
    BY <1>2, <2>1
  <2>4. /\ computed = <<s.run, prev.checked + 1>>
        /\ prev.checked + 1 <= Len(sealed[s.run])
        /\ sealed[s.run][prev.checked + 1] = l.body
    <3>1. /\ prev.checked # 0 => /\ prev.mac # NoMac /\ prev.mac[1] = s.run
                                 /\ prev.mac[2] = prev.checked
          /\ prev.checked = 0 => prev.mac = NoMac
      BY <2>1 DEF NoMac
    <3>2. (IF prev.mac = NoMac THEN 1 ELSE prev.mac[2] + 1) = prev.checked + 1
      BY <2>1, <3>1
    <3>3. QED
      BY <2>3, <3>2 DEF MacOf
  <2>5. prev.checked + 1 \in 1..MaxLines
    <3>1. Len(kept) = Solid(Len(file)) /\ Len(file) \in Nat /\ Len(file) <= MaxLines
      BY <1>1, <2>1 DEF KeptTo, TypeOK
    <3>2. Solid(Len(file)) <= Len(file) /\ Solid(Len(file)) \in Nat
      BY <3>1, SolidMonotonic, SolidStep
    <3>3. QED
      BY <1>1, <2>1, <3>1, <3>2
  <2>6. TypeOK'
    <3>1. computed \in Macs /\ prev' \in [mac : Macs, checked : 0..MaxLines]
      BY <1>2, <2>1, <2>4, <2>5 DEF Macs
    <3>2. QED
      BY <1>1, <1>2, <3>1 DEF TypeOK
  <2>7. VerifyingOK'
    <3>1. /\ prev'.checked = prev.checked + 1 /\ prev'.mac = <<s.run, prev'.checked>>
          /\ prev'.checked <= Len(kept) /\ prev'.checked # 0
      BY <1>1, <1>2, <2>1, <2>4
    <3>2. \A n \in 1..prev'.checked : n <= Len(sealed[s.run]) /\ kept[n].body = sealed[s.run][n]
      <4>1. \A n \in 1..prev.checked : n <= Len(sealed[s.run]) /\ kept[n].body = sealed[s.run][n]
        BY <1>1 DEF VerifyingOK
      <4>2. 1..(prev.checked + 1) = 1..prev.checked \cup {prev.checked + 1}
        BY <2>1, PrefixSplit
      <4>3. QED
        BY <2>4, <3>1, <4>1, <4>2
    <3>3. SummaryTrue' /\ KeptTo(Len(file))'
      <4>1. SummaryTrue'
        BY <1>1, SummaryStays DEF VerifyingOK
      <4>2. KeptTo(Len(file))'
        BY <1>1, <2>1 DEF KeptTo, HasKey, Solid
      <4>3. QED
        BY <4>1, <4>2
    <3>4. QED
      BY <1>1, <1>2, <3>1, <3>2, <3>3 DEF VerifyingOK, HasKey
  <2>8. WritingOK' /\ ParsingOK' /\ StoredOK' /\ SummaryFromLines' /\ VerifiedIsSealedPrefix'
        /\ ReadersAgree'
    <3>1. pc' = "verifying" /\ result' = "none"
      BY <1>1, <1>2 DEF VerifyingOK
    <3>2. QED
      BY <3>1 DEF WritingOK, ParsingOK, StoredOK, SummaryFromLines, VerifiedIsSealedPrefix,
         ReadersAgree, Accepted
  <2>9. QED
    BY <2>6, <2>7, <2>8 DEF IndInv
<1>3. CASE Finish("chain_broken") /\ UNCHANGED prev
  <2>1. pc' = "done" /\ ~Accepted' /\ pos' \in 0..MaxLines /\ result' \in Results
    BY <1>3 DEF Finish, Accepted, Results
  <2>2. TypeOK'
    BY <1>1, <1>3, <2>1 DEF TypeOK
  <2>3. QED
    BY <2>1, <2>2, Rejects
<1>4. QED
  BY <1>2, <1>3 DEF VerifyLine

LEMMA ChainHoldsKeeps ==
  ASSUME IndInv, ChainHolds
  PROVE  IndInv'
<1>1. /\ TypeOK /\ VerifyingOK /\ pc = "verifying" /\ prev.checked = Len(kept)
      /\ Finish("verified")
      /\ UNCHANGED <<config, sealed, file, broken, faults, s, kept, prev, events, denials>>
  BY DEF IndInv, ChainHolds, trace
<1>2. /\ SummaryTrue /\ s.chain /\ ~s.truncated /\ HasKey /\ KeptTo(Len(file)) /\ s.run \in Runs
      /\ events = {} /\ denials = {} /\ Len(file) \in Nat
      /\ \A n \in 1..Len(kept) : n <= Len(sealed[s.run]) /\ kept[n].body = sealed[s.run][n]
  BY <1>1 DEF VerifyingOK, TypeOK
<1>3. pc' = "extracting" /\ pos' = 0 /\ Accepted' /\ result' = "verified"
  BY <1>1 DEF Finish, Accepted
<1>4. TypeOK'
  BY <1>1, <1>3 DEF TypeOK, Results
<1>5. SummaryTrue'
  BY <1>1, <1>2, SummaryStays
<1>6. LongBeyond'
  <2>1. \A i \in 1..Len(file) : file[i].form # "long"
    BY <1>2 DEF SummaryTrue
  <2>2. QED
    BY <1>1, <2>1 DEF LongBeyond
<1>7. ASSUME NEW i \in 1..Len(file), file[i].form # "blank"
      PROVE  Solid(i) <= Len(sealed[s.run]) /\ file[i].body = sealed[s.run][Solid(i)]
  <2>1. i \in Nat /\ 0 < i /\ i <= Len(file)
    BY <1>2
  <2>2. Solid(0) + 1 <= Solid(i) /\ Solid(0) = 0
    BY <1>7, <2>1, SolidGrows, SolidStep
  <2>3. Solid(i) <= Solid(Len(file)) /\ Solid(i) \in Nat /\ Solid(Len(file)) \in Nat
    BY <1>2, <2>1, SolidMonotonic, SolidStep
  <2>4. Len(kept) = Solid(Len(file)) /\ kept[Solid(i)] = file[i]
    BY <1>2, <1>7 DEF KeptTo
  <2>5. Solid(i) \in 1..Len(kept)
    BY <2>2, <2>3, <2>4
  <2>6. QED
    BY <1>2, <2>4, <2>5
<1>8. VerifiedIsSealedPrefix'
  <2>1. \A i : Solid(i)' = Solid(i)
    BY <1>1, FileKept
  <2>2. QED
    BY <1>1, <1>2, <1>7, <2>1 DEF VerifiedIsSealedPrefix
<1>9. QED
  BY <1>1, <1>2, <1>3, <1>4, <1>5, <1>6, <1>8, Accepts

(***************************************************************************)
(* The readers of what was stored.                                         *)
(***************************************************************************)

(* They change neither the trace nor what was said of it. *)
LEMMA ReadersOnlyRead ==
  ASSUME IndInv, UNCHANGED <<config, trace, s, result>>,
         pc \in {"extracting", "detecting"}, pc' \in {"extracting", "detecting", "done"}
  PROVE  /\ WritingOK' /\ ParsingOK' /\ VerifyingOK' /\ SummaryFromLines' /\ VerifiedIsSealedPrefix'
         /\ Accepted /\ Accepted' /\ SummaryTrue /\ LongBeyond /\ LongBeyond'
<1>1. WritingOK' /\ ParsingOK' /\ VerifyingOK'
  BY DEF WritingOK, ParsingOK, VerifyingOK
<1>2. Accepted /\ Accepted' /\ SummaryTrue /\ LongBeyond
  BY DEF IndInv, StoredOK, SummaryFromLines, Accepted
<1>3. file' = file /\ broken' = broken /\ sealed' = sealed /\ s' = s /\ result' = result
  BY DEF trace
<1>4. LongBeyond' /\ \A i : Solid(i)' = Solid(i)
  BY <1>2, <1>3, FileKept
<1>5. SummaryFromLines'
  BY <1>2, <1>3, SummaryStays DEF SummaryFromLines
<1>6. VerifiedIsSealedPrefix'
  BY <1>3, <1>4 DEF IndInv, VerifiedIsSealedPrefix
<1>7. QED
  BY <1>1, <1>2, <1>4, <1>5, <1>6

LEMMA ExtractLineKeeps ==
  ASSUME IndInv, ExtractLine
  PROVE  IndInv'
<1> DEFINE l == file[pos + 1]
<1>1. /\ TypeOK /\ pc = "extracting" /\ pc' = "extracting" /\ pos < Len(file)
      /\ Solid(pos) < MaxEvents /\ pos' = pos + 1
      /\ events' = IF Simulated(l) THEN events \cup {pos + 1} ELSE events
      /\ UNCHANGED <<config, sealed, file, broken, faults, s, kept, prev, result, denials>>
      /\ UNCHANGED trace
  BY DEF IndInv, ExtractLine, trace, Next1, Seen, Solid
<1>2. /\ pos \in Nat /\ Len(file) \in Nat /\ pos + 1 \in 1..Len(file) /\ pos + 1 \in 1..MaxLines
  BY <1>1, NextLine
<1>3. /\ WritingOK' /\ ParsingOK' /\ VerifyingOK' /\ SummaryFromLines' /\ VerifiedIsSealedPrefix'
      /\ Accepted' /\ LongBeyond'
  BY <1>1, ReadersOnlyRead
<1>4. events = Decoded(1..pos) /\ denials = {}
  BY <1>1 DEF IndInv, StoredOK
<1>5. TypeOK'
  BY <1>1, <1>2 DEF TypeOK
<1>6. Solid(pos + 1) <= MaxEvents
  <2>1. /\ Solid(pos) \in Nat
        /\ Solid(pos + 1) = IF file[pos + 1].form = "blank" THEN Solid(pos) ELSE Solid(pos) + 1
    BY <1>2, SolidStep
  <2>2. QED
    BY <1>1, <2>1
<1>7. events' = Decoded(1..(pos + 1))
  BY <1>1, <1>2, <1>4, LineMore
<1>8. StoredOK'
  <2>1. Solid(pos)' = Solid(pos + 1) /\ Decoded(1..pos)' = Decoded(1..(pos + 1))
    BY <1>1 DEF Solid, Decoded, Simulated
  <2>2. QED
    <3>1. pc' = "extracting" /\ pos' <= Len(file') /\ denials' = {}
      BY <1>1, <1>2, <1>4
    <3>2. Solid(pos)' <= MaxEvents /\ events' = Decoded(1..pos)'
      BY <1>6, <1>7, <2>1
    <3>3. QED
      BY <1>3, <3>1, <3>2 DEF StoredOK
<1>9. ReadersAgree'
  BY <1>1 DEF ReadersAgree
<1>10. QED
  BY <1>3, <1>5, <1>8, <1>9 DEF IndInv

LEMMA EndExtractKeeps ==
  ASSUME IndInv, EndExtract
  PROVE  IndInv'
<1>1. /\ TypeOK /\ pc = "extracting" /\ pc' = "detecting" /\ pos' = 0
      /\ ~(pos < Len(file) /\ Solid(pos) < MaxEvents /\ Next1.form # "long")
      /\ UNCHANGED <<config, sealed, file, broken, faults, s, kept, prev, result, events, denials>>
      /\ UNCHANGED trace
  BY DEF IndInv, EndExtract, trace, Seen, Solid
<1>2. /\ WritingOK' /\ ParsingOK' /\ VerifyingOK' /\ SummaryFromLines' /\ VerifiedIsSealedPrefix'
      /\ Accepted' /\ LongBeyond /\ LongBeyond'
  BY <1>1, ReadersOnlyRead
<1>3. /\ pos <= Len(file) /\ Solid(pos) <= MaxEvents /\ events = Decoded(1..pos) /\ denials = {}
      /\ pos \in Nat /\ Len(file) \in Nat
  BY <1>1 DEF IndInv, StoredOK, TypeOK
<1>4. pos = Len(file) \/ Solid(pos) >= MaxEvents
  <2>1. CASE pos < Len(file) /\ Next1.form = "long"
    <3>1. (pos + 1) \in 1..Len(file) /\ (pos + 1) - 1 = pos /\ Next1 = file[pos + 1]
      BY <1>3, <2>1 DEF Next1
    <3>2. QED
      BY <1>2, <2>1, <3>1 DEF LongBeyond
  <2>2. CASE pos < Len(file) /\ ~(Solid(pos) < MaxEvents)
    <3>1. Solid(pos) \in Nat
      BY <1>3, SolidStep
    <3>2. QED
      BY <2>2, <3>1
  <2>3. QED
    BY <1>1, <1>3, <2>1, <2>2
<1>5. Counted = {i \in 1..pos : file[i].form # "blank"}
  BY <1>3, <1>4, CountedIsScanned
<1>6. events = Decoded(Counted)
  BY <1>3, <1>5 DEF Decoded, Simulated
<1>7. TypeOK'
  BY <1>1 DEF TypeOK
<1>8. StoredOK'
  <2>1. Decoded(Counted)' = Decoded(Counted)
    BY <1>1 DEF Decoded, Simulated, Counted, Solid
  <2>2. DeniedTo(pos)' = {}
    BY <1>1 DEF DeniedTo
  <2>3. QED
    BY <1>1, <1>2, <1>3, <1>6, <2>1, <2>2 DEF StoredOK
<1>9. ReadersAgree'
  BY <1>1 DEF ReadersAgree
<1>10. QED
  BY <1>2, <1>7, <1>8, <1>9 DEF IndInv

LEMMA DetectLineKeeps ==
  ASSUME IndInv, DetectLine
  PROVE  IndInv'
<1> DEFINE l == file[pos + 1]
<1>1. /\ TypeOK /\ pc = "detecting" /\ pc' = "detecting" /\ pos < Len(file) /\ pos' = pos + 1
      /\ denials' = IF DeniedLine(l) THEN denials \cup {pos + 1} ELSE denials
      /\ UNCHANGED <<config, sealed, file, broken, faults, s, kept, prev, result, events>>
      /\ UNCHANGED trace
  BY DEF IndInv, DetectLine, trace, Next1
<1>2. /\ pos \in Nat /\ Len(file) \in Nat /\ pos + 1 \in 1..Len(file) /\ pos + 1 \in 1..MaxLines
  BY <1>1, NextLine
<1>3. /\ WritingOK' /\ ParsingOK' /\ VerifyingOK' /\ SummaryFromLines' /\ VerifiedIsSealedPrefix'
      /\ Accepted' /\ LongBeyond'
  BY <1>1, ReadersOnlyRead
<1>4. events = Decoded(Counted) /\ denials = DeniedTo(pos)
  BY <1>1 DEF IndInv, StoredOK
<1>5. TypeOK'
  BY <1>1, <1>2 DEF TypeOK
<1>6. denials' = DeniedTo(pos + 1)
  BY <1>1, <1>2, <1>4, LineMore
<1>7. StoredOK'
  <2>1. Decoded(Counted)' = Decoded(Counted)
    BY <1>1 DEF Decoded, Simulated, Counted, Solid
  <2>2. DeniedTo(pos)' = DeniedTo(pos + 1)
    BY <1>1 DEF DeniedTo, DeniedLine
  <2>3. QED
    <3>1. pc' = "detecting" /\ pos' <= Len(file')
      BY <1>1, <1>2
    <3>2. denials' = DeniedTo(pos)'
      BY <1>6, <2>2
    <3>3. events' = Decoded(Counted)'
      BY <1>1, <1>4, <2>1
    <3>4. QED
      BY <1>3, <3>1, <3>2, <3>3 DEF StoredOK
<1>8. ReadersAgree'
  BY <1>1 DEF ReadersAgree
<1>9. QED
  BY <1>3, <1>5, <1>7, <1>8 DEF IndInv

LEMMA EndDetectKeeps ==
  ASSUME IndInv, EndDetect
  PROVE  IndInv'
<1>1. /\ TypeOK /\ pc = "detecting" /\ pc' = "done"
      /\ ~(pos < Len(file) /\ Next1.form # "long")
      /\ denials' = IF pos < Len(file) \/ broken THEN {} ELSE denials
      /\ UNCHANGED <<config, sealed, file, broken, faults, pos, s, kept, prev, result, events>>
      /\ UNCHANGED trace
  BY DEF IndInv, EndDetect, trace
<1>2. /\ WritingOK' /\ ParsingOK' /\ VerifyingOK' /\ SummaryFromLines' /\ VerifiedIsSealedPrefix'
      /\ Accepted' /\ SummaryTrue /\ LongBeyond'
  BY <1>1, ReadersOnlyRead
<1>3. /\ pos <= Len(file) /\ events = Decoded(Counted) /\ denials = DeniedTo(pos)
      /\ pos \in Nat /\ Len(file) \in Nat
  BY <1>1 DEF IndInv, StoredOK, TypeOK
<1>4. TypeOK'
  BY <1>1 DEF TypeOK
<1>5. StoredOK'
  BY <1>1, <1>2 DEF StoredOK
<1>6. ASSUME ~s.truncated
      PROVE  denials' = {i \in Counted : DeniedLine(file[i])}
  <2>1. /\ ~broken
        /\ \A i \in 1..Len(file) :
             file[i].form = "blank" \/ (i \in Counted /\ file[i].form = "object")
    BY <1>2, <1>6 DEF SummaryTrue
  <2>2. pos = Len(file)
    <3>1. ASSUME pos < Len(file) PROVE FALSE
      <4>1. pos + 1 \in 1..Len(file) /\ file[pos + 1].form = "long"
        BY <1>1, <1>3, <3>1 DEF Next1
      <4>2. QED
        BY <2>1, <4>1
    <3>2. QED
      BY <1>3, <3>1
  <2>3. denials' = DeniedTo(Len(file))
    BY <1>1, <1>3, <2>1, <2>2
  <2>4. ASSUME NEW i \in 1..Len(file), DeniedLine(file[i]) PROVE i \in Counted
    BY <2>1, <2>4 DEF DeniedLine
  <2>5. Counted \subseteq 1..Len(file)
    BY DEF Counted
  <2>6. QED
    BY <2>3, <2>4, <2>5 DEF DeniedTo
<1>7. ASSUME \A i \in 1..Len(file) : Plain(file[i].body)
      PROVE  /\ events \subseteq Actions
             /\ ~s.truncated => denials' \subseteq Actions /\ Cardinality(denials') <= s.denied
  <2>1. ASSUME NEW i \in Counted, Simulated(file[i]) PROVE i \in Actions
    <3>1. i \in 1..Len(file)
      BY DEF Counted
    <3>2. QED
      BY <1>7, <2>1, <3>1 DEF Simulated, Plain, Actions, ActionsOf
  <2>2. ASSUME ~s.truncated
        PROVE  denials' \subseteq {i \in Actions : file[i].body.auth \in Denied}
    <3>1. ASSUME NEW i \in Counted, DeniedLine(file[i])
          PROVE  i \in Actions /\ file[i].body.auth \in Denied
      <4>1. i \in 1..Len(file) /\ file[i].form # "blank"
        BY DEF Counted
      <4>2. file[i].form = "object"
        BY <1>2, <2>2, <4>1 DEF SummaryTrue
      <4>3. file[i].body.t = "action" /\ file[i].body.auth = "deny"
        BY <1>7, <3>1, <4>1 DEF DeniedLine, Plain
      <4>4. QED
        BY <4>2, <4>3 DEF Actions, ActionsOf, Denied
    <3>2. QED
      BY <1>6, <2>2, <3>1
  <2>3. ASSUME ~s.truncated
        PROVE  Cardinality(denials') <= s.denied
    <3> DEFINE D == {i \in Actions : file[i].body.auth \in Denied}
    <3>1. D \in SUBSET (1..Len(file)) /\ s.denied = Cardinality(D)
      BY <1>2 DEF SummaryTrue, CountsExactly, Actions, ActionsOf, Counted
    <3>2. denials' \subseteq D
      BY <2>2, <2>3
    <3> HIDE DEF D
    <3>3. IsFiniteSet(D)
      BY <1>3, <3>1, FinitePart
    <3>4. Cardinality(denials') <= Cardinality(D)
      BY <3>2, <3>3, FS_Subset
    <3>5. QED
      BY <3>1, <3>4
  <2>4. QED
    BY <1>3, <2>1, <2>2, <2>3 DEF Decoded
<1>8. ReadersAgree'
  <2>1. /\ Counted' = Counted /\ Actions' = Actions
        /\ {i \in Counted : Simulated(file[i])}' = {i \in Counted : Simulated(file[i])}
        /\ {i \in Counted : DeniedLine(file[i])}' = {i \in Counted : DeniedLine(file[i])}
        /\ (\A i \in 1..Len(file) : Plain(file[i].body))'
             <=> \A i \in 1..Len(file) : Plain(file[i].body)
    BY <1>1, FileKept DEF Simulated, DeniedLine, Plain
  <2>2. events' = {i \in Counted : Simulated(file[i])} /\ s' = s
    BY <1>1, <1>3 DEF Decoded
  <2>3. QED
    BY <1>1, <1>6, <1>7, <2>1, <2>2 DEF ReadersAgree
<1>9. QED
  BY <1>2, <1>4, <1>5, <1>8 DEF IndInv

(***************************************************************************)
(* The theorems.                                                           *)
(***************************************************************************)
LEMMA InitHolds ==
  ASSUME Init
  PROVE  IndInv
<1>1. TypeOK
  <2>1. s \in Summary
    BY DEF Init, Summary, Fresh
  <2>2. prev \in [mac : Macs, checked : 0..MaxLines] /\ kept \in Seq(Lines) /\ file \in Seq(Lines)
        /\ Len(file) = 0
    BY DEF Init, Macs
  <2>3. sealed \in [Runs -> Seq(Bodies)]
    BY DEF Init
  <2>4. config \in Configs /\ broken \in BOOLEAN /\ pc = "writing"
    BY DEF Init
  <2>5. result \in Results /\ events \subseteq 1..MaxLines /\ denials \subseteq 1..MaxLines
    BY DEF Init, Results
  <2>6. faults \in 0..MaxFaults /\ pos \in 0..MaxLines /\ Len(file) <= MaxLines
    <3>1. MaxFaults \in Nat /\ MaxLines \in Nat /\ faults = 0 /\ pos = 0
      BY DEF Init
    <3>2. QED
      BY <2>2, <3>1
  <2>7. QED
    BY <2>1, <2>2, <2>3, <2>4, <2>5, <2>6 DEF TypeOK
<1>2. WritingOK
  BY DEF Init, WritingOK, Unread
<1>3. QED
  BY <1>1, <1>2 DEF Init, IndInv, ParsingOK, VerifyingOK, StoredOK, SummaryFromLines,
     VerifiedIsSealedPrefix, ReadersAgree, Accepted

(* Nothing that is said of the trace depends on anything but the variables. *)
LEMMA StutterKeeps ==
  ASSUME IndInv, UNCHANGED vars
  PROVE  IndInv'
<1>1. UNCHANGED <<config, sealed, file, broken, faults, pc, pos, s, kept, prev, result, events,
                  denials>>
  BY DEF vars, trace
<1>2. TypeOK' /\ WritingOK'
  BY <1>1 DEF IndInv, TypeOK, WritingOK, Unread
<1>3. SummaryTrue' = SummaryTrue /\ (LongBeyond' <=> LongBeyond) /\ Accepted' = Accepted
  BY <1>1, SummaryStays, FileKept DEF Accepted
<1>4. ScannedTo(pos)' = ScannedTo(pos) /\ KeptTo(pos)' = KeptTo(pos)
  <2>1. /\ StartsOf(1..pos)' = StartsOf(1..pos) /\ \A f : EndsOf(1..pos, f)' = EndsOf(1..pos, f)
        /\ ActionsOf(1..pos)' = ActionsOf(1..pos) /\ Solid(pos)' = Solid(pos)
    BY <1>1 DEF StartsOf, EndsOf, ActionsOf, Solid
  <2>2. FirstStart(1..pos)' = FirstStart(1..pos)
    BY <1>1, <2>1 DEF FirstStart
  <2>3. CountsExactly(1..pos)' = CountsExactly(1..pos)
    BY <1>1, <2>1 DEF CountsExactly
  <2>4. ScannedTo(pos)' = ScannedTo(pos)
    BY <1>1, <2>1, <2>2, <2>3 DEF ScannedTo
  <2>5. KeptTo(pos)' = KeptTo(pos)
    BY <1>1 DEF KeptTo, HasKey, Solid
  <2>6. QED
    BY <2>4, <2>5
<1>5. ParsingOK'
  BY <1>1, <1>4 DEF IndInv, ParsingOK, Unread, ActionsOf
<1>6. VerifyingOK'
  <2>1. KeptTo(Len(file))' = KeptTo(Len(file)) /\ HasKey' = HasKey
    BY <1>1 DEF KeptTo, HasKey, Solid
  <2>2. QED
    BY <1>1, <1>3, <2>1 DEF IndInv, VerifyingOK
<1>7. StoredOK'
  <2>1. /\ Solid(pos)' = Solid(pos) /\ Decoded(1..pos)' = Decoded(1..pos)
        /\ Decoded(Counted)' = Decoded(Counted) /\ DeniedTo(pos)' = DeniedTo(pos)
    BY <1>1 DEF Solid, Decoded, Simulated, Counted, DeniedTo, DeniedLine
  <2>2. QED
    BY <1>1, <1>3, <2>1 DEF IndInv, StoredOK
<1>8. SummaryFromLines' /\ VerifiedIsSealedPrefix'
  BY <1>1, <1>3 DEF IndInv, SummaryFromLines, VerifiedIsSealedPrefix, Solid
<1>9. ReadersAgree'
  <2>1. /\ Counted' = Counted /\ Actions' = Actions
        /\ {i \in Counted : Simulated(file[i])}' = {i \in Counted : Simulated(file[i])}
        /\ {i \in Counted : DeniedLine(file[i])}' = {i \in Counted : DeniedLine(file[i])}
        /\ (\A i \in 1..Len(file) : Plain(file[i].body))'
             <=> \A i \in 1..Len(file) : Plain(file[i].body)
    BY <1>1, FileKept DEF Simulated, DeniedLine, Plain
  <2>2. QED
    BY <1>1, <1>3, <2>1 DEF IndInv, ReadersAgree
<1>10. QED
  BY <1>2, <1>5, <1>6, <1>7, <1>8, <1>9 DEF IndInv

LEMMA StepKeeps ==
  ASSUME IndInv, [Next]_vars
  PROVE  IndInv'
<1>1. CASE Next
  BY <1>1, WritersKeep, UploadKeeps, ScanLineKeeps, EndScanKeeps, VerifyLineKeeps, ChainHoldsKeeps,
     ExtractLineKeeps, EndExtractKeeps, DetectLineKeeps, EndDetectKeeps DEF Next
<1>2. CASE UNCHANGED vars
  BY <1>2, StutterKeeps
<1>3. QED
  BY <1>1, <1>2

LEMMA Inductive == Spec => []IndInv
BY InitHolds, StepKeeps, PTL DEF Spec

(* Every variable keeps its type: the summary parse builds, the lines it   *)
(* keeps for the chain, and the MAC verifyChain has reached.               *)
THEOREM TypeCorrect == Spec => []TypeOK
<1>1. IndInv => TypeOK
  BY DEF IndInv
<1>2. QED
  BY <1>1, Inductive, PTL

(* Whatever was done to the file before parse accepts it, the summary      *)
(* names the first run that starts, takes exit, duration and end time each *)
(* from the last end that has it, counts exactly the action lines among    *)
(* the first MaxEvents lines, claims a chain iff each of them carries a    *)
(* MAC, and is marked truncated unless every line was read and decoded.    *)
THEOREM SummaryFaithful == Spec => []SummaryFromLines
<1>1. IndInv => SummaryFromLines
  BY DEF IndInv
<1>2. QED
  BY <1>1, Inductive, PTL

(* The lines of a trace that verifyChain passed are, in order, the first   *)
(* lines the runtime sealed for the run the trace is filed under.          *)
THEOREM VerifiedMeansSealed == Spec => []VerifiedIsSealedPrefix
<1>1. IndInv => VerifiedIsSealedPrefix
  BY DEF IndInv
<1>2. QED
  BY <1>1, Inductive, PTL

(* For a file of any length with any faults: ExtractActionEvents gathers,  *)
(* of the lines parse counted, exactly those that its own decoding takes   *)
(* for actions; parseDeniedToolsNDJSON, of a trace not marked truncated,   *)
(* exactly those its decoding takes for denials; and where keys have one   *)
(* spelling and "type" is not used, both find actions of the summary, and  *)
(* governance no more denials than the summary has.                        *)
THEOREM ReadersAgreeOnTrace == Spec => []ReadersAgree
<1>1. IndInv => ReadersAgree
  BY DEF IndInv
<1>2. QED
  BY <1>1, Inductive, PTL

=============================================================================
