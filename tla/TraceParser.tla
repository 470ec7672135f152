----------------------------- MODULE TraceParser -----------------------------
(***************************************************************************)
(* A trace on its way from the runtime into the platform: the runtime      *)
(* seals each line with a MAC over the line and the MAC before it, the     *)
(* file may lose, repeat, swap or change lines or break off, and three     *)
(* readers go through it line by line: trace.ParseAndVerify on upload,     *)
(* which decides what the platform says of the run, and, on the bytes it   *)
(* stored, trace.ExtractActionEvents (simulation) and                      *)
(* parseDeniedToolsNDJSON (governance).                                    *)
(*                                                                         *)
(* The three do not decode a line the same way.  parse looks keys up in a  *)
(* map, by their exact names and one at a time; the other two unmarshal    *)
(* into structs of their own, which takes a key in any case, the last one  *)
(* that matches, and fails as a whole on one field of the wrong type.      *)
(* Governance also reads "type" for "t", and trims Unicode blanks.         *)
(*                                                                         *)
(* HMAC-SHA256 is taken to be collision-free: the MAC of the i-th line     *)
(* sealed under the key of run r is the pair <<r, i>>, and recomputing a   *)
(* MAC gives it exactly for the same key, line and previous MAC.           *)
(***************************************************************************)
EXTENDS Naturals, Sequences, FiniteSets

CONSTANTS
  Runs,           \* run ids
  NoRun,          \* the empty string
  Bodies,         \* what a line says: records with the fields of BodyShapes
  MaxEvents,      \* MaxEvents of the parser and of ExtractActionEvents
  MaxLines,       \* bound: lines of the file
  MaxFaults,      \* bound: faults of the file
  Configs         \* values of the trace key and RELIC_REQUIRE_SEALED_TRACES

EndFields == {"exit", "ms", "ts"}
Verdicts  == {"allow", "deny", "audit_deny", "would_deny"}

(* What parse finds under the keys "t", "status", "run" and "auth", and    *)
(* which of the fields of a run's end are there and valid; what a struct   *)
(* finds under "t" and "auth" in any case; whether "type" says "action";   *)
(* and into which of the two structs the line unmarshals.                  *)
BodyShapes ==
  [t : {"run", "action", "other"}, status : {"start", "end", "none"},
   run : Runs \cup {NoRun}, auth : Verdicts, has : SUBSET EndFields,
   lax : [t : {"action", "other"}, auth : Verdicts], type : BOOLEAN,
   fits : SUBSET {"simulate", "detect"}]

ASSUME TraceParserAssumption ==
  /\ NoRun \notin Runs
  /\ Bodies \subseteq BodyShapes
  /\ MaxEvents \in Nat \ {0} /\ MaxLines \in Nat /\ MaxFaults \in Nat
  /\ Configs \subseteq [key : {"unset", "valid", "unusable"}, require : BOOLEAN]

NoMac  == <<NoRun, 0>>   \* a line without hmac; also what precedes the first line
BadMac == <<NoRun, 1>>   \* an hmac that nothing the runtime sealed has
Macs   == (Runs \X (1..MaxLines)) \cup {NoMac, BadMac}

(* A line is a JSON object, such an object after a blank that JSON does    *)
(* not know, empty, not JSON, or longer than MaxEventSize.                 *)
Forms  == {"object", "padded", "blank", "malformed", "long"}
Lines  == [body : Bodies, mac : Macs, form : Forms]

VARIABLES
  config,    \* the server's configuration
  sealed,    \* per run: the bodies the runtime sealed, in order
  file,      \* the lines of the trace
  broken,    \* whether the gzip stream breaks off after them
  faults,    \* how many faults the file has met
  pc,        \* writing, parsing, verifying, extracting, detecting, done
  pos,       \* how many lines the reader has consumed
  s,         \* the Summary being built, with sawAction
  kept,      \* sealedLines
  prev,      \* prevHMAC of verifyChain, and how many lines it has checked
  result,    \* what parse returned
  events,    \* what ExtractActionEvents has gathered, as line numbers
  denials    \* what parseDeniedToolsNDJSON has counted, as line numbers

trace  == <<sealed, file, broken, faults>>
vars   == <<config, trace, pc, pos, s, kept, prev, result, events, denials>>

Summary == [run : Runs \cup {NoRun}, end : [EndFields -> 0..MaxLines],
            count : Nat, total : Nat, allowed : Nat, denied : Nat,
            chain : BOOLEAN, truncated : BOOLEAN, sawAction : BOOLEAN]
Fresh   == [run |-> NoRun, end |-> [f \in EndFields |-> 0], count |-> 0, total |-> 0,
            allowed |-> 0, denied |-> 0, chain |-> TRUE, truncated |-> FALSE, sawAction |-> FALSE]
Results == {"none", "verified", "accepted", "empty", "missing_run_start", "too_large",
            "chain_broken", "chain_expected"}

TypeOK ==
  /\ config \in Configs
  /\ sealed \in [Runs -> Seq(Bodies)]
  /\ file \in Seq(Lines) /\ Len(file) <= MaxLines
  /\ broken \in BOOLEAN /\ faults \in 0..MaxFaults
  /\ pc \in {"writing", "parsing", "verifying", "extracting", "detecting", "done"}
  /\ pos \in 0..MaxLines
  /\ s \in Summary
  /\ kept \in Seq(Lines)
  /\ prev \in [mac : Macs, checked : 0..MaxLines]
  /\ result \in Results
  /\ events \subseteq 1..MaxLines /\ denials \subseteq 1..MaxLines

Init ==
  /\ config \in Configs
  /\ sealed = [r \in Runs |-> <<>>] /\ file = <<>> /\ broken = FALSE /\ faults = 0
  /\ pc = "writing" /\ pos = 0
  /\ s = Fresh
  /\ kept = <<>> /\ prev = [mac |-> NoMac, checked |-> 0]
  /\ result = "none" /\ events = {} /\ denials = {}

reader == <<pc, pos, s, kept, prev, result, events, denials>>

(***************************************************************************)
(* The runtime, and what may happen to the file before it is uploaded.     *)
(***************************************************************************)
(* A line of a second run in the same file counts as a fault. *)
Foreign(r) == file # <<>> /\ file[1].mac[1] # r

Seal(r, b) ==
  /\ pc = "writing" /\ Len(file) < MaxLines /\ Len(sealed[r]) < MaxLines
  /\ sealed' = [sealed EXCEPT ![r] = Append(@, b)]
  /\ file' = Append(file, [body |-> b, mac |-> <<r, Len(sealed[r]) + 1>>, form |-> "object"])
  /\ \/ ~Foreign(r) /\ UNCHANGED faults
     \/ Foreign(r) /\ faults < MaxFaults /\ faults' = faults + 1
  /\ UNCHANGED <<config, broken, reader>>

(* A runtime that does not seal. *)
WriteUnsealed(b) ==
  /\ pc = "writing" /\ Len(file) < MaxLines /\ faults < MaxFaults
  /\ file' = Append(file, [body |-> b, mac |-> NoMac, form |-> "object"])
  /\ faults' = faults + 1
  /\ UNCHANGED <<config, sealed, broken, reader>>

Without(i) == [j \in 1..(Len(file) - 1) |-> IF j < i THEN file[j] ELSE file[j + 1]]
Swapped(i) == [file EXCEPT ![i] = file[i + 1], ![i + 1] = file[i]]
Variants(l) == {[l EXCEPT !.mac = m] : m \in {NoMac, BadMac}}
                 \cup {[l EXCEPT !.body = b] : b \in Bodies}
                 \cup {[l EXCEPT !.form = f] : f \in Forms \ {"object"}}

Fault ==
  /\ pc = "writing" /\ faults < MaxFaults /\ file # <<>>
  /\ faults' = faults + 1
  /\ \/ \E i \in 1..Len(file) : file' = Without(i) /\ UNCHANGED broken
     \/ \E i \in 1..(Len(file) - 1) : file' = Swapped(i) /\ UNCHANGED broken
     \/ /\ Len(file) < MaxLines
        /\ \E i \in 1..Len(file) : file' = Append(file, file[i]) /\ UNCHANGED broken
     \/ \E i \in 1..Len(file) : \E l \in Variants(file[i]) :
          file' = [file EXCEPT ![i] = l] /\ UNCHANGED broken
     \/ broken' = TRUE /\ UNCHANGED file
  /\ UNCHANGED <<config, sealed, reader>>

Upload ==
  /\ pc = "writing"
  /\ pc' = "parsing"
  /\ UNCHANGED <<config, trace, pos, s, kept, prev, result, events, denials>>

(***************************************************************************)
(* parse.                                                                  *)
(***************************************************************************)

(* loadTraceMasterSecret: a value that is not hex, or too short, is logged *)
(* and dropped.                                                            *)
HasKey == config.key = "valid"

Next1  == file[pos + 1]
Denied == {"deny", "audit_deny", "would_deny"}

(* applyRunEvent: the first start that names a run gives the identity;     *)
(* the exit code, the duration and the time of the end are each taken from *)
(* the last end that has a valid one, named here by its line.              *)
ApplyRunEvent(sum, b) ==
  CASE b.status = "start" /\ sum.run = NoRun -> [sum EXCEPT !.run = b.run]
    [] b.status = "end" -> [sum EXCEPT !.end = [f \in EndFields |-> IF f \in b.has THEN pos + 1 ELSE @[f]]]
    [] OTHER -> sum

ApplyActionEvent(sum, l) ==
  [sum EXCEPT !.total = @ + 1, !.sawAction = TRUE, !.chain = @ /\ l.mac # NoMac,
              !.denied = IF l.body.auth \in Denied THEN @ + 1 ELSE @,
              !.allowed = IF l.body.auth \in Denied THEN @ ELSE @ + 1]

(* One line that is kept: counted, then decoded. *)
Applied(sum, l) ==
  LET counted == [sum EXCEPT !.count = @ + 1]
  IN CASE l.form \in {"malformed", "padded"} -> [counted EXCEPT !.truncated = TRUE]
       [] l.form = "object" /\ l.body.t = "run"    -> ApplyRunEvent(counted, l.body)
       [] l.form = "object" /\ l.body.t = "action" -> ApplyActionEvent(counted, l)
       [] OTHER -> counted

(* Mutant of ScanLine: the limit is noticed one line late. *)
ScanLineLate ==
  /\ pc = "parsing" /\ pos < Len(file) /\ s.count <= MaxEvents /\ Next1.form # "long"
  /\ pos' = pos + 1
  /\ s' = IF Next1.form = "blank" THEN s ELSE Applied(s, Next1)
  /\ kept' = IF HasKey /\ Next1.form # "blank" THEN Append(kept, Next1) ELSE kept
  /\ UNCHANGED <<config, trace, pc, prev, result, events, denials>>

ScanLine ==
  /\ pc = "parsing" /\ pos < Len(file) /\ s.count < MaxEvents /\ Next1.form # "long"
  /\ pos' = pos + 1
  /\ s' = IF Next1.form = "blank" THEN s ELSE Applied(s, Next1)
  /\ kept' = IF HasKey /\ Next1.form # "blank" THEN Append(kept, Next1) ELSE kept
  /\ UNCHANGED <<config, trace, pc, prev, result, events, denials>>

(* How the scan ends: a line that is too long, the limit with a line left, *)
(* or the end of the stream, broken or not.                                *)
TooLong   == pos < Len(file) /\ Next1.form = "long"
AtLimit   == pos < Len(file) /\ ~TooLong /\ s.count >= MaxEvents
AtEnd     == pos = Len(file)
Final     == [s EXCEPT !.truncated = @ \/ AtLimit \/ (AtEnd /\ broken),
                       !.chain = @ /\ s.sawAction]

(* A rejected upload is not stored: nothing else reads it. *)
Finish(r) ==
  /\ result' = r
  /\ pos' = 0
  /\ pc' = IF r \in {"verified", "accepted"} THEN "extracting" ELSE "done"

EndScan ==
  /\ pc = "parsing" /\ (TooLong \/ AtLimit \/ AtEnd)
  /\ s' = Final
  /\ \/ TooLong /\ Finish("too_large")
     \/ ~TooLong /\ s.count = 0 /\ Finish("empty")
     \/ ~TooLong /\ s.count > 0 /\ s.run = NoRun /\ Finish("missing_run_start")
     \/ /\ ~TooLong /\ s.count > 0 /\ s.run # NoRun
        /\ \/ ~HasKey /\ Finish("accepted")
           \/ HasKey /\ ~Final.chain /\ config.require /\ Finish("chain_expected")
           \/ HasKey /\ ~Final.chain /\ ~config.require /\ Finish("accepted")
           \/ HasKey /\ Final.chain /\ Final.truncated /\ Finish("accepted")
           \/ HasKey /\ Final.chain /\ ~Final.truncated /\ pc' = "verifying"
                /\ UNCHANGED <<pos, result>>
  /\ UNCHANGED <<config, trace, kept, prev, events, denials>>

(* Mutant of MacOf: the previous MAC is not covered. *)
MacOfUnchained(r, b, m) ==
  IF \E i \in 1..Len(sealed[r]) : sealed[r][i] = b
  THEN CHOOSE x \in {r} \X (1..Len(sealed[r])) : sealed[r][x[2]] = b
  ELSE BadMac

(* hmac.New(key of run r) over the canonical line and the previous MAC: a  *)
(* value the runtime has computed if it sealed that line after that MAC.   *)
MacOf(r, b, m) ==
  LET n == IF m = NoMac THEN 1 ELSE m[2] + 1
  IN IF (m = NoMac \/ m[1] = r) /\ n <= Len(sealed[r]) /\ sealed[r][n] = b
     THEN <<r, n>>
     ELSE BadMac

(* verifyChain, one line: splitSealedLine fails without an hmac at its end.*)
VerifyLine ==
  /\ pc = "verifying" /\ prev.checked < Len(kept)
  /\ LET l == kept[prev.checked + 1]
         computed == MacOf(s.run, l.body, prev.mac)
     IN IF l.mac \notin {NoMac, BadMac} /\ l.mac = computed
        THEN /\ prev' = [mac |-> computed, checked |-> prev.checked + 1]
             /\ UNCHANGED <<pc, pos, result>>
        ELSE Finish("chain_broken") /\ UNCHANGED prev
  /\ UNCHANGED <<config, trace, s, kept, events, denials>>

ChainHolds ==
  /\ pc = "verifying" /\ prev.checked = Len(kept)
  /\ Finish("verified")
  /\ UNCHANGED <<config, trace, s, kept, prev, events, denials>>

(***************************************************************************)
(* The readers of what was stored.  ExtractActionEvents counts lines like  *)
(* parse and skips what does not decode; an error keeps what it has.       *)
(***************************************************************************)
Simulated(l) == l.form = "object" /\ l.body.lax.t = "action" /\ "simulate" \in l.body.fits
DeniedLine(l) ==
  /\ l.form \in {"object", "padded"} /\ "detect" \in l.body.fits
  /\ (l.body.lax.t = "action" \/ l.body.type) /\ l.body.lax.auth = "deny"

Seen == Cardinality({i \in 1..pos : file[i].form # "blank"})

(* Mutant of ExtractLine: the lines are not limited. *)
ExtractLineAll ==
  /\ pc = "extracting" /\ pos < Len(file) /\ Next1.form # "long"
  /\ events' = IF Simulated(Next1) THEN events \cup {pos + 1} ELSE events
  /\ pos' = pos + 1
  /\ UNCHANGED <<config, trace, pc, s, kept, prev, result, denials>>

ExtractLine ==
  /\ pc = "extracting" /\ pos < Len(file) /\ Seen < MaxEvents /\ Next1.form # "long"
  /\ events' = IF Simulated(Next1) THEN events \cup {pos + 1} ELSE events
  /\ pos' = pos + 1
  /\ UNCHANGED <<config, trace, pc, s, kept, prev, result, denials>>

EndExtract ==
  /\ pc = "extracting" /\ ~(pos < Len(file) /\ Seen < MaxEvents /\ Next1.form # "long")
  /\ pc' = "detecting" /\ pos' = 0
  /\ UNCHANGED <<config, trace, s, kept, prev, result, events, denials>>

(* parseDeniedToolsNDJSON takes "type" for "t", counts the verdict "deny"  *)
(* only, has no limit, and with any error forgets all of it.               *)
DetectLine ==
  /\ pc = "detecting" /\ pos < Len(file) /\ Next1.form # "long"
  /\ denials' = IF DeniedLine(Next1) THEN denials \cup {pos + 1} ELSE denials
  /\ pos' = pos + 1
  /\ UNCHANGED <<config, trace, pc, s, kept, prev, result, events>>

EndDetect ==
  /\ pc = "detecting" /\ ~(pos < Len(file) /\ Next1.form # "long")
  /\ denials' = IF pos < Len(file) \/ broken THEN {} ELSE denials
  /\ pc' = "done"
  /\ UNCHANGED <<config, trace, pos, s, kept, prev, result, events>>

Next ==
  \/ \E r \in Runs, b \in Bodies : Seal(r, b)
  \/ \E b \in Bodies : WriteUnsealed(b)
  \/ Fault \/ Upload
  \/ ScanLine \/ EndScan \/ VerifyLine \/ ChainHolds
  \/ ExtractLine \/ EndExtract \/ DetectLine \/ EndDetect

Spec == Init /\ [][Next]_vars

(***************************************************************************)
(* Properties.                                                             *)
(***************************************************************************)

(* The lines parse takes into account: the first MaxEvents of those that   *)
(* are not blank.                                                          *)
Solid(i)     == Cardinality({j \in 1..i : file[j].form # "blank"})
Counted      == {i \in 1..Len(file) : file[i].form # "blank" /\ Solid(i) <= MaxEvents}
ActionsOf(S) == {i \in S : file[i].form = "object" /\ file[i].body.t = "action"}
StartsOf(S)  == {i \in S : /\ file[i].form = "object" /\ file[i].body.t = "run"
                           /\ file[i].body.status = "start" /\ file[i].body.run # NoRun}
EndsOf(S, f) == {i \in S : /\ file[i].form = "object" /\ file[i].body.t = "run"
                           /\ file[i].body.status = "end" /\ f \in file[i].body.has}
Actions      == ActionsOf(Counted)
Starts       == StartsOf(Counted)
Accepted     == result \in {"verified", "accepted"}

(* What the summary says of the lines S. *)
CountsExactly(S) ==
  /\ \A f \in EndFields :
       s.end[f] \in EndsOf(S, f) \cup {0} /\ \A i \in EndsOf(S, f) : i <= s.end[f]
  /\ s.total = Cardinality(ActionsOf(S))
  /\ s.denied = Cardinality({i \in ActionsOf(S) : file[i].body.auth \in Denied})
  /\ s.allowed + s.denied = s.total
FirstStart(S) ==
  \E i \in StartsOf(S) : (\A j \in StartsOf(S) : i <= j) /\ s.run = file[i].body.run

SummaryTrue ==
  /\ FirstStart(Counted) /\ CountsExactly(Counted)
  /\ s.chain <=> Actions # {} /\ \A i \in Actions : file[i].mac # NoMac
  /\ ~s.truncated => /\ ~broken
                     /\ \A i \in 1..Len(file) :
                          file[i].form = "blank" \/ (i \in Counted /\ file[i].form = "object")

(* "A client cannot lie about what happened during a run": the summary of  *)
(* an accepted trace, whatever was done to the file, has the identity of   *)
(* the first start that names a run, each of exit, duration and end time   *)
(* from the last end that has it, counts exactly the action lines it       *)
(* holds, claims a chain iff all of them carry a MAC, and calls a trace    *)
(* whole only if every line of it was taken into account.                  *)
SummaryFromLines == Accepted => SummaryTrue

(* A verified trace is, blank lines aside, exactly a prefix of what the    *)
(* runtime sealed for the run the platform files it under: no line of it   *)
(* was dropped, repeated, moved, changed or taken from another run.        *)
(* (Lines missing at the end cannot be noticed: nothing seals the length.) *)
VerifiedIsSealedPrefix ==
  result = "verified" =>
    /\ \A i \in 1..Len(file) :
         file[i].form # "blank" =>
           /\ Solid(i) <= Len(sealed[s.run])
           /\ file[i].body = sealed[s.run][Solid(i)]
    /\ s.chain /\ ~s.truncated

(* The line says the same under the keys of parse, of the structs and of   *)
(* governance: a lower-case "t" and "auth", and no "type".                 *)
Plain(b) == (b.lax.t = "action" <=> b.t = "action") /\ b.lax.auth = b.auth /\ ~b.type

(* The later readers see the trace the upload was summarised from.         *)
(* Simulation gets the lines that are actions to it among those parse      *)
(* counted, no other and none twice; governance, in a trace not marked     *)
(* truncated, the denials of those same lines.  Where every line is        *)
(* Plain, what either sees are actions of the summary, and governance      *)
(* finds no more denials than the summary has, so that opening only the    *)
(* traces with actions_denied above 0 passes over none it would find.      *)
(* Not so of others: an action keyed "T" or "type" is in no summary.  And  *)
(* a field of the wrong type hides a counted action from one of the two    *)
(* readers or both ("run" from simulation, "tool" from governance).        *)
ReadersAgree ==
  pc = "done" /\ Accepted =>
    /\ events = {i \in Counted : Simulated(file[i])}
    /\ ~s.truncated => denials = {i \in Counted : DeniedLine(file[i])}
    /\ (\A i \in 1..Len(file) : Plain(file[i].body)) =>
         /\ events \subseteq Actions
         /\ ~s.truncated => denials \subseteq Actions /\ Cardinality(denials) <= s.denied

(***************************************************************************)
(* The inductive invariant of the proofs.                                  *)
(***************************************************************************)

(* Nothing has been read yet. *)
Unread == events = {} /\ denials = {} /\ prev = [mac |-> NoMac, checked |-> 0]

(* The summary and the kept lines after the first p lines. *)
ScannedTo(p) ==
  /\ p <= Len(file) /\ s.count = Solid(p) /\ s.count <= MaxEvents
  /\ IF StartsOf(1..p) = {} THEN s.run = NoRun ELSE FirstStart(1..p)
  /\ CountsExactly(1..p)
  /\ s.sawAction <=> ActionsOf(1..p) # {}
  /\ \A i \in 1..p : file[i].form # "long"
  /\ ~s.truncated => \A i \in 1..p : file[i].form \notin {"malformed", "padded"}
KeptTo(p) ==
  HasKey => /\ Len(kept) = Solid(p)
            /\ \A i \in 1..p : file[i].form # "blank" => kept[Solid(i)] = file[i]

WritingOK ==
  pc = "writing" => /\ pos = 0 /\ Unread /\ result = "none" /\ kept = <<>>
                    /\ s = Fresh

ParsingOK ==
  pc = "parsing" => /\ ScannedTo(pos) /\ KeptTo(pos) /\ Unread /\ result = "none"
                    /\ s.chain <=> \A i \in ActionsOf(1..pos) : file[i].mac # NoMac

(* The lines checked so far are the first ones sealed for the run.         *)
VerifyingOK ==
  pc = "verifying" =>
    /\ SummaryTrue /\ s.chain /\ ~s.truncated /\ HasKey /\ KeptTo(Len(file))
    /\ s.run \in Runs /\ events = {} /\ denials = {} /\ result = "none"
    /\ prev.checked <= Len(kept)
    /\ prev.mac = IF prev.checked = 0 THEN NoMac ELSE <<s.run, prev.checked>>
    /\ \A n \in 1..prev.checked :
         n <= Len(sealed[s.run]) /\ kept[n].body = sealed[s.run][n]

(* A line that no reader could scan comes, in a stored file, only after    *)
(* the limit.                                                              *)
LongBeyond == \A i \in 1..Len(file) : file[i].form = "long" => Solid(i - 1) >= MaxEvents

Decoded(S)  == {i \in S : Simulated(file[i])}
DeniedTo(p) == {i \in 1..p : DeniedLine(file[i])}

StoredOK ==
  /\ Accepted => pc \in {"extracting", "detecting", "done"} /\ LongBeyond
  /\ pc \in {"extracting", "detecting"} => Accepted
  /\ pc = "extracting" => /\ pos <= Len(file) /\ Solid(pos) <= MaxEvents
                          /\ events = Decoded(1..pos) /\ denials = {}
  /\ pc = "detecting" => /\ pos <= Len(file) /\ events = Decoded(Counted)
                         /\ denials = DeniedTo(pos)

IndInv ==
  /\ TypeOK /\ WritingOK /\ ParsingOK /\ VerifyingOK /\ StoredOK
  /\ SummaryFromLines /\ VerifiedIsSealedPrefix /\ ReadersAgree
=============================================================================
