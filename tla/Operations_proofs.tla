-------------------------- MODULE Operations_proofs --------------------------
(***************************************************************************)
(* Theorems about the operation of the platform: Deployment (migrations    *)
(* and accounts), ServerLifecycle (boot and shutdown of one process) and   *)
(* Backup, for any value of their constants.  The three specifications     *)
(* share no variable; each part stands by itself.                          *)
(***************************************************************************)
EXTENDS Deployment, ServerLifecycle, Backup, SequenceTheorems, FiniteSetTheorems, TLAPS

USE DEF Migrating, Booting, Resting, Modes

(* The files Up goes through are a sequence of files. *)
LEMMA PlanType ==
  ASSUME NEW m \in Modes, NEW r \in BOOLEAN
  PROVE  /\ Len(PlanFor(m, r)) \in Nat
         /\ \A i \in 1 .. Len(PlanFor(m, r)) : PlanFor(m, r)[i] \in Files
<1>1. /\ CoreFiles \in Seq(Files) /\ SupabaseFiles \in Seq(Files) /\ RLSFiles \in Seq(Files)
      /\ <<>> \in Seq(Files)
  BY DeploymentAssumption
<1>2. PlanFor(m, r) \in Seq(Files)
  BY <1>1, ConcatProperties DEF PlanFor
<1> QED
  BY <1>2

(* What a user of the table looks like. *)
LEMMA UserFacts ==
  /\ NoUser \notin User
  /\ NoUser.provider = "none" /\ NoUser.org = NoOrg
  /\ \A u \in User : u.provider # "none" /\ u.org \in Slugs
                     /\ u.password \in {"none", "env", "reset"}
BY DeploymentAssumption DEF NoUser, User

-----------------------------------------------------------------------------
(* The initial state. *)
LEMMA InitInd == Init => IndInv
<1> SUFFICES ASSUME Init PROVE IndInv
  OBVIOUS
<1>1. \A p \in Procs : Len(Plan(p)) \in Nat
  BY PlanType DEF Init, Plan
<1>2. TypeOK
  BY <1>1, DeploymentAssumption DEF Init, TypeOK
<1>3. Locals = {}
  BY UserFacts DEF Init, Locals
<1>4. PassedRecorded /\ OneCreator /\ ServesWithAdmin
  BY <1>3, DeploymentAssumption DEF Init, PassedRecorded, OneCreator, ServesWithAdmin
<1> QED
  BY <1>2, <1>4 DEF Init, IndInv, AppliedInOrder, HalfAppliedByFault
-----------------------------------------------------------------------------
(* A process that ends or starts keeps the types. *)
LEMMA ConfigureType ==
  ASSUME TypeOK, NEW p \in Procs, NEW l, NEW m \in Modes, NEW r \in BOOLEAN,
         NEW e \in Emails \cup {NoEmail},
         l \in Migrating \cup Booting \cup Resting \cup {"serve"},
         l \notin {"exec", "record"}, l \in Booting => m = "local" /\ e \in Emails,
         Goto(p, l), Configure(p, m, r, e),
         UNCHANGED <<infra, schema, recorded, orgs, audited, users>>,
         login' \in [Procs -> Emails \cup {NoEmail}], faults' \in 0 .. MaxFaults
  PROVE  TypeOK'
<1>1. /\ pc' \in [Procs -> Migrating \cup Booting \cup Resting \cup {"serve"}]
      /\ mode' \in [Procs -> Modes] /\ rls' \in [Procs -> BOOLEAN]
      /\ admin' \in [Procs -> Emails \cup {NoEmail}] /\ pos' \in [Procs -> Nat]
  BY DEF TypeOK, Goto, Configure
<1>2. ASSUME NEW q \in Procs
      PROVE  /\ pos'[q] \in 1 .. Len(Plan(q)') + 1
             /\ pc'[q] \in {"exec", "record"} => pos'[q] <= Len(Plan(q)')
             /\ pc'[q] \in Booting => mode'[q] = "local" /\ admin'[q] \in Emails
  <2>1. CASE q = p
    <3>1. mode'[p] = m /\ rls'[p] = r /\ pos'[p] = 1 /\ pc'[p] = l /\ admin'[p] = e
      BY DEF TypeOK, Goto, Configure
    <3>2. Len(Plan(p)') \in Nat
      BY <3>1, PlanType DEF Plan
    <3> QED
      BY <2>1, <3>1, <3>2
  <2>2. CASE q # p
    <3>1. /\ mode'[q] = mode[q] /\ rls'[q] = rls[q] /\ pos'[q] = pos[q] /\ pc'[q] = pc[q]
          /\ admin'[q] = admin[q]
      BY <2>2 DEF TypeOK, Goto, Configure
    <3>2. Plan(q)' = Plan(q)
      BY <3>1 DEF Plan
    <3> QED
      BY <3>1, <3>2 DEF TypeOK
  <2> QED
    BY <2>1, <2>2
<1> QED
  BY <1>1, <1>2 DEF TypeOK

(* A process that keeps its configuration keeps the types. *)
LEMMA GotoType ==
  ASSUME TypeOK, NEW p \in Procs, NEW l, NEW n,
         l \in Migrating \cup Booting \cup Resting \cup {"serve"},
         n \in 1 .. Len(Plan(p)) + 1,
         l \in {"exec", "record"} => n <= Len(Plan(p)),
         l \in Booting => mode[p] = "local" /\ admin[p] \in Emails,
         Goto(p, l), pos' = [pos EXCEPT ![p] = n], UNCHANGED config,
         infra' \subseteq {"tracking", "stub"}, schema' \subseteq Files, recorded' \subseteq Files,
         orgs' \subseteq Slugs, audited' \subseteq orgs', users' \in [Emails -> User \cup {NoUser}],
         UNCHANGED <<login, faults>>
  PROVE  TypeOK'
<1>1. \A q \in Procs : Plan(q)' = Plan(q) /\ Len(Plan(q)) \in Nat
  BY PlanType DEF Plan, config, TypeOK
<1>2. /\ pc' \in [Procs -> Migrating \cup Booting \cup Resting \cup {"serve"}]
      /\ pos' \in [Procs -> Nat]
  BY <1>1 DEF TypeOK, Goto
<1>3. \A q \in Procs : /\ pos'[q] \in 1 .. Len(Plan(q)) + 1
                       /\ pc'[q] \in {"exec", "record"} => pos'[q] <= Len(Plan(q))
                       /\ pc'[q] \in Booting => mode[q] = "local" /\ admin[q] \in Emails
  BY DEF TypeOK, Goto
<1> QED
  BY <1>1, <1>2, <1>3 DEF TypeOK, config

(* A step that moves no process keeps the types. *)
LEMMA DataType ==
  ASSUME TypeOK, UNCHANGED <<infra, schema, recorded, pc, config, pos, faults>>,
         orgs' \subseteq Slugs, audited' \subseteq orgs', users' \in [Emails -> User \cup {NoUser}],
         login' \in [Procs -> Emails \cup {NoEmail}]
  PROVE  TypeOK'
<1>1. \A q \in Procs : Plan(q)' = Plan(q)
  BY DEF Plan, config
<1> QED
  BY <1>1 DEF TypeOK, config
(* Every step keeps the types. *)
LEMMA TypeStep == TypeOK /\ Next => TypeOK'
<1> SUFFICES ASSUME TypeOK, Next PROVE TypeOK'
  OBVIOUS
<1>0. /\ "local" \in Modes /\ FALSE \in BOOLEAN /\ NoEmail \in Emails \cup {NoEmail}
      /\ login \in [Procs -> Emails \cup {NoEmail}] /\ faults \in 0 .. MaxFaults
      /\ MaxFaults \in Nat /\ NoEmail \notin Emails /\ Primary \in Slugs
  BY DeploymentAssumption DEF TypeOK
<1>f. ASSUME NEW p \in Procs, Exit(p, "failed") \/ Exit(p, "off"),
             UNCHANGED <<infra, schema, recorded, orgs, audited, users>>,
             login' \in [Procs -> Emails \cup {NoEmail}], faults' \in 0 .. MaxFaults
      PROVE  TypeOK'
  BY <1>0, <1>f, ConfigureType DEF Exit
<1>p. ASSUME NEW p \in Procs
      PROVE  /\ pos[p] \in 1 .. Len(Plan(p)) + 1 /\ Len(Plan(p)) \in Nat
             /\ pos[p] <= Len(Plan(p)) => Current(p) \in Files
             /\ pos = [pos EXCEPT ![p] = pos[p]] /\ pc = [pc EXCEPT ![p] = pc[p]]
             /\ pc[p] \in {"exec", "record"} => pos[p] <= Len(Plan(p))
             /\ pc[p] \in Booting => mode[p] = "local" /\ admin[p] \in Emails
  <2>1. mode[p] \in Modes /\ rls[p] \in BOOLEAN /\ pos \in [Procs -> Nat]
        /\ pc \in [Procs -> Migrating \cup Booting \cup Resting \cup {"serve"}]
    BY DEF TypeOK
  <2>2. Len(Plan(p)) \in Nat /\ \A i \in 1 .. Len(Plan(p)) : Plan(p)[i] \in Files
    BY <2>1, PlanType DEF Plan
  <2>3. /\ pos[p] \in 1 .. Len(Plan(p)) + 1
        /\ pc[p] \in {"exec", "record"} => pos[p] <= Len(Plan(p))
        /\ pc[p] \in Booting => mode[p] = "local" /\ admin[p] \in Emails
    BY DEF TypeOK
  <2>4. pos[p] <= Len(Plan(p)) => Current(p) \in Files
    BY <2>2, <2>3 DEF Current
  <2> QED
    BY <2>1, <2>2, <2>3, <2>4
<1>1. ASSUME NEW p \in Procs, NEW c \in Configs, MigrateUp(p, c[1], c[2]) PROVE TypeOK'
  <2>1. c[1] \in Modes /\ c[2] \in BOOLEAN
    BY DeploymentAssumption
  <2> QED
    BY <1>0, <1>1, <2>1, ConfigureType DEF MigrateUp, db
<1>2. ASSUME NEW p \in Procs, EnsureTrackingTable(p) \/ CreateAuthUsersStub(p) PROVE TypeOK'
  <2>1. PICK l \in {"stub", "check"} : Goto(p, l)
    BY <1>2 DEF EnsureTrackingTable, CreateAuthUsersStub
  <2>2. /\ infra' \subseteq {"tracking", "stub"} /\ pos' = [pos EXCEPT ![p] = pos[p]]
        /\ UNCHANGED <<schema, recorded, orgs, audited, users, config, login, faults>>
    BY <1>2, <1>p DEF EnsureTrackingTable, CreateAuthUsersStub, TypeOK
  <2> QED
    BY <1>p, <2>1, <2>2, GotoType DEF TypeOK
<1>3. ASSUME NEW p \in Procs, Check(p) PROVE TypeOK'
  <2>1. PICK l \in {"check", "exec", "done"}, n \in {pos[p], pos[p] + 1} :
          /\ Goto(p, l) /\ pos' = [pos EXCEPT ![p] = n]
          /\ n \in 1 .. Len(Plan(p)) + 1 /\ (l = "exec" => n <= Len(Plan(p)))
    BY <1>3, <1>p DEF Check, Goto
  <2>2. UNCHANGED <<infra, schema, recorded, orgs, audited, users, config, login, faults>>
    BY <1>3 DEF Check, db
  <2>3. /\ infra' \subseteq {"tracking", "stub"} /\ schema' \subseteq Files /\ recorded' \subseteq Files
        /\ orgs' \subseteq Slugs /\ audited' \subseteq orgs' /\ users' \in [Emails -> User \cup {NoUser}]
    BY <2>2 DEF TypeOK
  <2>4. /\ l \in Migrating \cup Booting \cup Resting \cup {"serve"} /\ l \notin Booting
        /\ l \in {"exec", "record"} => n <= Len(Plan(p))
    BY <2>1
  <2> QED
    BY <2>1, <2>2, <2>3, <2>4, GotoType
<1>4. ASSUME NEW p \in Procs, Exec(p) PROVE TypeOK'
  <2>1. CASE Goto(p, "record") /\ schema' = schema \cup {Current(p)} /\ UNCHANGED <<config, pos>>
    <3>1. /\ schema' \subseteq Files
          /\ UNCHANGED <<infra, recorded, orgs, audited, users, login, faults>>
      BY <1>4, <1>p, <2>1 DEF Exec, TypeOK
    <3>2. /\ infra' \subseteq {"tracking", "stub"} /\ recorded' \subseteq Files
          /\ orgs' \subseteq Slugs /\ audited' \subseteq orgs' /\ users' \in [Emails -> User \cup {NoUser}]
      BY <3>1 DEF TypeOK
    <3>3. /\ pos[p] \in 1 .. Len(Plan(p)) + 1 /\ pos[p] <= Len(Plan(p))
          /\ pos' = [pos EXCEPT ![p] = pos[p]]
      BY <1>4, <1>p, <2>1 DEF Exec
    <3> QED
      BY <2>1, <3>1, <3>2, <3>3, GotoType
  <2>2. CASE Exit(p, "failed") /\ UNCHANGED schema
    BY <1>0, <1>f, <1>4, <2>2 DEF Exec
  <2> QED
    BY <1>4, <2>1, <2>2 DEF Exec
<1>5. ASSUME NEW p \in Procs, Record(p) PROVE TypeOK'
  <2>1. CASE /\ Goto(p, "check") /\ recorded' = recorded \cup {Current(p)} /\ UNCHANGED config
             /\ pos' = [pos EXCEPT ![p] = pos[p] + 1]
    <3>1. /\ recorded' \subseteq Files /\ pos[p] + 1 \in 1 .. Len(Plan(p)) + 1
          /\ UNCHANGED <<infra, schema, orgs, audited, users, login, faults>>
      BY <1>5, <1>p, <2>1 DEF Record, TypeOK
    <3> QED
      BY <2>1, <3>1, GotoType DEF TypeOK
  <2>2. CASE Exit(p, "failed") /\ UNCHANGED recorded
    BY <1>0, <1>f, <1>5, <2>2 DEF Record
  <2> QED
    BY <1>5, <2>1, <2>2 DEF Record
<1>6. ASSUME NEW p \in Procs, NEW m \in Modes, NEW e \in Emails \cup {NoEmail}, Serve(p, m, e)
      PROVE  TypeOK'
  <2> DEFINE e2 == IF m = "local" THEN e ELSE NoEmail
             l  == IF m = "local" /\ e # NoEmail THEN "count" ELSE "serve"
  <2>1. /\ e2 \in Emails \cup {NoEmail} /\ l \in Booting \cup {"serve"}
        /\ l \in Booting => m = "local" /\ e2 \in Emails
    OBVIOUS
  <2>2. Goto(p, l) /\ Configure(p, m, FALSE, e2) /\ UNCHANGED <<db, login, faults>>
    BY <1>6 DEF Serve
  <2> HIDE DEF e2, l
  <2> QED
    BY <1>0, <2>1, <2>2, ConfigureType DEF db
<1>7. ASSUME NEW p \in Procs, CountUsersByProvider(p) PROVE TypeOK'
  <2>1. CASE Exit(p, "failed")
    BY <1>0, <1>f, <1>7, <2>1 DEF CountUsersByProvider, db
  <2>2. CASE UNCHANGED <<config, pos>> /\ \E l \in {"serve", "org"} : Goto(p, l)
    <3>1. PICK l \in {"serve", "org"} : Goto(p, l)
      BY <2>2
    <3> QED
      BY <1>7, <1>p, <2>2, <3>1, GotoType DEF CountUsersByProvider, db, TypeOK
  <2> QED
    BY <1>7, <2>1, <2>2 DEF CountUsersByProvider
<1>8. ASSUME NEW p \in Procs, CreateOrg(p) PROVE TypeOK'
  <2>1. CASE Exit(p, "failed") /\ UNCHANGED orgs
    BY <1>0, <1>f, <1>8, <2>1 DEF CreateOrg
  <2>2. CASE UNCHANGED <<config, pos>> /\ Goto(p, "user") /\ orgs' = orgs \cup {Primary}
    <3>1. orgs' \subseteq Slugs /\ audited' \subseteq orgs'
      BY <1>0, <1>8, <2>2 DEF CreateOrg, TypeOK
    <3> QED
      BY <1>8, <1>p, <2>2, <3>1, GotoType DEF CreateOrg, TypeOK
  <2> QED
    BY <1>8, <2>1, <2>2 DEF CreateOrg
<1>9. ASSUME NEW p \in Procs, CreateUserWithPassword(p) PROVE TypeOK'
  <2>1. CASE Exit(p, "failed") /\ UNCHANGED users
    BY <1>0, <1>f, <1>9, <2>1 DEF CreateUserWithPassword
  <2>2. CASE /\ UNCHANGED <<config, pos>> /\ Goto(p, "serve")
             /\ users' = [users EXCEPT ![admin[p]] =
                            [org |-> Primary, provider |-> "local", password |-> "env"]]
    <3>1. users' \in [Emails -> User \cup {NoUser}]
      BY <1>0, <2>2 DEF TypeOK, User
    <3> QED
      BY <1>9, <1>p, <2>2, <3>1, GotoType DEF CreateUserWithPassword, TypeOK
  <2> QED
    BY <1>9, <2>1, <2>2 DEF CreateUserWithPassword
<1>10. ASSUME NEW p \in Procs, NEW t \in Slugs, HandleCreateOrg(p, t) PROVE TypeOK'
  BY <1>10, DataType DEF HandleCreateOrg, TypeOK
<1>11. ASSUME NEW e \in Emails, NEW t \in Slugs, SignUp(e, t) PROVE TypeOK'
  <2>1. users' \in [Emails -> User \cup {NoUser}]
    BY <1>11 DEF SignUp, TypeOK, User
  <2> QED
    BY <1>11, <2>1, DataType DEF SignUp, TypeOK
<1>12. ASSUME NEW p \in Procs, NEW e \in Emails, OIDCLookup(p, e) PROVE TypeOK'
  BY <1>12, DataType DEF OIDCLookup, db, TypeOK
<1>13. ASSUME NEW p \in Procs, OIDCProvision(p) PROVE TypeOK'
  <2>1. users' \in [Emails -> User \cup {NoUser}]
    <3>1. CASE HasUser(login[p]) \/ DefaultOrg \notin orgs
      BY <1>13, <3>1 DEF OIDCProvision, TypeOK
    <3>2. CASE ~ (HasUser(login[p]) \/ DefaultOrg \notin orgs)
      <4>1. [org |-> DefaultOrg, provider |-> "oidc", password |-> "none"] \in User
        BY <3>2 DEF User, TypeOK
      <4> QED
        BY <1>13, <3>2, <4>1 DEF OIDCProvision, TypeOK
    <3> QED
      BY <3>1, <3>2
  <2> QED
    BY <1>0, <1>13, <2>1, DataType DEF OIDCProvision, TypeOK
<1>14. ASSUME NEW e \in Emails, ResetPassword(e) PROVE TypeOK'
  <2>1. users[e] \in User
    BY <1>14, UserFacts DEF ResetPassword, Locals, TypeOK
  <2>2. [users[e] EXCEPT !.password = "reset"] \in User
    BY <2>1 DEF User
  <2>3. users' \in [Emails -> User \cup {NoUser}]
    BY <1>14, <2>2 DEF ResetPassword, TypeOK
  <2> QED
    BY <1>14, <2>3, DataType DEF ResetPassword, TypeOK
<1>15. ASSUME NEW p \in Procs, Die(p) PROVE TypeOK'
  BY <1>0, <1>f, <1>15 DEF Die, db
<1>16. ASSUME NEW p \in Procs, Stop(p) PROVE TypeOK'
  BY <1>0, <1>f, <1>16 DEF Stop, db
<1> QED
  BY <1>1, <1>2, <1>3, <1>4, <1>5, <1>6, <1>7, <1>8, <1>9, <1>10, <1>11, <1>12, <1>13, <1>14,
     <1>15, <1>16 DEF Next, Step
-----------------------------------------------------------------------------
(* The part of the invariant about migrations. *)
Migrations == recorded \subseteq schema /\ PassedRecorded /\ AppliedInOrder /\ HalfAppliedByFault

(* Steps that write neither the schema nor its record: a process starts    *)
(* afresh, or goes on with its configuration; if it leaves "record" without *)
(* recording, the row was there or the process died.                       *)
LEMMA MigrationsKept ==
  ASSUME TypeOK, Migrations, NEW p \in Procs, NEW l, Goto(p, l), UNCHANGED <<schema, recorded>>,
         faults' \in {faults, faults + 1}, l \notin {"done", "record"},
         \/ \E e : \E m \in Modes, r \in BOOLEAN :
              /\ Configure(p, m, r, e)
              /\ l \in Migrating => <<m, r>> \in Configs
         \/ UNCHANGED <<mode, rls, pos>> /\ (l \in Migrating => pc[p] \in Migrating),
         pc[p] = "record" => faults' = faults + 1 \/ Current(p) \in recorded
  PROVE  Migrations'
<1>1. /\ pc'[p] = l
      /\ \A q \in Procs \ {p} : pc'[q] = pc[q] /\ mode'[q] = mode[q] /\ rls'[q] = rls[q] /\ pos'[q] = pos[q]
  BY DEF TypeOK, Goto, Configure
<1>2. \A q \in Procs \ {p} : Plan(q)' = Plan(q) /\ Current(q)' = Current(q)
  BY <1>1 DEF Plan, Current
<1>3. \/ pos'[p] = 1 /\ (l \in Migrating => <<mode'[p], rls'[p]>> \in Configs)
      \/ /\ pos'[p] = pos[p] /\ Plan(p)' = Plan(p) /\ mode'[p] = mode[p] /\ rls'[p] = rls[p]
         /\ l \in Migrating => pc[p] \in Migrating
  BY DEF TypeOK, Configure, Plan
<1>4. PassedRecorded'
  BY <1>1, <1>2, <1>3 DEF Migrations, PassedRecorded
<1>5. AppliedInOrder'
  BY DEF Migrations, AppliedInOrder
<1>6. ASSUME NEW f \in schema' \ recorded'
      PROVE  faults' > 0 \/ \E q \in Procs : pc'[q] = "record" /\ Current(q)' = f
  <2>1. faults > 0 \/ \E q \in Procs : pc[q] = "record" /\ Current(q) = f
    BY <1>6 DEF Migrations, HalfAppliedByFault
  <2>2. faults \in Nat
    BY DeploymentAssumption DEF TypeOK
  <2> QED
    BY <1>1, <1>2, <1>6, <2>1, <2>2
<1> QED
  BY <1>4, <1>5, <1>6 DEF Migrations, HalfAppliedByFault

(* A file is applied when everything before it is recorded. *)
LEMMA ExecMigrations ==
  ASSUME TypeOK, Migrations, NEW p \in Procs, pc[p] = "exec", Goto(p, "record"),
         schema' = schema \cup {Current(p)}, UNCHANGED <<recorded, config, pos, faults>>
  PROVE  Migrations'
<1>1. \A q \in Procs : Plan(q)' = Plan(q) /\ Current(q)' = Current(q)
  BY DEF Plan, Current, config
<1>2. pc'[p] = "record" /\ \A q \in Procs \ {p} : pc'[q] = pc[q]
  BY DEF TypeOK, Goto
<1>3. PassedRecorded'
  BY <1>1, <1>2 DEF Migrations, PassedRecorded, config
<1>4. AppliedInOrder'
  <2> DEFINE At(f, rec) == \E c \in Configs : \E i \in 1 .. Len(PlanFor(c[1], c[2])) :
               PlanFor(c[1], c[2])[i] = f /\ \A j \in 1 .. i - 1 : PlanFor(c[1], c[2])[j] \in rec
  <2>1. \A f \in schema : At(f, recorded)
    BY DEF Migrations, AppliedInOrder
  <2>2. At(Current(p), recorded)
    <3> DEFINE c == <<mode[p], rls[p]>>
    <3>1. c \in Configs /\ c[1] = mode[p] /\ c[2] = rls[p]
      BY DEF Migrations, PassedRecorded
    <3>2. pos[p] \in 1 .. Len(PlanFor(c[1], c[2]))
      BY <3>1 DEF TypeOK, Plan
    <3>3. /\ PlanFor(c[1], c[2])[pos[p]] = Current(p)
          /\ \A j \in 1 .. pos[p] - 1 : PlanFor(c[1], c[2])[j] \in recorded
      BY <3>1 DEF Migrations, PassedRecorded, Plan, Current
    <3> HIDE DEF c
    <3> QED
      BY <3>1, <3>2, <3>3
  <2> HIDE DEF At
  <2>3. \A f \in schema' : At(f, recorded')
    BY <2>1, <2>2
  <2> QED
    BY <2>3 DEF At, AppliedInOrder
<1>5. HalfAppliedByFault'
  BY <1>1, <1>2 DEF Migrations, HalfAppliedByFault
<1> QED
  BY <1>3, <1>4, <1>5 DEF Migrations

(* A position moves on when its file is recorded; the record only grows. *)
LEMMA AdvanceMigrations ==
  ASSUME TypeOK, Migrations, NEW p \in Procs, NEW l,
         pc[p] \in {"check", "record"}, Goto(p, l), l \in {"check", "done"},
         recorded' \in {recorded, recorded \cup {Current(p)}}, recorded' \subseteq schema,
         pc[p] = "record" => Current(p) \in recorded',
         \/ l = "done" /\ pos[p] > Len(Plan(p)) /\ UNCHANGED pos
         \/ l = "check" /\ Current(p) \in recorded' /\ pos' = [pos EXCEPT ![p] = pos[p] + 1],
         UNCHANGED <<schema, config, faults>>
  PROVE  Migrations'
<1>1. \A q \in Procs : Plan(q)' = Plan(q)
  BY DEF Plan, config
<1>2. /\ pc'[p] = l /\ \A q \in Procs \ {p} : /\ pc'[q] = pc[q] /\ pos'[q] = pos[q]
                                              /\ Current(q)' = Current(q)
  BY <1>1 DEF TypeOK, Goto, Current
<1>3. pos[p] \in 1 .. Len(Plan(p)) + 1 /\ Len(Plan(p)) \in Nat
  BY PlanType DEF TypeOK, Plan
<1>4. /\ \A j \in 1 .. pos'[p] - 1 : Plan(p)[j] \in recorded'
      /\ l = "done" => pos'[p] = Len(Plan(p)) + 1
  <2>1. \A j \in 1 .. pos[p] - 1 : Plan(p)[j] \in recorded'
    BY DEF Migrations, PassedRecorded
  <2>2. CASE l = "done" /\ pos[p] > Len(Plan(p)) /\ UNCHANGED pos
    BY <1>3, <2>1, <2>2
  <2>3. CASE l = "check" /\ Current(p) \in recorded' /\ pos' = [pos EXCEPT ![p] = pos[p] + 1]
    <3>1. pos'[p] = pos[p] + 1 /\ Plan(p)[pos[p]] \in recorded'
      BY <2>3 DEF TypeOK, Current
    <3> QED
      BY <1>3, <2>1, <2>3, <3>1
  <2> QED
    BY <2>2, <2>3
<1>5. PassedRecorded'
  BY <1>1, <1>2, <1>4 DEF Migrations, PassedRecorded, config
<1>6. AppliedInOrder'
  <2>1. recorded \subseteq recorded'
    OBVIOUS
  <2> QED
    BY <2>1 DEF Migrations, AppliedInOrder
<1>7. HalfAppliedByFault'
  BY <1>2 DEF Migrations, HalfAppliedByFault
<1> QED
  BY <1>5, <1>6, <1>7 DEF Migrations
(* Every step keeps the part about migrations. *)
LEMMA MigrationsStep == TypeOK /\ Migrations /\ Next => Migrations'
<1> SUFFICES ASSUME TypeOK, Migrations, Next PROVE Migrations'
  OBVIOUS
<1>0. "local" \in Modes /\ FALSE \in BOOLEAN
  OBVIOUS
<1>f. ASSUME NEW p \in Procs, NEW l \in {"failed", "off"}, Exit(p, l), UNCHANGED <<schema, recorded>>,
             faults' \in {faults, faults + 1},
             pc[p] = "record" => faults' = faults + 1 \/ Current(p) \in recorded
      PROVE  Migrations'
  BY <1>0, <1>f, MigrationsKept DEF Exit
<1>k. ASSUME NEW p \in Procs, NEW l, Goto(p, l), l \notin {"done", "record"}, pc[p] # "record",
             UNCHANGED <<schema, recorded, mode, rls, pos, faults>>,
             l \in Migrating => pc[p] \in Migrating
      PROVE  Migrations'
  BY <1>k, MigrationsKept
<1>d. ASSUME UNCHANGED <<schema, recorded, pc, mode, rls, pos, faults>> PROVE Migrations'
  BY <1>d DEF Migrations, PassedRecorded, AppliedInOrder, HalfAppliedByFault, Plan, Current
<1>1. ASSUME NEW p \in Procs, NEW c \in Configs, MigrateUp(p, c[1], c[2]) PROVE Migrations'
  <2>0. c \in Modes \X BOOLEAN
    BY DeploymentAssumption
  <2>1. c[1] \in Modes /\ c[2] \in BOOLEAN /\ <<c[1], c[2]>> \in Configs
    BY <2>0
  <2> QED
    BY <1>1, <2>1, MigrationsKept DEF MigrateUp, db
<1>2. ASSUME NEW p \in Procs, EnsureTrackingTable(p) \/ CreateAuthUsersStub(p) PROVE Migrations'
  BY <1>2, <1>k DEF EnsureTrackingTable, CreateAuthUsersStub, config
<1>3. ASSUME NEW p \in Procs, Check(p) PROVE Migrations'
  <2>0. UNCHANGED <<schema, recorded, config, faults>> /\ pc[p] = "check"
    BY <1>3 DEF Check, db
  <2>1. CASE pos[p] > Len(Plan(p)) /\ Goto(p, "done") /\ UNCHANGED pos
    BY <2>0, <2>1, AdvanceMigrations DEF Migrations
  <2>2. CASE Current(p) \in recorded /\ pos' = [pos EXCEPT ![p] = @ + 1] /\ UNCHANGED pc
    <3>1. Goto(p, "check")
      BY <2>0, <2>2 DEF Goto, TypeOK
    <3> QED
      BY <2>0, <2>2, <3>1, AdvanceMigrations DEF Migrations
  <2>3. CASE Goto(p, "exec") /\ UNCHANGED pos
    BY <2>0, <2>3, <1>k DEF config
  <2> QED
    BY <1>3, <2>1, <2>2, <2>3 DEF Check
<1>4. ASSUME NEW p \in Procs, Exec(p) PROVE Migrations'
  BY <1>4, <1>f, ExecMigrations DEF Exec
<1>5. ASSUME NEW p \in Procs, Record(p) PROVE Migrations'
  <2>1. CASE /\ recorded' = recorded \cup {Current(p)} /\ pos' = [pos EXCEPT ![p] = @ + 1]
             /\ Goto(p, "check") /\ UNCHANGED config
    <3>1. recorded' \subseteq schema
      BY <1>5, <2>1 DEF Record, Migrations, PassedRecorded
    <3> QED
      BY <1>5, <2>1, <3>1, AdvanceMigrations DEF Record
  <2>2. CASE Current(p) \in recorded /\ Exit(p, "failed") /\ UNCHANGED recorded
    BY <1>5, <1>f, <2>2 DEF Record
  <2> QED
    BY <1>5, <2>1, <2>2 DEF Record
<1>6. ASSUME NEW p \in Procs, NEW m \in Modes, NEW e \in Emails \cup {NoEmail}, Serve(p, m, e)
      PROVE  Migrations'
  BY <1>0, <1>6, MigrationsKept DEF Serve, db
<1>7. ASSUME NEW p \in Procs, CountUsersByProvider(p) \/ CreateOrg(p) \/ CreateUserWithPassword(p)
      PROVE  Migrations'
  <2>1. UNCHANGED <<schema, recorded, faults>> /\ pc[p] \in Booting
    BY <1>7 DEF CountUsersByProvider, CreateOrg, CreateUserWithPassword, db
  <2>2. \/ Exit(p, "failed")
        \/ UNCHANGED <<config, pos>> /\ \E l \in {"serve", "org", "user"} : Goto(p, l)
    BY <1>7 DEF CountUsersByProvider, CreateOrg, CreateUserWithPassword
  <2> QED
    BY <1>f, <1>k, <2>1, <2>2 DEF config
<1>8. ASSUME NEW p \in Procs, Die(p) \/ Stop(p) PROVE Migrations'
  BY <1>8, <1>f DEF Die, Stop, db
<1>9. CASE \/ \E p \in Procs : OIDCProvision(p) \/ (\E e \in Emails : OIDCLookup(p, e))
           \/ \E p \in Procs, t \in Slugs : HandleCreateOrg(p, t)
           \/ \E e \in Emails, t \in Slugs : SignUp(e, t)
           \/ \E e \in Emails : ResetPassword(e)
  BY <1>9, <1>d DEF OIDCProvision, OIDCLookup, HandleCreateOrg, SignUp, ResetPassword, db, config
<1> QED
  BY <1>1, <1>2, <1>3, <1>4, <1>5, <1>6, <1>7, <1>8, <1>9 DEF Next, Step

-----------------------------------------------------------------------------
(* The part of the invariant about the bootstrap. *)
Accounts == OneCreator /\ ServesWithAdmin

(* What a step may do to the users, and the part about the bootstrap. *)
Kept ==
  /\ Locals # {} => Locals' = Locals
  /\ \A e \in Emails : HasUser(e) =>
       /\ users'[e].org = users[e].org /\ users'[e].provider = users[e].provider
       /\ users'[e].password \in {users[e].password, "reset"}

(* No step that leaves local users and the waiting creators alone disturbs it. *)
LEMMA AccountsSame ==
  ASSUME TypeOK, Accounts, orgs \subseteq orgs', Locals' = Locals,
         \A p \in Procs : pc'[p] = "user" => pc[p] = "user",
         \A p \in Procs : pc'[p] = "serve" /\ mode'[p] = "local" /\ admin'[p] # NoEmail =>
            \/ Locals # {}
            \/ pc[p] = "serve" /\ mode[p] = "local" /\ admin[p] # NoEmail
  PROVE  Accounts'
BY DEF Accounts, OneCreator, ServesWithAdmin

(* A step that does not write users leaves the local ones. *)
LEMMA SameUsers ==
  ASSUME users' = users
  PROVE  Locals' = Locals /\ Kept
BY DEF Locals, Kept, HasUser

(* A new user of another provider changes no existing account. *)
LEMMA NewForeignUser ==
  ASSUME TypeOK, NEW e \in Emails, ~ HasUser(e), NEW u \in User, u.provider # "local",
         users' = [users EXCEPT ![e] = u]
  PROVE  Locals' = Locals /\ Kept
<1>1. users[e] = NoUser /\ users'[e] = u /\ \A x \in Emails \ {e} : users'[x] = users[x]
  BY DEF TypeOK, HasUser
<1>2. users[e].provider # "local"
  BY <1>1, UserFacts
<1> QED
  BY <1>1, <1>2 DEF Locals, Kept, HasUser
(* Every step keeps the accounts and the part about the bootstrap. *)
LEMMA AccountsStep == TypeOK /\ Accounts /\ Next => Accounts' /\ Kept
<1> SUFFICES ASSUME TypeOK, Accounts, Next PROVE Accounts' /\ Kept
  OBVIOUS
<1>0. NoEmail \notin Emails /\ Primary \in Slugs
  BY DeploymentAssumption
<1>u. ASSUME UNCHANGED <<orgs, users>>, NEW p \in Procs, NEW l, Goto(p, l), l # "user",
             UNCHANGED <<mode, admin>> \/ (\E m, r, e : Configure(p, m, r, e)),
             l = "serve" => Locals # {} \/ mode'[p] # "local" \/ admin'[p] = NoEmail
      PROVE  Accounts' /\ Kept
  <2>1. pc'[p] = l /\ \A q \in Procs \ {p} : /\ pc'[q] = pc[q] /\ mode'[q] = mode[q]
                                             /\ admin'[q] = admin[q]
    BY <1>u DEF Goto, Configure, TypeOK
  <2> QED
    BY <1>u, <2>1, SameUsers, AccountsSame
<1>d. ASSUME UNCHANGED <<pc, config>>, orgs \subseteq orgs', Locals' = Locals
      PROVE  Accounts'
  BY <1>d, AccountsSame DEF config
<1>1. ASSUME NEW p \in Procs, NEW c \in Configs, MigrateUp(p, c[1], c[2]) PROVE Accounts' /\ Kept
  BY <1>1, <1>u DEF MigrateUp, db
<1>2. ASSUME NEW p \in Procs, EnsureTrackingTable(p) \/ CreateAuthUsersStub(p) PROVE Accounts' /\ Kept
  BY <1>2, <1>u DEF EnsureTrackingTable, CreateAuthUsersStub, config
<1>3. ASSUME NEW p \in Procs, Check(p) PROVE Accounts' /\ Kept
  <2>1. \E l \in {"done", "check", "exec"} : Goto(p, l)
    BY <1>3 DEF Check, Goto, TypeOK
  <2> QED
    BY <1>3, <2>1, <1>u DEF Check, config, db
<1>4. ASSUME NEW p \in Procs, Exec(p) \/ Record(p) PROVE Accounts' /\ Kept
  BY <1>4, <1>u DEF Exec, Record, Exit, config
<1>5. ASSUME NEW p \in Procs, NEW m \in Modes, NEW e \in Emails \cup {NoEmail}, Serve(p, m, e)
      PROVE  Accounts' /\ Kept
  <2>1. \/ Goto(p, "count")
        \/ Goto(p, "serve") /\ (mode'[p] # "local" \/ admin'[p] = NoEmail)
    BY <1>5 DEF Serve, Configure, TypeOK
  <2>2. UNCHANGED <<orgs, users>> /\ \E x, r, y : Configure(p, x, r, y)
    BY <1>5 DEF Serve, db
  <2> QED
    BY <1>u, <2>1, <2>2
<1>6. ASSUME NEW p \in Procs, CountUsersByProvider(p) PROVE Accounts' /\ Kept
  BY <1>6, <1>u DEF CountUsersByProvider, Exit, db, config
<1>7. ASSUME NEW p \in Procs, CreateOrg(p) PROVE Accounts' /\ Kept
  <2>1. CASE Primary \in orgs /\ Exit(p, "failed") /\ UNCHANGED orgs
    BY <1>7, <1>u, <2>1 DEF CreateOrg, Exit
  <2>2. CASE Primary \notin orgs /\ orgs' = orgs \cup {Primary} /\ Goto(p, "user") /\ UNCHANGED <<config, pos>>
    <3>1. Locals = {} /\ \A q \in Procs : pc[q] # "user"
      BY <2>2 DEF Accounts, OneCreator
    <3>2. Locals' = Locals /\ Kept
      BY <1>7, SameUsers DEF CreateOrg
    <3>3. pc'[p] = "user" /\ \A q \in Procs \ {p} : pc'[q] = pc[q]
      BY <2>2 DEF Goto, TypeOK
    <3> QED
      BY <2>2, <3>1, <3>2, <3>3 DEF Accounts, OneCreator, ServesWithAdmin, config
  <2> QED
    BY <1>7, <2>1, <2>2 DEF CreateOrg
<1>8. ASSUME NEW p \in Procs, CreateUserWithPassword(p) PROVE Accounts' /\ Kept
  <2>1. CASE Exit(p, "failed") /\ UNCHANGED users
    BY <1>8, <1>u, <2>1 DEF CreateUserWithPassword, Exit
  <2>2. CASE /\ ~ HasUser(admin[p]) /\ Goto(p, "serve") /\ UNCHANGED <<config, pos>>
             /\ users' = [users EXCEPT ![admin[p]] =
                            [org |-> Primary, provider |-> "local", password |-> "env"]]
    <3>1. /\ pc[p] = "user" /\ admin[p] \in Emails /\ Primary \in orgs /\ Locals = {}
          /\ orgs' = orgs /\ \A q \in Procs \ {p} : pc[q] # "user"
      BY <1>8 DEF CreateUserWithPassword, TypeOK, Accounts, OneCreator
    <3>2. /\ users'[admin[p]].provider = "local"
          /\ \A x \in Emails \ {admin[p]} : users'[x] = users[x]
      BY <2>2, <3>1 DEF TypeOK
    <3>3. admin[p] \in Locals'
      BY <3>1, <3>2 DEF Locals
    <3>4. Kept
      BY <2>2, <3>1, <3>2 DEF Kept, HasUser
    <3>5. pc'[p] = "serve" /\ \A q \in Procs \ {p} : pc'[q] = pc[q]
      BY <2>2 DEF Goto, TypeOK
    <3> QED
      BY <3>1, <3>3, <3>4, <3>5 DEF Accounts, OneCreator, ServesWithAdmin
  <2> QED
    BY <1>8, <2>1, <2>2 DEF CreateUserWithPassword
<1>9. ASSUME NEW p \in Procs, NEW t \in Slugs, HandleCreateOrg(p, t) PROVE Accounts' /\ Kept
  BY <1>9, <1>d, SameUsers DEF HandleCreateOrg
<1>10. ASSUME NEW e \in Emails, NEW t \in Slugs, SignUp(e, t) PROVE Accounts' /\ Kept
  <2> DEFINE u == [org |-> t, provider |-> "supabase", password |-> "none"]
  <2>1. u \in User /\ u.provider # "local"
    BY DEF User
  <2>2. ~ HasUser(e) /\ users' = [users EXCEPT ![e] = u]
    BY <1>10 DEF SignUp
  <2> HIDE DEF u
  <2>3. Locals' = Locals /\ Kept
    BY <2>1, <2>2, NewForeignUser
  <2> QED
    BY <1>10, <1>d, <2>3 DEF SignUp
<1>11. ASSUME NEW p \in Procs, NEW e \in Emails, OIDCLookup(p, e) PROVE Accounts' /\ Kept
  BY <1>11, <1>d, SameUsers DEF OIDCLookup, db
<1>12. ASSUME NEW p \in Procs, OIDCProvision(p) PROVE Accounts' /\ Kept
  <2>1. Locals' = Locals /\ Kept
    <3>1. CASE HasUser(login[p]) \/ DefaultOrg \notin orgs
      BY <1>12, <3>1, SameUsers DEF OIDCProvision
    <3>2. CASE ~ (HasUser(login[p]) \/ DefaultOrg \notin orgs)
      <4> DEFINE u == [org |-> DefaultOrg, provider |-> "oidc", password |-> "none"]
      <4>1. u \in User /\ u.provider # "local"
        BY <3>2 DEF User, TypeOK
      <4>2. login[p] \in Emails /\ ~ HasUser(login[p]) /\ users' = [users EXCEPT ![login[p]] = u]
        BY <1>12, <3>2 DEF OIDCProvision, TypeOK
      <4> HIDE DEF u
      <4> QED
        BY <4>1, <4>2, NewForeignUser
    <3> QED
      BY <3>1, <3>2
  <2> QED
    BY <1>12, <1>d, <2>1 DEF OIDCProvision
<1>13. ASSUME NEW e \in Emails, ResetPassword(e) PROVE Accounts' /\ Kept
  <2>1. users[e] \in User
    BY <1>13, UserFacts DEF ResetPassword, Locals, TypeOK
  <2>2. /\ users'[e].org = users[e].org /\ users'[e].provider = users[e].provider
        /\ users'[e].password = "reset"
        /\ \A x \in Emails \ {e} : users'[x] = users[x]
    BY <1>13, <2>1 DEF ResetPassword, TypeOK, User
  <2>3. Locals' = Locals /\ Kept
    BY <2>2 DEF Locals, Kept
  <2> QED
    BY <1>13, <1>d, <2>3 DEF ResetPassword
<1>14. ASSUME NEW p \in Procs, Die(p) \/ Stop(p) PROVE Accounts' /\ Kept
  BY <1>14, <1>u DEF Die, Stop, Exit, db
<1> QED
  BY <1>1, <1>2, <1>3, <1>4, <1>5, <1>6, <1>7, <1>8, <1>9, <1>10, <1>11, <1>12, <1>13, <1>14
  DEF Next, Step

-----------------------------------------------------------------------------
(* IndInv holds in every reachable state. *)
LEMMA Invariance == Spec => []IndInv
<1>1. IndInv /\ [Next]_vars => IndInv'
  <2> SUFFICES ASSUME IndInv, [Next]_vars PROVE IndInv'
    OBVIOUS
  <2>1. CASE Next
    BY <2>1, TypeStep, MigrationsStep, AccountsStep DEF IndInv, Migrations, Accounts
  <2>2. CASE UNCHANGED vars
    BY <2>2 DEF vars, db, config, IndInv, TypeOK, PassedRecorded, AppliedInOrder, HalfAppliedByFault,
                OneCreator, ServesWithAdmin, Locals, Plan, Current
  <2> QED
    BY <2>1, <2>2
<1> QED
  BY InitInd, <1>1, PTL DEF Spec

(* The tables and the processes of an installation keep their types, for   *)
(* any folders of migration files (Up, bootstrapLocalAdmin, the handlers). *)
THEOREM TypeCorrect == Spec => []TypeOK
<1>1. IndInv => TypeOK
  BY DEF IndInv
<1> QED
  BY <1>1, Invariance, PTL

(* However many `migrate up` processes race and die, a recorded file is     *)
(* applied and a run that reports success leaves all its files recorded     *)
(* (applyFolder).                                                           *)
THEOREM RecordTrustworthy == Spec => []RecordedIsApplied
<1>1. IndInv => RecordedIsApplied
  <2> SUFFICES ASSUME IndInv, NEW p \in Procs, pc[p] = "done", NEW i \in 1 .. Len(Plan(p))
               PROVE  Plan(p)[i] \in recorded
    BY DEF IndInv, RecordedIsApplied
  <2>1. Len(Plan(p)) \in Nat
    BY PlanType DEF IndInv, TypeOK, Plan
  <2>2. pos[p] = Len(Plan(p)) + 1 /\ \A j \in 1 .. pos[p] - 1 : Plan(p)[j] \in recorded
    BY DEF IndInv, PassedRecorded
  <2> QED
    BY <2>1, <2>2
<1> QED
  BY <1>1, Invariance, PTL

(* Migration files reach the database in order, and only behind recorded    *)
(* ones, whichever process applies them (Up, applyFolder).                  *)
THEOREM OrderKept == Spec => []AppliedInOrder
<1>1. IndInv => AppliedInOrder
  BY DEF IndInv
<1> QED
  BY <1>1, Invariance, PTL

(* Races alone leave no file applied and unrecorded; a process that died    *)
(* between the two statements of applyFolder does.                          *)
THEOREM RacesLeaveNothing == Spec => []HalfAppliedByFault
<1>1. IndInv => HalfAppliedByFault
  BY DEF IndInv
<1> QED
  BY <1>1, Invariance, PTL

(* A replica that serves in local mode with an admin configured has one,    *)
(* for any number of replicas that boot together (bootstrapLocalAdmin).     *)
THEOREM AdminThere == Spec => []ServesWithAdmin
<1>1. IndInv => ServesWithAdmin
  BY DEF IndInv
<1> QED
  BY <1>1, Invariance, PTL

(* Accounts are never duplicated, moved or given back an old password,      *)
(* whatever boots, sign-ups, callbacks and resets overlap: the unique slug  *)
(* makes up for the stale count (bootstrapLocalAdmin, CreateOrg).           *)
THEOREM AccountsSafe == Spec => AccountsKept
<1>1. IndInv /\ [Next]_vars => [Kept]_vars
  BY AccountsStep DEF IndInv, Accounts
<1> QED
  BY <1>1, Invariance, PTL DEF Spec, AccountsKept, Kept

-----------------------------------------------------------------------------
(***************************************************************************)
(* ServerLifecycle.  Handlers, jobs, workers and listeners move neither    *)
(* main nor what is open; main moves no handler.                           *)
(***************************************************************************)

(* The set of holders is finite: its size is a number that one more        *)
(* changes by one.                                                         *)
LEMMA HeldFinite ==
  ASSUME ServerTypeOK
  PROVE  IsFiniteSet(held) /\ Cardinality(held) \in Nat
<1>1. IsFiniteSet(Hubs \cup Actors)
  BY LifecycleAssumption, FS_Union
<1>2. IsFiniteSet(held)
  BY <1>1, FS_Subset DEF ServerTypeOK
<1>3. QED
  BY <1>2, FS_CardinalityType

LEMMA TakeConnection ==
  ASSUME ServerTypeOK, NEW x \in Hubs \cup Actors, Cardinality(held) < MaxConns
  PROVE  held \cup {x} \subseteq Hubs \cup Actors /\ Cardinality(held \cup {x}) <= MaxConns
<1>1. Cardinality(held \cup {x}) \in {Cardinality(held), Cardinality(held) + 1}
  BY HeldFinite, FS_AddElement
<1>2. QED
  BY <1>1, HeldFinite, LifecycleAssumption DEF ServerTypeOK

LEMMA GiveConnection ==
  ASSUME ServerTypeOK, NEW x
  PROVE  held \ {x} \subseteq Hubs \cup Actors /\ Cardinality(held \ {x}) <= MaxConns
<1>1. Cardinality(held \ {x}) \in {Cardinality(held), Cardinality(held) - 1}
  BY HeldFinite, FS_RemoveElement
<1>2. QED
  BY <1>1, HeldFinite, LifecycleAssumption DEF ServerTypeOK

(* The position of a hub in the order of the starts. *)
LEMMA HubPosition ==
  ASSUME NEW h \in Hubs
  PROVE  \E i \in 1..Len(HubOrder) : h = HubOrder[i]
BY DEF Hubs

LEMMA HubsAt ==
  ASSUME NEW i \in 1..Len(HubOrder)
  PROVE  HubOrder[i] \in Hubs /\ HubOrder[i] # "pool" /\ Len(HubOrder) \in Nat
BY LifecycleAssumption DEF Hubs

LEMMA ServerInitInd == ServerInit => ServerIndInv
<1> SUFFICES ASSUME ServerInit PROVE ServerIndInv
  OBVIOUS
<1> USE LifecycleAssumption
<1>1. Len(HubOrder) \in Nat
  OBVIOUS
<1>2. ServerTypeOK
  <2>1. Cardinality(held) <= MaxConns
    BY FS_EmptySet DEF ServerInit
  <2>2. left \in [Actors -> 0..MaxStmts]
    BY DEF ServerInit
  <2>3. defers \in Seq(Hubs \cup {"pool"})
    BY DEF ServerInit
  <2>4. QED
    BY <2>1, <2>2, <2>3 DEF ServerInit, ServerTypeOK
<1>3. DefersOK /\ OpenOK
  BY <1>1, HubsAt DEF ServerInit, DefersOK, OpenOK, HubStates
<1>4. HeldOK /\ DrainOK /\ GracefulDrain
  BY DEF ServerInit, HeldOK, DrainOK, GracefulDrain, InFlight, Actors, Requests
<1>5. QED
  BY <1>2, <1>3, <1>4 DEF ServerIndInv

(* What open hubs and an open pool mean for the handlers. *)
LEMMA OpenWhileServing ==
  ASSUME ServerIndInv, main \in {"boot", "serving", "draining"}
  PROVE  /\ pool = "open"
         /\ main # "boot" => \A h \in Hubs : hub[h] = "open"
<1>1. defers # <<>> /\ Len(defers) \in Nat
  BY LifecycleAssumption DEF ServerIndInv, ServerTypeOK, DefersOK
<1>2. pool = "open"
  BY <1>1 DEF ServerIndInv, ServerTypeOK, OpenOK
<1>3. ASSUME main # "boot", NEW h \in Hubs PROVE hub[h] = "open"
  <2>1. PICK i \in 1..Len(HubOrder) : h = HubOrder[i]
    BY HubPosition
  <2>2. Len(defers) = Len(HubOrder) + 1 /\ Len(HubOrder) \in Nat
    BY <1>3, HubsAt, <2>1 DEF ServerIndInv, DefersOK
  <2>3. HubStates(i) = {"open"}
    BY <2>2 DEF HubStates
  <2>4. QED
    BY <2>1, <2>3 DEF ServerIndInv, OpenOK
<1>4. QED
  BY <1>2, <1>3

(* Steps of handlers, jobs, workers and listeners. *)
ActorsMove == UNCHANGED <<main, defers, expired, pool, hub>>

LEMMA ActorsMoveKeeps ==
  ASSUME ServerIndInv, ActorsMove
  PROVE  DefersOK' /\ OpenOK'
BY DEF ServerIndInv, ActorsMove, DefersOK, OpenOK, HubStates

(* A request that moves is in flight, hence not at boot and, after the     *)
(* drain, only when the deadline has passed.                               *)
LEMMA DrainKept ==
  ASSUME ServerIndInv, ActorsMove, InFlight' \subseteq InFlight \/ main = "serving",
         main = "boot" => at' = at
  PROVE  DrainOK'
BY DEF ServerIndInv, ActorsMove, DrainOK

LEMMA AcceptKeeps ==
  ASSUME ServerIndInv, NEW q \in Requests, Accept(q)
  PROVE  ServerIndInv'
<1>1. ServerTypeOK'
  BY DEF Accept, ServerIndInv, ServerTypeOK, Actors
<1>2. DefersOK' /\ OpenOK'
  BY ActorsMoveKeeps DEF Accept, ActorsMove
<1>3. HeldOK' /\ GracefulDrain'
  BY DEF Accept, ServerIndInv, ServerTypeOK, HeldOK, GracefulDrain
<1>4. DrainOK'
  BY DrainKept DEF Accept, ActorsMove, ServerIndInv, DrainOK, Actors, Requests
<1>5. QED
  BY <1>1, <1>2, <1>3, <1>4 DEF ServerIndInv

LEMMA StartJobKeeps ==
  ASSUME ServerIndInv, NEW q \in Plain, NEW j \in Jobs, StartJob(q, j)
  PROVE  ServerIndInv'
<1>1. ServerTypeOK'
  BY DEF StartJob, ServerIndInv, ServerTypeOK, Actors
<1>2. DefersOK' /\ OpenOK'
  BY ActorsMoveKeeps DEF StartJob, ActorsMove
<1>3. HeldOK' /\ GracefulDrain'
  BY DEF StartJob, ServerIndInv, ServerTypeOK, HeldOK, GracefulDrain
<1>4. InFlight' \subseteq InFlight
  BY LifecycleAssumption DEF StartJob, InFlight, ServerIndInv, ServerTypeOK, Actors, Requests
<1>5. DrainOK'
  BY <1>4, DrainKept DEF StartJob, ActorsMove, ServerIndInv, DrainOK, Actors, Requests
<1>6. QED
  BY <1>1, <1>2, <1>3, <1>5 DEF ServerIndInv

LEMMA QueryKeeps ==
  ASSUME ServerIndInv, NEW u \in Actors, Query(u)
  PROVE  ServerIndInv'
<1>1. ServerTypeOK'
  BY DEF Query, ServerIndInv, ServerTypeOK
<1>2. DefersOK' /\ OpenOK'
  BY ActorsMoveKeeps DEF Query, ActorsMove
<1>3. HeldOK' /\ GracefulDrain'
  BY DEF Query, ServerIndInv, ServerTypeOK, HeldOK, GracefulDrain
<1>4. InFlight' \subseteq InFlight
  BY DEF Query, InFlight, ServerIndInv, ServerTypeOK
<1>5. DrainOK'
  BY <1>4, DrainKept DEF Query, ActorsMove, ServerIndInv, DrainOK, Actors, Requests
<1>6. QED
  BY <1>1, <1>2, <1>3, <1>5 DEF ServerIndInv

LEMMA AcquireKeeps ==
  ASSUME ServerIndInv, NEW u \in Actors, Acquire(u)
  PROVE  ServerIndInv'
<1>1. ServerTypeOK'
  BY TakeConnection DEF Acquire, ServerIndInv, ServerTypeOK
<1>2. DefersOK' /\ OpenOK'
  BY ActorsMoveKeeps DEF Acquire, ActorsMove
<1>3. HeldOK' /\ GracefulDrain'
  BY LifecycleAssumption DEF Acquire, ServerIndInv, ServerTypeOK, HeldOK, GracefulDrain
<1>4. InFlight' \subseteq InFlight
  BY DEF Acquire, InFlight, ServerIndInv, ServerTypeOK
<1>5. DrainOK'
  BY <1>4, DrainKept DEF Acquire, ActorsMove, ServerIndInv, DrainOK, Actors, Requests
<1>6. QED
  BY <1>1, <1>2, <1>3, <1>5 DEF ServerIndInv

(* The pool refuses after the drain only; a request that is there then is  *)
(* one the deadline has left behind.                                       *)
LEMMA AcquireRefusedKeeps ==
  ASSUME ServerIndInv, NEW u \in Actors, AcquireRefused(u)
  PROVE  ServerIndInv'
<1>1. ServerTypeOK'
  BY DEF AcquireRefused, ServerIndInv, ServerTypeOK
<1>2. DefersOK' /\ OpenOK'
  BY ActorsMoveKeeps DEF AcquireRefused, ActorsMove
<1>3. HeldOK'
  BY DEF AcquireRefused, ServerIndInv, ServerTypeOK, HeldOK
<1>4. InFlight' \subseteq InFlight
  BY DEF AcquireRefused, InFlight, ServerIndInv, ServerTypeOK
<1>5. DrainOK'
  BY <1>4, DrainKept DEF AcquireRefused, ActorsMove, ServerIndInv, DrainOK, Actors, Requests
<1>6. u \in Requests => expired
  <2>1. main = "closing"
    BY OpenWhileServing DEF AcquireRefused, Running, ServerIndInv, ServerTypeOK
  <2>2. u \in Requests => u \in InFlight
    BY DEF AcquireRefused, InFlight
  <2>3. QED
    BY <2>1, <2>2 DEF ServerIndInv, ServerTypeOK, DrainOK
<1>7. GracefulDrain'
  BY <1>6 DEF AcquireRefused, ServerIndInv, GracefulDrain
<1>8. QED
  BY <1>1, <1>2, <1>3, <1>5, <1>7 DEF ServerIndInv

LEMMA ReleaseKeeps ==
  ASSUME ServerIndInv, NEW u \in Actors, Release(u)
  PROVE  ServerIndInv'
<1>1. ServerTypeOK'
  <2>1. left[u] > 0
    BY DEF Release, ServerIndInv, HeldOK
  <2>2. left[u] - 1 \in 0..MaxStmts
    BY <2>1, LifecycleAssumption DEF ServerIndInv, ServerTypeOK
  <2>3. left' \in [Actors -> 0..MaxStmts]
    BY <2>2 DEF Release, ServerIndInv, ServerTypeOK
  <2>4. QED
    BY <2>3, GiveConnection DEF Release, ServerIndInv, ServerTypeOK
<1>2. DefersOK' /\ OpenOK'
  BY ActorsMoveKeeps DEF Release, ActorsMove
<1>3. HeldOK' /\ GracefulDrain'
  BY LifecycleAssumption DEF Release, ServerIndInv, ServerTypeOK, HeldOK, GracefulDrain
<1>4. InFlight' \subseteq InFlight
  BY DEF Release, InFlight, ServerIndInv, ServerTypeOK
<1>5. DrainOK'
  BY <1>4, DrainKept DEF Release, ActorsMove, ServerIndInv, DrainOK, Actors, Requests
<1>6. QED
  BY <1>1, <1>2, <1>3, <1>5 DEF ServerIndInv

LEMMA ReturnKeeps ==
  ASSUME ServerIndInv, NEW u \in Actors, Return(u)
  PROVE  ServerIndInv'
<1>1. ServerTypeOK'
  BY DEF Return, ServerIndInv, ServerTypeOK
<1>2. DefersOK' /\ OpenOK'
  BY ActorsMoveKeeps DEF Return, ActorsMove
<1>3. HeldOK' /\ GracefulDrain'
  BY DEF Return, ServerIndInv, ServerTypeOK, HeldOK, GracefulDrain
<1>4. InFlight' \subseteq InFlight
  BY DEF Return, InFlight, ServerIndInv, ServerTypeOK, Requests, Actors
<1>5. DrainOK'
  BY <1>4, DrainKept DEF Return, ActorsMove, ServerIndInv, DrainOK, Actors, Requests
<1>6. QED
  BY <1>1, <1>2, <1>3, <1>5 DEF ServerIndInv

LEMMA CancelledKeeps ==
  ASSUME ServerIndInv, NEW u \in Actors, Cancelled(u)
  PROVE  ServerIndInv'
<1>1. ServerTypeOK'
  BY GiveConnection DEF Cancelled, ServerIndInv, ServerTypeOK
<1>2. DefersOK' /\ OpenOK'
  BY ActorsMoveKeeps DEF Cancelled, ActorsMove
<1>3. HeldOK' /\ GracefulDrain'
  BY LifecycleAssumption DEF Cancelled, ServerIndInv, ServerTypeOK, HeldOK, GracefulDrain
<1>4. InFlight' \subseteq InFlight
  BY LifecycleAssumption DEF Cancelled, InFlight, ServerIndInv, ServerTypeOK, Requests, Actors
<1>5. DrainOK'
  BY <1>4, DrainKept DEF Cancelled, ActorsMove, ServerIndInv, DrainOK, Actors, Requests
<1>6. QED
  BY <1>1, <1>2, <1>3, <1>5 DEF ServerIndInv

LEMMA SubscribeKeeps ==
  ASSUME ServerIndInv, NEW q \in Actors, Subscribe(q)
  PROVE  ServerIndInv'
<1>1. ServerTypeOK'
  BY DEF Subscribe, ServerIndInv, ServerTypeOK
<1>2. DefersOK' /\ OpenOK'
  BY ActorsMoveKeeps DEF Subscribe, ActorsMove
<1>3. HeldOK' /\ GracefulDrain'
  BY DEF Subscribe, ServerIndInv, ServerTypeOK, HeldOK, GracefulDrain
<1>4. InFlight' \subseteq InFlight
  BY DEF Subscribe, InFlight, ServerIndInv, ServerTypeOK, Requests, Actors
<1>5. DrainOK'
  BY <1>4, DrainKept DEF Subscribe, ActorsMove, ServerIndInv, DrainOK, Actors, Requests
<1>6. QED
  BY <1>1, <1>2, <1>3, <1>5 DEF ServerIndInv

LEMMA SilentSecondKeeps ==
  ASSUME ServerIndInv, NEW h \in Hubs, SilentSecond(h)
  PROVE  ServerIndInv'
<1>1. ServerTypeOK'
  BY GiveConnection DEF SilentSecond, ServerIndInv, ServerTypeOK
<1>2. DefersOK' /\ OpenOK'
  BY ActorsMoveKeeps DEF SilentSecond, ActorsMove
<1>3. HeldOK' /\ GracefulDrain'
  BY LifecycleAssumption DEF SilentSecond, ServerIndInv, ServerTypeOK, HeldOK, GracefulDrain
<1>4. InFlight' \subseteq InFlight
  BY LifecycleAssumption DEF SilentSecond, InFlight, ServerIndInv, ServerTypeOK, Requests, Actors
<1>5. DrainOK'
  BY <1>4, DrainKept DEF SilentSecond, ActorsMove, ServerIndInv, DrainOK, Actors, Requests
<1>6. QED
  BY <1>1, <1>2, <1>3, <1>5 DEF ServerIndInv

(* Notifications move nothing but the listener. *)
LEMMA NotificationKeeps ==
  ASSUME ServerIndInv, NEW h \in Hubs, Notified(h) \/ WaitsAgain(h)
  PROVE  ServerIndInv'
<1>1. ServerTypeOK'
  BY DEF Notified, WaitsAgain, ServerIndInv, ServerTypeOK
<1>2. DefersOK' /\ OpenOK'
  BY ActorsMoveKeeps DEF Notified, WaitsAgain, ActorsMove
<1>3. UNCHANGED <<main, expired, pool, held, hub, at, left, refused, cut>>
  BY DEF Notified, WaitsAgain
<1>4. HeldOK' /\ DrainOK' /\ GracefulDrain'
  BY <1>3 DEF ServerIndInv, HeldOK, DrainOK, GracefulDrain, InFlight
<1>5. QED
  BY <1>1, <1>2, <1>4 DEF ServerIndInv

LEMMA ListenerFailsKeeps ==
  ASSUME ServerIndInv, NEW h \in Hubs, ListenerFails(h)
  PROVE  ServerIndInv'
<1>1. ServerTypeOK'
  BY GiveConnection DEF ListenerFails, ServerIndInv, ServerTypeOK
<1>2. DefersOK' /\ OpenOK'
  BY ActorsMoveKeeps DEF ListenerFails, ActorsMove
<1>3. HeldOK' /\ GracefulDrain'
  BY LifecycleAssumption DEF ListenerFails, ServerIndInv, ServerTypeOK, HeldOK, GracefulDrain
<1>4. InFlight' \subseteq InFlight
  BY LifecycleAssumption DEF ListenerFails, InFlight, ServerIndInv, ServerTypeOK, Requests, Actors
<1>5. DrainOK'
  BY <1>4, DrainKept DEF ListenerFails, ActorsMove, ServerIndInv, DrainOK, Actors, Requests
<1>6. QED
  BY <1>1, <1>2, <1>3, <1>5 DEF ServerIndInv

(* A hub that is not open is one main has begun to close. *)
LEMMA StreamEndsKeeps ==
  ASSUME ServerIndInv, NEW q \in Actors, StreamEnds(q)
  PROVE  ServerIndInv'
<1>1. ServerTypeOK'
  BY DEF StreamEnds, ServerIndInv, ServerTypeOK
<1>2. DefersOK' /\ OpenOK'
  BY ActorsMoveKeeps DEF StreamEnds, ActorsMove
<1>3. HeldOK'
  BY DEF StreamEnds, ServerIndInv, ServerTypeOK, HeldOK
<1>4. InFlight' \subseteq InFlight
  BY DEF StreamEnds, InFlight, ServerIndInv, ServerTypeOK
<1>5. DrainOK'
  BY <1>4, DrainKept DEF StreamEnds, ActorsMove, ServerIndInv, DrainOK, Actors, Requests
<1>6. expired
  <2>1. q \in InFlight
    BY DEF StreamEnds, InFlight, Requests
  <2>2. main # "boot"
    BY <2>1 DEF ServerIndInv, DrainOK, InFlight, Actors
  <2>3. Feeds[q] \in Hubs
    BY LifecycleAssumption DEF StreamEnds
  <2>4. main = "closing"
    BY <2>2, <2>3, OpenWhileServing DEF StreamEnds, Running, ServerIndInv, ServerTypeOK
  <2>5. QED
    BY <2>1, <2>4 DEF ServerIndInv, ServerTypeOK, DrainOK
<1>7. GracefulDrain'
  BY <1>6 DEF StreamEnds, ServerIndInv, GracefulDrain
<1>8. QED
  BY <1>1, <1>2, <1>3, <1>5, <1>7 DEF ServerIndInv

(***************************************************************************)
(* Steps of main.                                                          *)
(***************************************************************************)

LEMMA StartHubKeeps ==
  ASSUME ServerIndInv, StartHub
  PROVE  ServerIndInv'
<1> DEFINE n == Len(defers)
           h == HubOrder[n]
<1>1. n \in 1..Len(HubOrder) /\ Len(HubOrder) \in Nat /\ h \in Hubs /\ h # "pool"
  <2>1. n \in Nat /\ n # 0 /\ Len(HubOrder) \in Nat
    BY LifecycleAssumption DEF StartHub, ServerIndInv, ServerTypeOK, DefersOK
  <2>2. n \in 1..Len(HubOrder)
    BY <2>1 DEF StartHub
  <2>3. QED
    BY <2>1, <2>2, HubsAt
<1>2. ServerTypeOK'
  <2>1. held' \subseteq Hubs \cup Actors /\ Cardinality(held') <= MaxConns
    BY <1>1, TakeConnection DEF StartHub, ServerIndInv
  <2>2. defers' \in Seq(Hubs \cup {"pool"})
    BY <1>1 DEF StartHub, ServerIndInv, ServerTypeOK
  <2>3. QED
    BY <1>1, <2>1, <2>2 DEF StartHub, ServerIndInv, ServerTypeOK
<1>3. /\ Len(defers') = n + 1 /\ defers'[n + 1] = h
      /\ \A i \in 1..n : defers'[i] = defers[i]
  BY <1>1 DEF StartHub, ServerIndInv, ServerTypeOK
<1>4. DefersOK'
  BY <1>1, <1>3 DEF StartHub, ServerIndInv, DefersOK
<1>5. OpenOK'
  <2>1. ASSUME NEW i \in 1..Len(HubOrder) PROVE hub'[HubOrder[i]] \in HubStates(i)'
    <3>1. HubOrder[i] \in Hubs /\ (i # n => HubOrder[i] # h)
      BY <1>1, HubsAt, LifecycleAssumption
    <3>2. hub'[HubOrder[i]] = IF i = n THEN "open" ELSE hub[HubOrder[i]]
      BY <3>1, <1>1 DEF StartHub, ServerIndInv, ServerTypeOK
    <3>3. hub[HubOrder[i]] \in HubStates(i)
      BY DEF ServerIndInv, OpenOK
    <3>4. QED
      BY <3>2, <3>3, <1>1, <1>3 DEF HubStates, StartHub
  <2>2. defers' # <<>> /\ pool = "open" /\ pool' = pool
    BY <1>1, <1>3, OpenWhileServing DEF StartHub
  <2>3. QED
    BY <2>1, <2>2 DEF OpenOK
<1>6. HeldOK'
  BY <1>1, LifecycleAssumption, OpenWhileServing
     DEF StartHub, ServerIndInv, ServerTypeOK, HeldOK
<1>7. DrainOK' /\ GracefulDrain'
  BY DEF StartHub, ServerIndInv, DrainOK, GracefulDrain, InFlight
<1>8. QED
  BY <1>2, <1>4, <1>5, <1>6, <1>7 DEF ServerIndInv

(* The steps that only move main on: to failed, serving, draining, closing *)
(* and exited.                                                             *)
LEMMA MainMovesKeeps ==
  ASSUME ServerIndInv, BootFails \/ Signal \/ ShutdownReturns
  PROVE  ServerIndInv'
<1>1. ServerTypeOK'
  BY DEF BootFails, Signal, ShutdownReturns, ServerIndInv, ServerTypeOK
<1>2. DefersOK'
  BY DEF BootFails, Signal, ShutdownReturns, ServerIndInv, DefersOK
<1>3. OpenOK'
  <2>1. pool = "open"
    BY OpenWhileServing DEF BootFails, Signal, ShutdownReturns
  <2>2. ASSUME NEW i \in 1..Len(HubOrder) PROVE hub'[HubOrder[i]] \in HubStates(i)'
    <3>1. main # "boot" => Len(defers) = Len(HubOrder) + 1
      BY DEF BootFails, Signal, ShutdownReturns, ServerIndInv, DefersOK
    <3>2. hub[HubOrder[i]] \in HubStates(i)
      BY DEF ServerIndInv, OpenOK
    <3>3. QED
      BY <3>1, <3>2, HubsAt DEF BootFails, Signal, ShutdownReturns, HubStates
  <2>3. defers # <<>>
    BY DEF BootFails, Signal, ShutdownReturns, ServerIndInv, DefersOK
  <2>4. QED
    BY <2>1, <2>2, <2>3 DEF BootFails, Signal, ShutdownReturns, OpenOK
<1>4. HeldOK' /\ GracefulDrain'
  BY DEF BootFails, Signal, ShutdownReturns, ServerIndInv, HeldOK, GracefulDrain
<1>5. DrainOK'
  BY DEF BootFails, Signal, ShutdownReturns, ServerIndInv, DrainOK, InFlight
<1>6. QED
  BY <1>1, <1>2, <1>3, <1>4, <1>5 DEF ServerIndInv

LEMMA ListenAndServeKeeps ==
  ASSUME ServerIndInv, ListenAndServe
  PROVE  ServerIndInv'
<1>1. ServerTypeOK'
  BY DEF ListenAndServe, ServerIndInv, ServerTypeOK
<1>2. Len(defers) = Len(HubOrder) + 1 /\ Len(HubOrder) \in Nat
  BY LifecycleAssumption DEF ListenAndServe, ServerIndInv, ServerTypeOK, DefersOK
<1>3. DefersOK'
  BY <1>2 DEF ListenAndServe, ServerIndInv, DefersOK
<1>4. OpenOK'
  BY <1>2 DEF ListenAndServe, ServerIndInv, OpenOK, HubStates
<1>5. \A u \in Workers : at[u] = "idle"
  BY DEF ListenAndServe, ServerIndInv, DrainOK, Actors
<1>6. HeldOK'
  BY <1>5 DEF ListenAndServe, ServerIndInv, ServerTypeOK, HeldOK, Actors
<1>7. DrainOK' /\ GracefulDrain'
  BY DEF ListenAndServe, ServerIndInv, DrainOK, GracefulDrain
<1>8. QED
  BY <1>1, <1>3, <1>4, <1>6, <1>7 DEF ServerIndInv

LEMMA DeadlineExpiresKeeps ==
  ASSUME ServerIndInv, DeadlineExpires
  PROVE  ServerIndInv'
BY DEF DeadlineExpires, ServerIndInv, ServerTypeOK, DefersOK, OpenOK, HubStates, HeldOK,
       DrainOK, GracefulDrain, InFlight

LEMMA Predecessor ==
  ASSUME NEW n \in Nat, NEW k \in Nat, n \in 1..(k + 1), n # 1
  PROVE  n \in 2..(k + 1) /\ n - 1 \in 1..k
OBVIOUS

(* The deferred call that is next is the hub at its place, or the pool. *)
LEMMA DeferredIs ==
  ASSUME ServerIndInv, defers # <<>>
  PROVE  /\ Len(defers) \in 1..(Len(HubOrder) + 1) /\ Len(HubOrder) \in Nat
         /\ Deferred = IF Len(defers) = 1 THEN "pool" ELSE HubOrder[Len(defers) - 1]
         /\ Deferred \in Hubs <=> Len(defers) # 1
<1>1. Len(defers) \in Nat \ {0} /\ Len(HubOrder) \in Nat
  BY LifecycleAssumption DEF ServerIndInv, ServerTypeOK
<1>2. Len(defers) \in 1..(Len(HubOrder) + 1)
  BY <1>1 DEF ServerIndInv, DefersOK
<1>3. Deferred = IF Len(defers) = 1 THEN "pool" ELSE HubOrder[Len(defers) - 1]
  <2>1. Len(defers) \in 1..Len(defers)
    BY <1>1
  <2>2. QED
    BY <2>1 DEF Deferred, ServerIndInv, DefersOK
<1>4. Len(defers) # 1 => HubOrder[Len(defers) - 1] \in Hubs
  <2>1. Len(defers) # 1 => Len(defers) - 1 \in 1..Len(HubOrder)
    BY <1>1, <1>2, Predecessor
  <2>2. QED
    BY <2>1, HubsAt
<1>5. QED
  BY <1>1, <1>2, <1>3, <1>4, LifecycleAssumption

LEMMA CloseHubKeeps ==
  ASSUME ServerIndInv, CloseHub
  PROVE  ServerIndInv'
<1> DEFINE n == Len(defers)
           h == HubOrder[n - 1]
<1>1. /\ n \in 2..(Len(HubOrder) + 1) /\ Len(HubOrder) \in Nat
      /\ Deferred = h /\ h \in Hubs /\ n - 1 \in 1..Len(HubOrder)
  <2>1. /\ n \in 1..(Len(HubOrder) + 1) /\ Len(HubOrder) \in Nat /\ n # 1
        /\ Deferred = IF n = 1 THEN "pool" ELSE h
        /\ Deferred \in Hubs
    BY DeferredIs DEF CloseHub
  <2>2. n \in 2..(Len(HubOrder) + 1) /\ n - 1 \in 1..Len(HubOrder)
    <3>1. n \in Nat
      BY DEF ServerIndInv, ServerTypeOK
    <3> HIDE DEF n
    <3>2. QED
      BY <2>1, <3>1, Predecessor
  <2>3. QED
    BY <2>1, <2>2
<1>2. ServerTypeOK'
  BY <1>1 DEF CloseHub, ServerIndInv, ServerTypeOK
<1>3. DefersOK'
  BY DEF CloseHub, ServerIndInv, DefersOK
<1>4. ASSUME NEW i \in 1..Len(HubOrder) PROVE hub'[HubOrder[i]] \in HubStates(i)'
  <2>1. HubOrder[i] \in Hubs /\ (i # n - 1 => HubOrder[i] # h)
    BY <1>1, HubsAt, LifecycleAssumption
  <2>2. hub'[HubOrder[i]] = IF i = n - 1 THEN "closing" ELSE hub[HubOrder[i]]
    BY <2>1, <1>1 DEF CloseHub, ServerIndInv, ServerTypeOK
  <2>3. hub[HubOrder[i]] \in HubStates(i)
    BY DEF ServerIndInv, OpenOK
  <2>4. QED
    BY <2>2, <2>3, <1>1 DEF HubStates, CloseHub
<1>5. OpenOK'
  BY <1>1, <1>4 DEF CloseHub, ServerIndInv, OpenOK
<1>6. HeldOK'
  BY <1>1 DEF CloseHub, ServerIndInv, ServerTypeOK, HeldOK
<1>7. DrainOK' /\ GracefulDrain'
  BY DEF CloseHub, ServerIndInv, DrainOK, GracefulDrain, InFlight
<1>8. QED
  BY <1>2, <1>3, <1>5, <1>6, <1>7 DEF ServerIndInv

(* What Pop does to the deferred calls. *)
LEMMA PopShortens ==
  ASSUME ServerIndInv, defers # <<>>, Pop
  PROVE  /\ defers' \in Seq(Hubs \cup {"pool"}) /\ Len(defers') = Len(defers) - 1
         /\ \A i \in 1..(Len(defers) - 1) : defers'[i] = defers[i]
<1> DEFINE n == Len(defers)
           S == Hubs \cup {"pool"}
<1>1. n \in Nat \ {0} /\ \A i \in 1..n : defers[i] \in S
  BY DEF ServerIndInv, ServerTypeOK
<1>2. defers' = SubSeq(defers, 1, n - 1)
  BY DEF Pop
<1> HIDE DEF n, S
<1>3. 1 \in Int /\ n - 1 \in Int /\ \A i \in 1..(n - 1) : defers[i] \in S
  BY <1>1
<1>4. /\ SubSeq(defers, 1, n - 1) \in Seq(S)
      /\ Len(SubSeq(defers, 1, n - 1)) = IF 1 <= n - 1 THEN (n - 1) - 1 + 1 ELSE 0
      /\ \A i \in 1..((n - 1) - 1 + 1) : SubSeq(defers, 1, n - 1)[i] = defers[1 + i - 1]
  BY <1>3, SubSeqProperties
<1>5. Len(defers') = n - 1 /\ \A i \in 1..(n - 1) : defers'[i] = defers[i]
  BY <1>1, <1>2, <1>4
<1>6. QED
  BY <1>2, <1>4, <1>5 DEF n, S

LEMMA CloseHubReturnsKeeps ==
  ASSUME ServerIndInv, CloseHubReturns
  PROVE  ServerIndInv'
<1> DEFINE n == Len(defers)
           h == HubOrder[n - 1]
<1>1. /\ n \in 2..(Len(HubOrder) + 1) /\ Len(HubOrder) \in Nat
      /\ Deferred = h /\ h \in Hubs /\ n - 1 \in 1..Len(HubOrder)
  <2>1. /\ n \in 1..(Len(HubOrder) + 1) /\ Len(HubOrder) \in Nat /\ n # 1
        /\ Deferred = IF n = 1 THEN "pool" ELSE h
        /\ Deferred \in Hubs
    BY DeferredIs DEF CloseHubReturns
  <2>2. n \in 2..(Len(HubOrder) + 1) /\ n - 1 \in 1..Len(HubOrder)
    <3>1. n \in Nat
      BY DEF ServerIndInv, ServerTypeOK
    <3> HIDE DEF n
    <3>2. QED
      BY <2>1, <3>1, Predecessor
  <2>3. QED
    BY <2>1, <2>2
<1>2. /\ defers' \in Seq(Hubs \cup {"pool"}) /\ Len(defers') = n - 1
      /\ \A i \in 1..(n - 1) : defers'[i] = defers[i]
  BY PopShortens DEF CloseHubReturns
<1>3. ServerTypeOK'
  BY <1>1, <1>2 DEF CloseHubReturns, ServerIndInv, ServerTypeOK
<1>4. DefersOK'
  BY <1>1, <1>2 DEF CloseHubReturns, ServerIndInv, DefersOK
<1>5. ASSUME NEW i \in 1..Len(HubOrder) PROVE hub'[HubOrder[i]] \in HubStates(i)'
  <2>1. HubOrder[i] \in Hubs /\ (i # n - 1 => HubOrder[i] # h)
    BY <1>1, HubsAt, LifecycleAssumption
  <2>2. hub'[HubOrder[i]] = IF i = n - 1 THEN "closed" ELSE hub[HubOrder[i]]
    BY <2>1, <1>1 DEF CloseHubReturns, ServerIndInv, ServerTypeOK
  <2>3. hub[HubOrder[i]] \in HubStates(i)
    BY DEF ServerIndInv, OpenOK
  <2>4. QED
    BY <2>2, <2>3, <1>1, <1>2 DEF HubStates, CloseHubReturns
<1>6. OpenOK'
  <2>1. pool = "open" /\ pool' = pool
    <3>1. pool' = pool /\ Len(defers) # 1 /\ defers # <<>>
      BY DeferredIs DEF CloseHubReturns
    <3>2. QED
      BY <3>1 DEF ServerIndInv, ServerTypeOK, OpenOK
  <2>2. defers' # <<>>
    BY <1>1, <1>2
  <2>3. QED
    BY <1>5, <2>1, <2>2 DEF OpenOK
<1>7. HeldOK'
  BY <1>1 DEF CloseHubReturns, ServerIndInv, ServerTypeOK, HeldOK
<1>8. DrainOK' /\ GracefulDrain'
  BY DEF CloseHubReturns, ServerIndInv, DrainOK, GracefulDrain, InFlight
<1>9. QED
  BY <1>3, <1>4, <1>6, <1>7, <1>8 DEF ServerIndInv

LEMMA ClosePoolKeeps ==
  ASSUME ServerIndInv, ClosePool
  PROVE  ServerIndInv'
<1>1. Len(defers) = 1
  BY DeferredIs, LifecycleAssumption DEF ClosePool
<1>2. ServerTypeOK' /\ DefersOK'
  BY DEF ClosePool, ServerIndInv, ServerTypeOK, DefersOK
<1>3. OpenOK'
  BY <1>1 DEF ClosePool, ServerIndInv, OpenOK, HubStates
<1>4. HeldOK' /\ DrainOK' /\ GracefulDrain'
  BY DEF ClosePool, ServerIndInv, HeldOK, DrainOK, GracefulDrain, InFlight
<1>5. QED
  BY <1>2, <1>3, <1>4 DEF ServerIndInv

LEMMA ClosePoolReturnsKeeps ==
  ASSUME ServerIndInv, ClosePoolReturns
  PROVE  ServerIndInv'
<1>1. Len(defers) = 1 /\ Len(HubOrder) \in Nat
  BY DeferredIs, LifecycleAssumption DEF ClosePoolReturns
<1>2. defers' \in Seq(Hubs \cup {"pool"}) /\ Len(defers') = 0
  BY <1>1, PopShortens DEF ClosePoolReturns
<1>3. defers' = <<>>
  BY <1>2
<1>4. ServerTypeOK'
  BY <1>2 DEF ClosePoolReturns, ServerIndInv, ServerTypeOK
<1>5. DefersOK'
  BY <1>1, <1>2, <1>3 DEF ClosePoolReturns, DefersOK
<1>6. OpenOK'
  BY <1>1, <1>2, <1>3 DEF ClosePoolReturns, ServerIndInv, OpenOK, HubStates
<1>7. HeldOK' /\ DrainOK' /\ GracefulDrain'
  BY DEF ClosePoolReturns, ServerIndInv, HeldOK, DrainOK, GracefulDrain, InFlight
<1>8. QED
  BY <1>4, <1>5, <1>6, <1>7 DEF ServerIndInv

LEMMA MainReturnsKeeps ==
  ASSUME ServerIndInv, MainReturns
  PROVE  ServerIndInv'
<1>1. ServerTypeOK' /\ DefersOK'
  BY DEF MainReturns, ServerIndInv, ServerTypeOK, DefersOK
<1>2. Len(defers) = 0 /\ Len(HubOrder) \in Nat
  BY LifecycleAssumption DEF MainReturns
<1>3. OpenOK'
  BY <1>2 DEF MainReturns, ServerIndInv, OpenOK, HubStates
<1>4. HeldOK' /\ DrainOK' /\ GracefulDrain'
  BY DEF MainReturns, ServerIndInv, HeldOK, DrainOK, GracefulDrain, InFlight
<1>5. QED
  BY <1>1, <1>3, <1>4 DEF ServerIndInv

LEMMA ServerInductive == ServerSpec => []ServerIndInv
<1>1. ServerIndInv /\ ServerNext => ServerIndInv'
  <2> SUFFICES ASSUME ServerIndInv, ServerNext PROVE ServerIndInv'
    OBVIOUS
  <2>1. CASE Main
    BY <2>1, StartHubKeeps, ListenAndServeKeeps, MainMovesKeeps, CloseHubKeeps,
       CloseHubReturnsKeeps, ClosePoolKeeps, ClosePoolReturnsKeeps, MainReturnsKeeps DEF Main
  <2>2. CASE BootFails \/ Signal \/ DeadlineExpires
    BY <2>2, MainMovesKeeps, DeadlineExpiresKeeps
  <2>3. CASE \E h \in Hubs : Listener(h) \/ Notified(h) \/ ListenerFails(h)
    BY <2>3, SilentSecondKeeps, NotificationKeeps, ListenerFailsKeeps DEF Listener
  <2>4. CASE \E q \in Requests : Accept(q)
    BY <2>4, AcceptKeeps
  <2>5. CASE \E q \in Plain, j \in Jobs : StartJob(q, j)
    BY <2>5, StartJobKeeps
  <2>6. CASE \E u \in Actors : ActorStep(u) \/ Acquire(u) \/ Cancelled(u)
    BY <2>6, QueryKeeps, AcquireKeeps, AcquireRefusedKeeps, ReleaseKeeps, ReturnKeeps,
       CancelledKeeps, SubscribeKeeps, StreamEndsKeeps DEF ActorStep
  <2>7. QED
    BY <2>1, <2>2, <2>3, <2>4, <2>5, <2>6 DEF ServerNext
<1>2. ServerIndInv /\ UNCHANGED serverVars => ServerIndInv'
  BY DEF serverVars, ServerIndInv, ServerTypeOK, DefersOK, OpenOK, HubStates, HeldOK, DrainOK,
         GracefulDrain, InFlight
<1>3. QED
  BY <1>1, <1>2, ServerInitInd, PTL DEF ServerSpec

(* Every variable of the process keeps its type; in particular never more  *)
(* connections are out than RELIC_PG_MAX_CONNS.                            *)
THEOREM ServerTypeCorrect == ServerSpec => []ServerTypeOK
<1>1. ServerIndInv => ServerTypeOK
  BY DEF ServerIndInv
<1>2. QED
  BY <1>1, ServerInductive, PTL

(* Until the deadline of http.Server.Shutdown passes, no accepted request  *)
(* is refused a connection and no stream is cut by the server.             *)
THEOREM DrainsGracefully == ServerSpec => []GracefulDrain
<1>1. ServerIndInv => GracefulDrain
  BY DEF ServerIndInv
<1>2. QED
  BY <1>1, ServerInductive, PTL

(* The deferred closes of main: the pool comes after both hubs, and main   *)
(* returns with no statement running and no connection out.                *)
THEOREM ClosesOrdered == ServerSpec => []ClosesInOrder
<1>1. ServerIndInv => ClosesInOrder
  <2> SUFFICES ASSUME ServerIndInv PROVE ClosesInOrder
    OBVIOUS
  <2>1. ASSUME pool # "open", NEW h \in Hubs PROVE hub[h] = "closed" /\ h \notin held
    <3>1. PICK i \in 1..Len(HubOrder) : h = HubOrder[i]
      BY HubPosition
    <3>2. Len(defers) \in 0..1 /\ main \in {"closing", "exited"}
      <4>1. CASE pool = "closing"
        BY <4>1 DEF ServerIndInv, OpenOK
      <4>2. CASE pool = "closed"
        <5>1. defers = <<>>
          BY <4>2 DEF ServerIndInv, OpenOK
        <5>2. main # "failed"
          BY <5>1 DEF ServerIndInv, DefersOK
        <5>3. QED
          BY <5>1, <5>2 DEF ServerIndInv, ServerTypeOK, DefersOK
      <4>3. QED
        BY <2>1, <4>1, <4>2 DEF ServerIndInv, ServerTypeOK
    <3>3. HubStates(i) = {"closed"}
      <4>1. ~(i + 1 < Len(defers)) /\ i + 1 # Len(defers)
        <5>1. \A k \in Nat \ {0}, n \in 0..1 : ~(k + 1 < n) /\ k + 1 # n
          OBVIOUS
        <5>2. i \in Nat \ {0}
          BY LifecycleAssumption
        <5>3. QED
          BY <5>1, <5>2, <3>2
      <4>2. QED
        BY <3>2, <4>1 DEF HubStates
    <3>4. QED
      BY <3>1, <3>3 DEF ServerIndInv, OpenOK, HeldOK
  <2>2. main = "exited" => pool = "closed" /\ held = {} /\ \A u \in Actors : at[u] # "holding"
    BY DEF ServerIndInv, DefersOK, OpenOK, HeldOK
  <2>3. QED
    BY <2>1, <2>2 DEF ClosesInOrder
<1>2. QED
  BY <1>1, ServerInductive, PTL

-----------------------------------------------------------------------------
(***************************************************************************)
(* Backup.  The last conjunct of the inductive invariant says where the    *)
(* objects of the settled runs are at each stage.                          *)
(***************************************************************************)

LEMMA UploadRowKeeps ==
  ASSUME BackupIndInv, NEW k \in Keys, UploadRow(k)
  PROVE  BackupIndInv'
<1>1. BackupTypeOK'
  BY BackupAssumption DEF UploadRow, Touch, BackupIndInv, BackupTypeOK, source, bundle, target
<1>2. (StagesOK /\ RestoreExact)'
  BY DEF UploadRow, Touch, BackupIndInv, StagesOK, RestoreExact, source, bundle, target
<1>3. SettledKept'
  BY DEF UploadRow, Touch, BackupIndInv, BackupTypeOK, StagesOK, SettledKept, Settled,
         BackupRuns, RestoreExact, source, bundle, target
<1>4. QED
  BY <1>1, <1>2, <1>3 DEF BackupIndInv

LEMMA UploadObjectKeeps ==
  ASSUME BackupIndInv, NEW k \in Keys, UploadObject(k)
  PROVE  BackupIndInv'
<1>1. BackupTypeOK'
  BY BackupAssumption DEF UploadObject, Touch, BackupIndInv, BackupTypeOK, source, bundle,
         target
<1>2. (StagesOK /\ RestoreExact)'
  BY DEF UploadObject, Touch, BackupIndInv, StagesOK, RestoreExact, source, bundle, target
<1>3. SettledKept'
  BY DEF UploadObject, Touch, BackupIndInv, BackupTypeOK, StagesOK, SettledKept, Settled,
         BackupRuns, RestoreExact, source, bundle, target
<1>4. QED
  BY <1>1, <1>2, <1>3 DEF BackupIndInv

LEMMA DeleteRowKeeps ==
  ASSUME BackupIndInv, NEW k \in Keys, DeleteRow(k)
  PROVE  BackupIndInv'
<1>1. BackupTypeOK'
  BY BackupAssumption DEF DeleteRow, Touch, BackupIndInv, BackupTypeOK, source, bundle, target
<1>2. (StagesOK /\ RestoreExact)'
  BY DEF DeleteRow, Touch, BackupIndInv, StagesOK, RestoreExact, source, bundle, target
<1>3. SettledKept'
  BY DEF DeleteRow, Touch, BackupIndInv, BackupTypeOK, StagesOK, SettledKept, Settled,
         BackupRuns, RestoreExact, source, bundle, target
<1>4. QED
  BY <1>1, <1>2, <1>3 DEF BackupIndInv

LEMMA DeleteObjectKeeps ==
  ASSUME BackupIndInv, NEW k \in Keys, DeleteObject(k)
  PROVE  BackupIndInv'
<1>1. BackupTypeOK'
  BY BackupAssumption DEF DeleteObject, Touch, BackupIndInv, BackupTypeOK, source, bundle,
         target
<1>2. (StagesOK /\ RestoreExact)'
  BY DEF DeleteObject, Touch, BackupIndInv, StagesOK, RestoreExact, source, bundle, target
<1>3. SettledKept'
  BY DEF DeleteObject, Touch, BackupIndInv, BackupTypeOK, StagesOK, SettledKept, Settled,
         BackupRuns, RestoreExact, source, bundle, target
<1>4. QED
  BY <1>1, <1>2, <1>3 DEF BackupIndInv

LEMMA CopyBlobKeeps ==
  ASSUME BackupIndInv, NEW k \in Keys, CopyBlob(k)
  PROVE  BackupIndInv'
<1>1. BackupTypeOK'
  <2>1. todo' \subseteq Keys /\ blobs' \subseteq Keys
    BY DEF CopyBlob, BackupIndInv, BackupTypeOK
  <2>2. warned' \in BOOLEAN
    BY DEF CopyBlob, BackupIndInv, BackupTypeOK
  <2>3. QED
    BY <2>1, <2>2 DEF CopyBlob, BackupIndInv, BackupTypeOK, source, bundle, target
<1>2. (StagesOK /\ RestoreExact)'
  BY DEF CopyBlob, BackupIndInv, StagesOK, RestoreExact, source, bundle, target
<1>3. SettledKept'
  BY DEF CopyBlob, BackupIndInv, BackupTypeOK, StagesOK, SettledKept, Settled, BackupRuns,
         RestoreExact, source, bundle, target
<1>4. QED
  BY <1>1, <1>2, <1>3 DEF BackupIndInv

LEMMA PushBlobKeeps ==
  ASSUME BackupIndInv, NEW k \in Keys, PushBlob(k)
  PROVE  BackupIndInv'
<1>1. BackupTypeOK'
  <2>1. push' \subseteq Keys /\ bucket' \subseteq Keys
    BY DEF PushBlob, BackupIndInv, BackupTypeOK
  <2>2. warned' \in BOOLEAN
    BY DEF PushBlob, BackupIndInv, BackupTypeOK
  <2>3. QED
    BY <2>1, <2>2 DEF PushBlob, BackupIndInv, BackupTypeOK, source, bundle, target
<1>2. (StagesOK /\ RestoreExact)'
  BY DEF PushBlob, BackupIndInv, StagesOK, RestoreExact, source, bundle, target
<1>3. SettledKept'
  BY DEF PushBlob, BackupIndInv, BackupTypeOK, StagesOK, SettledKept, Settled, BackupRuns,
         RestoreExact, source, bundle, target
<1>4. QED
  BY <1>1, <1>2, <1>3 DEF BackupIndInv

LEMMA PgDumpKeeps ==
  ASSUME BackupIndInv, PgDump
  PROVE  BackupIndInv'
<1>1. BackupTypeOK'
  BY BackupAssumption DEF PgDump, BackupIndInv, BackupTypeOK, source, bundle, target
<1>2. (StagesOK /\ RestoreExact)'
  BY DEF PgDump, BackupIndInv, StagesOK, RestoreExact, source, bundle, target
<1>3. SettledKept'
  BY DEF PgDump, BackupIndInv, BackupTypeOK, StagesOK, SettledKept, Settled, BackupRuns,
         RestoreExact, source, bundle, target
<1>4. QED
  BY <1>1, <1>2, <1>3 DEF BackupIndInv

LEMMA ListKeysKeeps ==
  ASSUME BackupIndInv, ListKeys
  PROVE  BackupIndInv'
<1>1. BackupTypeOK'
  BY BackupAssumption DEF ListKeys, BackupIndInv, BackupTypeOK, source, bundle, target
<1>2. (StagesOK /\ RestoreExact)'
  BY DEF ListKeys, BackupIndInv, StagesOK, RestoreExact, source, bundle, target
<1>3. SettledKept'
  BY DEF ListKeys, BackupIndInv, BackupTypeOK, StagesOK, SettledKept, Settled, BackupRuns,
         RestoreExact, source, bundle, target
<1>4. QED
  BY <1>1, <1>2, <1>3 DEF BackupIndInv

LEMMA WriteHeadKeeps ==
  ASSUME BackupIndInv, WriteHead
  PROVE  BackupIndInv'
<1>1. BackupTypeOK'
  BY BackupAssumption DEF WriteHead, BackupIndInv, BackupTypeOK, source, bundle, target
<1>2. (StagesOK /\ RestoreExact)'
  BY DEF WriteHead, BackupIndInv, StagesOK, RestoreExact, source, bundle, target
<1>3. SettledKept'
  BY DEF WriteHead, BackupIndInv, BackupTypeOK, StagesOK, SettledKept, Settled, BackupRuns,
         RestoreExact, source, bundle, target
<1>4. QED
  BY <1>1, <1>2, <1>3 DEF BackupIndInv

LEMMA BackupDoneKeeps ==
  ASSUME BackupIndInv, BackupDone
  PROVE  BackupIndInv'
<1>1. BackupTypeOK'
  BY BackupAssumption DEF BackupDone, BackupIndInv, BackupTypeOK, source, bundle, target
<1>2. (StagesOK /\ RestoreExact)'
  BY DEF BackupDone, BackupIndInv, StagesOK, RestoreExact, source, bundle, target
<1>3. SettledKept'
  BY DEF BackupDone, BackupIndInv, BackupTypeOK, StagesOK, SettledKept, Settled, BackupRuns,
         RestoreExact, source, bundle, target
<1>4. QED
  BY <1>1, <1>2, <1>3 DEF BackupIndInv

LEMMA BackupDiesKeeps ==
  ASSUME BackupIndInv, BackupDies
  PROVE  BackupIndInv'
<1>1. BackupTypeOK'
  BY BackupAssumption DEF BackupDies, BackupIndInv, BackupTypeOK, source, bundle, target
<1>2. (StagesOK /\ RestoreExact)'
  BY DEF BackupDies, BackupIndInv, StagesOK, RestoreExact, source, bundle, target
<1>3. SettledKept'
  BY DEF BackupDies, BackupIndInv, BackupTypeOK, StagesOK, SettledKept, Settled, BackupRuns,
         RestoreExact, source, bundle, target
<1>4. QED
  BY <1>1, <1>2, <1>3 DEF BackupIndInv

LEMMA ExtractBundleKeeps ==
  ASSUME BackupIndInv, ExtractBundle
  PROVE  BackupIndInv'
<1>1. BackupTypeOK'
  BY BackupAssumption DEF ExtractBundle, BackupIndInv, BackupTypeOK, source, bundle, target
<1>2. (StagesOK /\ RestoreExact)'
  BY DEF ExtractBundle, BackupIndInv, StagesOK, RestoreExact, source, bundle, target
<1>3. SettledKept'
  BY DEF ExtractBundle, BackupIndInv, BackupTypeOK, StagesOK, SettledKept, Settled, BackupRuns,
         RestoreExact, source, bundle, target
<1>4. QED
  BY <1>1, <1>2, <1>3 DEF BackupIndInv

LEMMA PsqlKeeps ==
  ASSUME BackupIndInv, Psql
  PROVE  BackupIndInv'
<1>1. BackupTypeOK'
  BY BackupAssumption DEF Psql, BackupIndInv, BackupTypeOK, source, bundle, target
<1>2. (StagesOK /\ RestoreExact)'
  BY DEF Psql, BackupIndInv, StagesOK, RestoreExact, source, bundle, target
<1>3. SettledKept'
  BY DEF Psql, BackupIndInv, BackupTypeOK, StagesOK, SettledKept, Settled, BackupRuns,
         RestoreExact, source, bundle, target
<1>4. QED
  BY <1>1, <1>2, <1>3 DEF BackupIndInv

LEMMA PsqlFailsKeeps ==
  ASSUME BackupIndInv, PsqlFails
  PROVE  BackupIndInv'
<1>1. BackupTypeOK'
  BY BackupAssumption DEF PsqlFails, BackupIndInv, BackupTypeOK, source, bundle, target
<1>2. (StagesOK /\ RestoreExact)'
  BY DEF PsqlFails, BackupIndInv, StagesOK, RestoreExact, source, bundle, target
<1>3. SettledKept'
  BY DEF PsqlFails, BackupIndInv, BackupTypeOK, StagesOK, SettledKept, Settled, BackupRuns,
         RestoreExact, source, bundle, target
<1>4. QED
  BY <1>1, <1>2, <1>3 DEF BackupIndInv

LEMMA RestoreDoneKeeps ==
  ASSUME BackupIndInv, RestoreDone
  PROVE  BackupIndInv'
<1>1. BackupTypeOK'
  BY BackupAssumption DEF RestoreDone, BackupIndInv, BackupTypeOK, source, bundle, target
<1>2. (StagesOK /\ RestoreExact)'
  BY DEF RestoreDone, BackupIndInv, StagesOK, RestoreExact, source, bundle, target
<1>3. SettledKept'
  BY DEF RestoreDone, BackupIndInv, BackupTypeOK, StagesOK, SettledKept, Settled, BackupRuns,
         RestoreExact, source, bundle, target
<1>4. QED
  BY <1>1, <1>2, <1>3 DEF BackupIndInv

LEMMA RestoreDiesKeeps ==
  ASSUME BackupIndInv, RestoreDies
  PROVE  BackupIndInv'
<1>1. BackupTypeOK'
  BY BackupAssumption DEF RestoreDies, BackupIndInv, BackupTypeOK, source, bundle, target
<1>2. (StagesOK /\ RestoreExact)'
  BY DEF RestoreDies, BackupIndInv, StagesOK, RestoreExact, source, bundle, target
<1>3. SettledKept'
  BY DEF RestoreDies, BackupIndInv, BackupTypeOK, StagesOK, SettledKept, Settled, BackupRuns,
         RestoreExact, source, bundle, target
<1>4. QED
  BY <1>1, <1>2, <1>3 DEF BackupIndInv

(* Every step keeps the invariant. *)
LEMMA BackupStepKeeps ==
  ASSUME BackupIndInv, [BackupNext]_backupVars
  PROVE  BackupIndInv'
<1>1. CASE UNCHANGED backupVars
  BY <1>1 DEF backupVars, BackupIndInv, BackupTypeOK, StagesOK, SettledKept, Settled,
         RestoreExact, BackupRuns, source, bundle, target
<1>2. CASE \E k \in Keys : UploadRow(k) \/ UploadObject(k) \/ DeleteRow(k) \/ DeleteObject(k)
  BY <1>2, UploadRowKeeps, UploadObjectKeeps, DeleteRowKeeps, DeleteObjectKeeps
<1>3. CASE \E k \in Keys : CopyBlob(k) \/ PushBlob(k)
  BY <1>3, CopyBlobKeeps, PushBlobKeeps
<1>4. CASE PgDump \/ ListKeys \/ WriteHead \/ BackupDone \/ BackupDies
  BY <1>4, PgDumpKeeps, ListKeysKeeps, WriteHeadKeeps, BackupDoneKeeps, BackupDiesKeeps
<1>5. CASE ExtractBundle \/ Psql \/ PsqlFails \/ RestoreDone \/ RestoreDies
  BY <1>5, ExtractBundleKeeps, PsqlKeeps, PsqlFailsKeeps, RestoreDoneKeeps, RestoreDiesKeeps
<1>6. QED
  BY <1>1, <1>2, <1>3, <1>4, <1>5 DEF BackupNext

(* The invariant holds of every behaviour of the two commands. *)
THEOREM BackupInductive == BackupSpec => []BackupIndInv
<1>1. BackupInit => BackupIndInv
  <2>1. BackupInit => BackupTypeOK
    <3>1. BackupInit => tries \in 0 .. MaxRestores
      BY BackupAssumption DEF BackupInit
    <3>2. QED
      BY <3>1 DEF BackupInit, BackupTypeOK
  <2>2. BackupInit => StagesOK /\ SettledKept /\ RestoreExact
    BY DEF BackupInit, StagesOK, SettledKept, Settled, RestoreExact, BackupRuns
  <2>3. QED
    BY <2>1, <2>2 DEF BackupIndInv
<1>2. QED
  BY <1>1, BackupStepKeeps, PTL DEF BackupSpec

(* The types of the state, whatever the commands meet. *)
THEOREM BackupTypeCorrect == BackupSpec => []BackupTypeOK
<1>1. BackupIndInv => BackupTypeOK
  BY DEF BackupIndInv
<1>2. QED
  BY <1>1, BackupInductive, PTL

(* runRestore: success means the whole dump in a database that had none of *)
(* its names, empty or not; blobs come after it, and a bundle cut short    *)
(* changes nothing.                                                        *)
THEOREM RestoresExactly == BackupSpec => []RestoreExact
<1>1. BackupIndInv => RestoreExact
  BY DEF BackupIndInv
<1>2. QED
  BY <1>1, BackupInductive, PTL

(* runBackup beside the server: the settled runs of a backup and restore   *)
(* without warnings have their objects.                                    *)
THEOREM HotBackupServes == BackupSpec => []RestoredRunsServed
<1>1. BackupIndInv => RestoredRunsServed
  BY DEF BackupIndInv, StagesOK, SettledKept, Settled, RestoredRunsServed
<1>2. QED
  BY <1>1, BackupInductive, PTL
==============================================================================
