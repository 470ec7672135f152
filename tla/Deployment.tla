---------------------------- MODULE Deployment ----------------------------
(***************************************************************************)
(* An installation coming up: `relic-api migrate up` and server processes  *)
(* started side by side against one Postgres (internal/migrate/runner.go,  *)
(* cmd/relic-api/main.go and subcommands.go), and the handlers that add    *)
(* organizations and users while they serve.  No statement is shared with  *)
(* another in a transaction and nothing takes a lock, so each process is a *)
(* sequence of single statements, may die between any two of them, and is  *)
(* started again later, perhaps under another configuration.               *)
(***************************************************************************)
EXTENDS Integers, Sequences

CONSTANTS
  Procs,
  CoreFiles, SupabaseFiles, RLSFiles, \* the three folders, as listSQL sorts them
  Idempotent,   \* files that are a no-op on a schema that has them
  BootNeeds,    \* files whose tables and columns the admin bootstrap queries
  UserSync,     \* the file that installs the sign-up trigger of Supabase
  Emails,       \* addresses, as the users table compares them
  NoEmail,
  Slugs,        \* organizations, each named by its unique slug
  Primary,      \* the slug of the bootstrap
  DefaultOrg,   \* RELIC_OIDC_DEFAULT_ORG_ID
  NoOrg,
  Configs,      \* values of RELIC_AUTH_MODE and RELIC_RLS_ENABLED migrate is run with
  MaxFaults     \* bound on the processes that die

Files == {CoreFiles[i] : i \in DOMAIN CoreFiles}
           \cup {SupabaseFiles[i] : i \in DOMAIN SupabaseFiles}
           \cup {RLSFiles[i] : i \in DOMAIN RLSFiles}
Modes == {"local", "supabase", "oidc"}

ASSUME DeploymentAssumption ==
  /\ CoreFiles \in Seq(Files) /\ SupabaseFiles \in Seq(Files) /\ RLSFiles \in Seq(Files)
  /\ Configs \subseteq Modes \X BOOLEAN
  /\ NoEmail \notin Emails /\ NoOrg \notin Slugs
  /\ Primary \in Slugs /\ DefaultOrg \in Slugs \cup {NoOrg}
  /\ MaxFaults \in Nat

VARIABLES
  infra,     \* what Up creates before the files: "tracking", "stub"
  schema,    \* files whose statements are in the database
  recorded,  \* rows of schema_migrations
  orgs,      \* rows of organizations
  audited,   \* organizations whose creation has an audit row
  users,     \* rows of users, by their unique email
  pc,        \* the next statement of a process
  mode, rls, \* its RELIC_AUTH_MODE and RELIC_RLS_ENABLED
  admin,     \* its RELIC_ADMIN_EMAIL, with a password, or NoEmail
  pos,       \* `migrate up`: position in the files to apply
  login,     \* an OIDC callback between its lookup and its insert
  faults

db      == <<infra, schema, recorded, orgs, audited, users>>
config  == <<mode, rls, admin>>
vars    == <<db, pc, config, pos, login, faults>>

NoUser  == [org |-> NoOrg, provider |-> "none", password |-> "none"]
User    == [org : Slugs, provider : Modes, password : {"none", "env", "reset"}]
HasUser(e) == users[e] # NoUser

(* The state of a process: not running, in Up, in the bootstrap, serving. *)
Migrating == {"ensure", "stub", "check", "exec", "record"}
Booting   == {"count", "org", "user"}
Resting   == {"off", "done", "failed"}

(* The files Up goes through for a configuration, folder by folder. *)
PlanFor(m, r) ==
  CoreFiles \o (IF m = "supabase" THEN SupabaseFiles ELSE <<>>)
            \o (IF r THEN RLSFiles ELSE <<>>)
Plan(p) == PlanFor(mode[p], rls[p])
Current(p) == Plan(p)[pos[p]]

TypeOK ==
  /\ infra \subseteq {"tracking", "stub"}
  /\ schema \subseteq Files
  /\ recorded \subseteq Files
  /\ orgs \subseteq Slugs
  /\ audited \subseteq orgs
  /\ users \in [Emails -> User \cup {NoUser}]
  /\ pc \in [Procs -> Migrating \cup Booting \cup Resting \cup {"serve"}]
  /\ mode \in [Procs -> Modes]
  /\ rls \in [Procs -> BOOLEAN]
  /\ admin \in [Procs -> Emails \cup {NoEmail}]
  /\ pos \in [Procs -> Nat]
  /\ \A p \in Procs : /\ pos[p] \in 1 .. Len(Plan(p)) + 1
                      /\ pc[p] \in {"exec", "record"} => pos[p] <= Len(Plan(p))
                      /\ pc[p] \in Booting => mode[p] = "local" /\ admin[p] \in Emails
  /\ login \in [Procs -> Emails \cup {NoEmail}]
  /\ faults \in 0 .. MaxFaults

Init ==
  /\ infra = {} /\ schema = {} /\ recorded = {} /\ orgs = {} /\ audited = {}
  /\ users = [e \in Emails |-> NoUser]
  /\ pc = [p \in Procs |-> "off"]
  /\ mode = [p \in Procs |-> "local"] /\ rls = [p \in Procs |-> FALSE]
  /\ admin = [p \in Procs |-> NoEmail]
  /\ pos = [p \in Procs |-> 1]
  /\ login = [p \in Procs |-> NoEmail]
  /\ faults = 0

Goto(p, l) == pc' = [pc EXCEPT ![p] = l]

(* A new process reads its environment; one that has ended has none. *)
Configure(p, m, r, e) ==
  /\ mode' = [mode EXCEPT ![p] = m] /\ rls' = [rls EXCEPT ![p] = r]
  /\ admin' = [admin EXCEPT ![p] = e]
  /\ pos' = [pos EXCEPT ![p] = 1]
Exit(p, l) == Goto(p, l) /\ Configure(p, "local", FALSE, NoEmail)

-----------------------------------------------------------------------------
(* migrate up *)

MigrateUp(p, m, r) ==
  /\ pc[p] \in Resting
  /\ Goto(p, "ensure") /\ Configure(p, m, r, NoEmail)
  /\ UNCHANGED <<db, login, faults>>

EnsureTrackingTable(p) ==
  /\ pc[p] = "ensure"
  /\ infra' = infra \cup {"tracking"}
  /\ Goto(p, IF mode[p] = "supabase" THEN "stub" ELSE "check")
  /\ UNCHANGED <<schema, recorded, orgs, audited, users, config, pos, login, faults>>

CreateAuthUsersStub(p) ==
  /\ pc[p] = "stub"
  /\ infra' = infra \cup {"stub"}
  /\ Goto(p, "check")
  /\ UNCHANGED <<schema, recorded, orgs, audited, users, config, pos, login, faults>>

(* Mutant of Check: a file whose tables are there is taken as done. *)
CheckBySchema(p) ==
  /\ pc[p] = "check"
  /\ \/ /\ pos[p] > Len(Plan(p))
        /\ Goto(p, "done") /\ UNCHANGED pos
     \/ /\ pos[p] <= Len(Plan(p)) /\ Current(p) \in schema
        /\ pos' = [pos EXCEPT ![p] = @ + 1] /\ UNCHANGED pc
     \/ /\ pos[p] <= Len(Plan(p)) /\ Current(p) \notin schema
        /\ Goto(p, "exec") /\ UNCHANGED pos
  /\ UNCHANGED <<db, config, login, faults>>

(* Mutant of Check: a recorded file is looked at again and again. *)
CheckStays(p) ==
  /\ pc[p] = "check"
  /\ Goto(p, IF pos[p] > Len(Plan(p)) THEN "done"
             ELSE IF Current(p) \in recorded THEN "check" ELSE "exec")
  /\ UNCHANGED <<db, config, pos, login, faults>>

(* The loop head of applyFolder: skip a recorded file, end behind the last. *)
Check(p) ==
  /\ pc[p] = "check"
  /\ \/ /\ pos[p] > Len(Plan(p))
        /\ Goto(p, "done") /\ UNCHANGED pos
     \/ /\ pos[p] <= Len(Plan(p)) /\ Current(p) \in recorded
        /\ pos' = [pos EXCEPT ![p] = @ + 1] /\ UNCHANGED pc
     \/ /\ pos[p] <= Len(Plan(p)) /\ Current(p) \notin recorded
        /\ Goto(p, "exec") /\ UNCHANGED pos
  /\ UNCHANGED <<db, config, login, faults>>

(* What a file meets in the database: its tables, and those it refers to. *)
Accepted(f) ==
  /\ f \notin schema \/ f \in Idempotent
  /\ f = UserSync => "stub" \in infra

(* One Exec of the whole file, which Postgres runs as one transaction. *)
Exec(p) ==
  /\ pc[p] = "exec"
  /\ \/ /\ Accepted(Current(p))
        /\ schema' = schema \cup {Current(p)}
        /\ Goto(p, "record") /\ UNCHANGED <<config, pos>>
     \/ /\ ~ Accepted(Current(p))
        /\ Exit(p, "failed") /\ UNCHANGED schema
  /\ UNCHANGED <<infra, recorded, orgs, audited, users, login, faults>>

(* Mutant of Record: only the last file, the version, is recorded. *)
RecordLast(p) ==
  /\ pc[p] = "record"
  /\ recorded' = IF pos[p] = Len(Plan(p)) THEN recorded \cup {Current(p)} ELSE recorded
  /\ pos' = [pos EXCEPT ![p] = @ + 1]
  /\ Goto(p, "check")
  /\ UNCHANGED <<infra, schema, orgs, audited, users, config, login, faults>>

Record(p) ==
  /\ pc[p] = "record"
  /\ \/ /\ Current(p) \notin recorded
        /\ recorded' = recorded \cup {Current(p)}
        /\ pos' = [pos EXCEPT ![p] = @ + 1]
        /\ Goto(p, "check") /\ UNCHANGED config
     \/ /\ Current(p) \in recorded
        /\ Exit(p, "failed") /\ UNCHANGED recorded
  /\ UNCHANGED <<infra, schema, orgs, audited, users, login, faults>>

-----------------------------------------------------------------------------
(* The server: bootstrapLocalAdmin, then serving *)

Locals == {e \in Emails : users[e].provider = "local"}

Serve(p, m, e) ==
  /\ pc[p] \in Resting
  /\ Configure(p, m, FALSE, IF m = "local" THEN e ELSE NoEmail)
  /\ Goto(p, IF m = "local" /\ e # NoEmail THEN "count" ELSE "serve")
  /\ UNCHANGED <<db, login, faults>>

CountUsersByProvider(p) ==
  /\ pc[p] = "count"
  /\ \/ /\ ~ BootNeeds \subseteq schema
        /\ Exit(p, "failed")
     \/ /\ BootNeeds \subseteq schema
        /\ Goto(p, IF Locals # {} THEN "serve" ELSE "org") /\ UNCHANGED <<config, pos>>
  /\ UNCHANGED <<db, login, faults>>

(* Mutant of CreateOrg: the organization is there, so the admin must be. *)
CreateOrgOrServe(p) ==
  /\ pc[p] = "org"
  /\ orgs' = orgs \cup {Primary}
  /\ Goto(p, IF Primary \in orgs THEN "serve" ELSE "user")
  /\ UNCHANGED <<infra, schema, recorded, audited, users, config, pos, login, faults>>

(* Mutant of CreateOrg: ON CONFLICT DO NOTHING. *)
CreateOrgOrReuse(p) ==
  /\ pc[p] = "org"
  /\ orgs' = orgs \cup {Primary}
  /\ Goto(p, "user")
  /\ UNCHANGED <<infra, schema, recorded, audited, users, config, pos, login, faults>>

CreateOrg(p) ==
  /\ pc[p] = "org"
  /\ \/ /\ Primary \notin orgs
        /\ orgs' = orgs \cup {Primary}
        /\ Goto(p, "user") /\ UNCHANGED <<config, pos>>
     \/ /\ Primary \in orgs
        /\ Exit(p, "failed") /\ UNCHANGED orgs
  /\ UNCHANGED <<infra, schema, recorded, audited, users, login, faults>>

CreateUserWithPassword(p) ==
  /\ pc[p] = "user"
  /\ \/ /\ ~ HasUser(admin[p])
        /\ users' = [users EXCEPT ![admin[p]] =
                       [org |-> Primary, provider |-> "local", password |-> "env"]]
        /\ Goto(p, "serve") /\ UNCHANGED <<config, pos>>
     \/ /\ HasUser(admin[p])
        /\ Exit(p, "failed") /\ UNCHANGED users
  /\ UNCHANGED <<infra, schema, recorded, orgs, audited, login, faults>>

(* POST /v1/onboard and /v1/orgs: only a token without an org gets through, *)
(* which Supabase alone issues.  The audit row is best effort.              *)
HandleCreateOrg(p, s) ==
  /\ pc[p] = "serve" /\ mode[p] = "supabase"
  /\ BootNeeds \subseteq schema
  /\ s \notin orgs
  /\ orgs' = orgs \cup {s}
  /\ audited' \in {audited, audited \cup {s}}
  /\ UNCHANGED <<infra, schema, recorded, users, pc, config, pos, login, faults>>

(* The trigger on auth.users; its slugs end in six random digits. *)
SignUp(e, s) ==
  /\ UserSync \in schema
  /\ ~ HasUser(e) /\ s \notin orgs \cup {Primary}
  /\ orgs' = orgs \cup {s}
  /\ users' = [users EXCEPT ![e] = [org |-> s, provider |-> "supabase", password |-> "none"]]
  /\ UNCHANGED <<infra, schema, recorded, audited, pc, config, pos, login, faults>>

(* The callback of the IdP: look the user up, provision an unknown one. *)
OIDCLookup(p, e) ==
  /\ pc[p] = "serve" /\ mode[p] = "oidc" /\ login[p] = NoEmail
  /\ BootNeeds \subseteq schema
  /\ users[e].provider # "oidc" /\ DefaultOrg # NoOrg
  /\ login' = [login EXCEPT ![p] = e]
  /\ UNCHANGED <<db, pc, config, pos, faults>>

OIDCProvision(p) ==
  /\ login[p] # NoEmail
  /\ users' = IF HasUser(login[p]) \/ DefaultOrg \notin orgs THEN users
              ELSE [users EXCEPT ![login[p]] =
                      [org |-> DefaultOrg, provider |-> "oidc", password |-> "none"]]
  /\ login' = [login EXCEPT ![p] = NoEmail]
  /\ UNCHANGED <<infra, schema, recorded, orgs, audited, pc, config, pos, faults>>

(* reset-password, a command of its own: one UPDATE. *)
ResetPassword(e) ==
  /\ e \in Locals
  /\ users' = [users EXCEPT ![e].password = "reset"]
  /\ UNCHANGED <<infra, schema, recorded, orgs, audited, pc, config, pos, login, faults>>

-----------------------------------------------------------------------------
(* A process is killed, loses its database or runs into its deadline; what *)
(* it has written stays.  A server that is told to stop, or whose start     *)
(* fails behind the bootstrap, ends.                                       *)
Die(p) ==
  /\ faults < MaxFaults
  /\ pc[p] \in Migrating \cup Booting
  /\ faults' = faults + 1
  /\ Exit(p, "failed")
  /\ UNCHANGED <<db, login>>

Stop(p) ==
  /\ pc[p] = "serve"
  /\ Exit(p, "off")
  /\ login' = [login EXCEPT ![p] = NoEmail]
  /\ UNCHANGED <<db, faults>>

Step(p) ==
  \/ EnsureTrackingTable(p) \/ CreateAuthUsersStub(p)
  \/ Check(p) \/ Exec(p) \/ Record(p)
  \/ CountUsersByProvider(p) \/ CreateOrg(p) \/ CreateUserWithPassword(p)

Next ==
  \/ \E p \in Procs :
       \/ Step(p) \/ Die(p) \/ Stop(p) \/ OIDCProvision(p)
       \/ \E c \in Configs : MigrateUp(p, c[1], c[2])
       \/ \E m \in Modes, e \in Emails \cup {NoEmail} : Serve(p, m, e)
       \/ \E s \in Slugs : HandleCreateOrg(p, s)
       \/ \E e \in Emails : OIDCLookup(p, e)
  \/ \E e \in Emails, s \in Slugs : SignUp(e, s)
  \/ \E e \in Emails : ResetPassword(e)

(* A process that runs executes its next statement; nobody has to start one. *)
Spec == Init /\ [][Next]_vars /\ \A p \in Procs : WF_vars(Step(p))

-----------------------------------------------------------------------------
(* Whatever `migrate up` processes run side by side and die, a file is in  *)
(* schema_migrations only if its statements are in the database, and a run *)
(* that reports success leaves every file of its configuration recorded    *)
(* (applyFolder's order of Exec and INSERT, and its early returns).        *)
RecordedIsApplied ==
  /\ recorded \subseteq schema
  /\ \A p \in Procs : pc[p] = "done" =>
       \A i \in 1 .. Len(Plan(p)) : Plan(p)[i] \in recorded

(* Files reach the database in order: what is before an applied file, in   *)
(* some configuration that has it, was recorded first, whichever process   *)
(* applied it (the folders and the loop of Up and applyFolder).            *)
AppliedInOrder ==
  \A f \in schema : \E c \in Configs :
    \E i \in 1 .. Len(PlanFor(c[1], c[2])) :
      /\ PlanFor(c[1], c[2])[i] = f
      /\ \A j \in 1 .. i - 1 : PlanFor(c[1], c[2])[j] \in recorded

(* Runs that race leave nothing half done: an applied file without a row,  *)
(* on which a later run of a file that is not idempotent would stop for    *)
(* ever, is either about to be recorded or the work of a process that died *)
(* (runner.go between Exec and INSERT).                                    *)
HalfAppliedByFault ==
  \A f \in schema \ recorded :
    faults > 0 \/ \E p \in Procs : pc[p] = "record" /\ Current(p) = f

(* Replicas that boot together: one that was given an admin's address and  *)
(* serves in local mode serves an installation that has an admin, also if  *)
(* it lost the race for the organization (bootstrapLocalAdmin).            *)
ServesWithAdmin ==
  \A p \in Procs :
    pc[p] = "serve" /\ mode[p] = "local" /\ admin[p] # NoEmail => Locals # {}

(* Boots, sign-ups and callbacks that overlap never add a second local     *)
(* admin, never move a user to another org or provider, and never bring    *)
(* back the password of the environment after it was reset                 *)
(* (bootstrapLocalAdmin's count is stale by the time it inserts).          *)
AccountsKept ==
  [][/\ Locals # {} => Locals' = Locals
     /\ \A e \in Emails : HasUser(e) =>
          /\ users'[e].org = users[e].org /\ users'[e].provider = users[e].provider
          /\ users'[e].password \in {users[e].password, "reset"}]_vars

(* Every `migrate up` and every boot comes to an end: done, failed or       *)
(* serving (the loops of Up and applyFolder).                               *)
RunsEnd ==
  \A p \in Procs : pc[p] \in Migrating \cup Booting ~> pc[p] \notin Migrating \cup Booting
-----------------------------------------------------------------------------
(* The inductive invariant: what a process has passed is recorded and what  *)
(* it is about to record is applied; the creator of the primary org is the  *)
(* only process that can still add an admin, and no admin is there before.  *)
PassedRecorded ==
  \A p \in Procs :
    /\ \A j \in 1 .. pos[p] - 1 : Plan(p)[j] \in recorded
    /\ pc[p] = "done" => pos[p] = Len(Plan(p)) + 1
    /\ pc[p] = "record" => Current(p) \in schema
    /\ pc[p] \in Migrating => <<mode[p], rls[p]>> \in Configs

OneCreator ==
  /\ Locals # {} => Primary \in orgs
  /\ \A p \in Procs : pc[p] = "user" =>
       /\ Primary \in orgs /\ Locals = {}
       /\ \A q \in Procs : pc[q] = "user" => q = p

IndInv ==
  /\ TypeOK /\ recorded \subseteq schema /\ PassedRecorded
  /\ AppliedInOrder /\ HalfAppliedByFault
  /\ OneCreator /\ ServesWithAdmin
=============================================================================
