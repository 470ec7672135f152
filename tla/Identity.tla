------------------------------ MODULE Identity ------------------------------
(***************************************************************************)
(* Credentials and the identity settings of organizations: API keys        *)
(* (storage/postgres.go, api/orgs.go), SCIM tokens, invitations, the SSO   *)
(* client secret and sessions (storage/identity.go,                        *)
(* api/identity_handlers.go), local login, and the middleware that admits  *)
(* a request.  A request is admitted, acts on one row and writes its audit *)
(* row in separate steps, on one of several replicas whose environment     *)
(* (RELIC_API_KEY_PEPPER, RELIC_SECRETS_KEY) operators change one by one.  *)
(*                                                                         *)
(* A token is random and known by the id of its row.  A hash is known by   *)
(* the token and what it was keyed with, its salt: hashes of one token are *)
(* equal exactly when their salts are.                                     *)
(***************************************************************************)
EXTENDS Naturals, FiniteSets

CONSTANTS
  Orgs, Users,
  UserOrg,      \* the org of each user
  Ids,          \* rows of the three token tables
  Reqs,         \* bound: the requests
  Asked,        \* bound: what clients ask for
  Replicas,
  Peppers, SecretKeys,
  Plaintexts,   \* SSO client secrets
  Unset         \* an environment variable that is not set, no secret, no row

ASSUME IdentityAssumption ==
  /\ UserOrg \in [Users -> Orgs]
  /\ Unset \notin Peppers \cup SecretKeys \cup Plaintexts \cup Orgs \cup Ids
  /\ "plain" \notin Peppers \cup SecretKeys /\ Ids \cap Users = {}

Kinds == {"api_key", "scim", "invite"}
Salts == Peppers \cup SecretKeys \cup {"plain", Unset}
Rows  == [kind : Kinds, org : Orgs, salt : Salts, revoked : BOOLEAN]
NoRow == [kind |-> Unset, org |-> Unset, salt |-> Unset, revoked |-> FALSE]
Env   == [pepper : Peppers \cup {Unset}, secrets : SecretKeys \cup {Unset}]

(* What a request asks for: its credential, an API key or a user's JWT,    *)
(* the org in its path, and the operation with its argument.               *)
Ops   == [op : {"create"}, kind : Kinds, arg : {Unset}]
           \cup [op : {"revoke"}, kind : Kinds, arg : Ids]
           \cup [op : {"put_sso"}, kind : {"sso"}, arg : Plaintexts \cup {Unset}]
           \cup [op : {"get_sso"}, kind : {"sso"}, arg : {Unset}]
           \cup [op : {"revoke_sessions"}, kind : {"session"}, arg : Users]
Calls == [cred : Ids \cup Users, path : Orgs, at : Replicas, do : Ops]

ASSUME AskedAssumption == Asked \subseteq Calls

VARIABLES
  env,      \* the environment of each replica
  rows,     \* api_keys, scim_tokens and identity_invites
  sso,      \* sso_configs: the client secret and the key of its tag
  jwt,      \* per user: the token issued by login: none, live, expired
  audit,    \* the requests that wrote an audit row
  pc,       \* where each request is
  call,     \* what it asks for
  org,      \* its CtxOrgID
  stale,    \* history: the keys revoked and the tokens expired before it began
  done,     \* history: requests whose statement was executed and answered
  faulty    \* history: requests that met a fault

vars == <<env, rows, sso, jwt, audit, pc, call, org, stale, done, faulty>>
hist == <<stale, done, faulty>>

NoSecret == [plain |-> Unset, key |-> Unset]
Secrets  == [plain : Plaintexts \cup {Unset}, key : SecretKeys \cup {Unset}]

TypeOK ==
  /\ env \in [Replicas -> Env]
  /\ rows \in [Ids -> Rows \cup {NoRow}]
  /\ sso \in [Orgs -> Secrets]
  /\ jwt \in [Users -> {"none", "live", "expired"}]
  /\ audit \subseteq Reqs /\ done \subseteq Reqs /\ faulty \subseteq Reqs
  /\ pc \in [Reqs -> {"idle", "auth", "handle", "audit", "answered", "refused", "dead"}]
  /\ call \in [Reqs -> Calls \cup {Unset}]
  /\ org \in [Reqs -> Orgs \cup {Unset}]
  /\ stale \in [Reqs -> SUBSET (Ids \cup Users)]

(* One org has an API key from before there was a pepper. *)
Init ==
  /\ env \in [Replicas -> Env]
  /\ \E k \in Ids, o \in Orgs :
       rows = [i \in Ids |-> IF i = k THEN [kind |-> "api_key", org |-> o, salt |-> "plain",
                                            revoked |-> FALSE] ELSE NoRow]
  /\ sso = [o \in Orgs |-> NoSecret]
  /\ jwt = [u \in Users |-> "none"]
  /\ audit = {} /\ done = {} /\ faulty = {}
  /\ pc = [q \in Reqs |-> "idle"] /\ call = [q \in Reqs |-> Unset]
  /\ org = [q \in Reqs |-> Unset]
  /\ stale = [q \in Reqs |-> {}]

(***************************************************************************)
(* handleAuthLogin, and a token that expires.                              *)
(***************************************************************************)
Login(u) ==
  /\ jwt[u] = "none"
  /\ jwt' = [jwt EXCEPT ![u] = "live"]
  /\ UNCHANGED <<env, rows, sso, audit, pc, call, org, hist>>

Expire(u) ==
  /\ jwt[u] = "live"
  /\ jwt' = [jwt EXCEPT ![u] = "expired"]
  /\ UNCHANGED <<env, rows, sso, audit, pc, call, org, hist>>

(* A replica restarts with another environment; what it was doing is lost. *)
Active(r) == {q \in Reqs : pc[q] \in {"auth", "handle", "audit"} /\ call[q].at = r}
Restart(r, e) ==
  /\ env' = [env EXCEPT ![r] = e]
  /\ pc' = [q \in Reqs |-> IF q \in Active(r) THEN "dead" ELSE pc[q]]
  /\ faulty' = faulty \cup Active(r)
  /\ UNCHANGED <<rows, sso, jwt, audit, call, org, stale, done>>

Begin(q, c) ==
  /\ pc[q] = "idle"
  /\ c.cred \in Ids => rows[c.cred] # NoRow
  /\ c.cred \in Users => jwt[c.cred] # "none"
  /\ pc' = [pc EXCEPT ![q] = "auth"]
  /\ call' = [call EXCEPT ![q] = c]
  /\ stale' = [stale EXCEPT ![q] = {i \in Ids : rows[i].revoked}
                                     \cup {u \in Users : jwt[u] = "expired"}]
  /\ UNCHANGED <<env, rows, sso, jwt, audit, org, done, faulty>>

(***************************************************************************)
(* Auth.Middleware: ValidateAPIKey looks the token up under both hashes;   *)
(* LocalProvider.Verify checks signature and expiry of a JWT, whose claims *)
(* name the org.                                                           *)
(***************************************************************************)
(* Mutant of Validates: revoked_at is not looked at. *)
ValidatesRevoked(r, i) == rows[i].kind = "api_key" /\ rows[i].salt \in {"plain", env[r].pepper}

Validates(r, i) ==
  /\ rows[i].kind = "api_key" /\ ~rows[i].revoked
  /\ rows[i].salt = "plain" \/ (env[r].pepper # Unset /\ rows[i].salt = env[r].pepper)

Verified(u) == jwt[u] = "live"

Admits(c) == \/ c.cred \in Ids /\ Validates(c.at, c.cred)
             \/ c.cred \in Users /\ Verified(c.cred)
OrgOf(c)  == IF c.cred \in Ids THEN rows[c.cred].org ELSE UserOrg[c.cred]

Authenticate(q) ==
  /\ pc[q] = "auth"
  /\ \/ /\ Admits(call[q])
        /\ org' = [org EXCEPT ![q] = OrgOf(call[q])]
        /\ pc' = [pc EXCEPT ![q] = "handle"]
     \/ /\ ~Admits(call[q])
        /\ pc' = [pc EXCEPT ![q] = "refused"] /\ UNCHANGED org
  /\ UNCHANGED <<env, rows, sso, jwt, audit, call, hist>>

(* The lookup of a key fails: 401 as well. *)
AuthFails(q) ==
  /\ pc[q] = "auth" /\ call[q].cred \in Ids
  /\ pc' = [pc EXCEPT ![q] = "refused"]
  /\ faulty' = faulty \cup {q}
  /\ UNCHANGED <<env, rows, sso, jwt, audit, call, org, stale, done>>

(* requireMatchingOrg, and the same test of the API-key handlers. *)
WrongOrg(q) ==
  /\ pc[q] = "handle" /\ call[q].path # org[q]
  /\ pc' = [pc EXCEPT ![q] = "answered"]
  /\ UNCHANGED <<env, rows, sso, jwt, audit, call, org, hist>>

(***************************************************************************)
(* The statement of each operation, on replica r for org o.                *)
(***************************************************************************)
Insert(kind, o, salt) ==
  /\ \E i \in Ids :
       /\ rows[i] = NoRow
       /\ rows' = [rows EXCEPT ![i] = [kind |-> kind, org |-> o, salt |-> salt, revoked |-> FALSE]]
  /\ UNCHANGED sso

(* Without a pepper the legacy hash. *)
CreateAPIKey(o, e) == Insert("api_key", o, IF e.pepper # Unset THEN e.pepper ELSE "plain")

(* hashSCIMToken: without a pepper keyed with the secrets key, or nothing. *)
HashSCIMToken(e) == IF e.pepper # Unset THEN e.pepper ELSE e.secrets
CreateSCIMToken(o, e) == Insert("scim", o, HashSCIMToken(e))

(* The accept token is stored as it is. *)
CreateInvite(o) == Insert("invite", o, "plain")

(* Mutant of Revoke: the row is found by its id alone. *)
RevokeById(o, d) ==
  /\ rows' = IF rows[d.arg].kind = d.kind THEN [rows EXCEPT ![d.arg].revoked = TRUE] ELSE rows
  /\ UNCHANGED sso

(* RevokeAPIKey, RevokeSCIMToken, CancelInvite: WHERE id AND org_id; a row *)
(* that is not there is no error.  (A second revocation of an API key also *)
(* moves its revoked_at.)                                                  *)
Revoke(o, d) ==
  /\ rows' = IF rows[d.arg].kind = d.kind /\ rows[d.arg].org = o
             THEN [rows EXCEPT ![d.arg].revoked = TRUE] ELSE rows
  /\ UNCHANGED sso

(* An empty secret keeps the stored one; encryptSecret needs a key. *)
UpsertSSOConfig(o, d, e) ==
  /\ d.arg # Unset => e.secrets # Unset
  /\ sso' = IF d.arg = Unset THEN sso
            ELSE [sso EXCEPT ![o] = [plain |-> d.arg, key |-> e.secrets]]
  /\ UNCHANGED rows

(* GetSSOConfig: decryptSecret checks the tag with the replica's key. *)
Readable(o, e) == sso[o].plain = Unset \/ (e.secrets # Unset /\ sso[o].key = e.secrets)
GetSSOConfig(o, e) == Readable(o, e) /\ UNCHANGED <<rows, sso>>

(* RevokeSession, RevokeAllSessionsForUser: nothing inserts into sessions. *)
RevokeSessions == UNCHANGED <<rows, sso>>

(* The handlers, from their input to their statement. *)
HandleCreateAPIKey(o, d, e)    == d.op = "create" /\ d.kind = "api_key" /\ CreateAPIKey(o, e)
HandleCreateSCIMToken(o, d, e) == d.op = "create" /\ d.kind = "scim" /\ CreateSCIMToken(o, e)
HandleCreateInvite(o, d)       == d.op = "create" /\ d.kind = "invite" /\ CreateInvite(o)
HandleRevokeAPIKey(o, d)       == d.op = "revoke" /\ d.kind = "api_key" /\ Revoke(o, d)
HandleRevokeSCIMToken(o, d)    == d.op = "revoke" /\ d.kind = "scim" /\ Revoke(o, d)
HandleCancelInvite(o, d)       == d.op = "revoke" /\ d.kind = "invite" /\ Revoke(o, d)
HandlePutSSO(o, d, e)          == d.op = "put_sso" /\ UpsertSSOConfig(o, d, e)
HandleGetSSO(o, d, e)          == d.op = "get_sso" /\ GetSSOConfig(o, e)
HandleRevokeSession(d)         == d.op = "revoke_sessions" /\ RevokeSessions

Statement(o, d, e) ==
  \/ HandleCreateAPIKey(o, d, e) \/ HandleCreateSCIMToken(o, d, e) \/ HandleCreateInvite(o, d)
  \/ HandleRevokeAPIKey(o, d) \/ HandleRevokeSCIMToken(o, d) \/ HandleCancelInvite(o, d)
  \/ HandlePutSSO(o, d, e) \/ HandleGetSSO(o, d, e) \/ HandleRevokeSession(d)

Mutations == {"create", "revoke", "put_sso", "revoke_sessions"}

(* The statement succeeds; a read has nothing to audit. *)
Execute(q) ==
  LET c == call[q]
  IN /\ pc[q] = "handle" /\ c.path = org[q]
     /\ Statement(org[q], c.do, env[c.at])
     /\ pc' = [pc EXCEPT ![q] = IF c.do.op \in Mutations THEN "audit" ELSE "answered"]
     /\ done' = done \cup {q}
     /\ UNCHANGED <<env, jwt, audit, call, org, stale, faulty>>

(* It commits and its answer is lost: an error to the handler. *)
AnswerLost(q) ==
  LET c == call[q]
  IN /\ pc[q] = "handle" /\ c.path = org[q] /\ c.do.op \in Mutations
     /\ Statement(org[q], c.do, env[c.at])
     /\ pc' = [pc EXCEPT ![q] = "answered"]
     /\ faulty' = faulty \cup {q}
     /\ UNCHANGED <<env, jwt, audit, call, org, stale, done>>

(* It fails: no key to encrypt with, the wrong key, or the database. *)
StatementFails(q) ==
  /\ pc[q] = "handle" /\ call[q].path = org[q]
  /\ pc' = [pc EXCEPT ![q] = "answered"]
  /\ UNCHANGED <<env, rows, sso, jwt, audit, call, org, hist>>

(* Mutant of AuditLog: only creations are audited. *)
AuditLogCreates(q) ==
  /\ pc[q] = "audit"
  /\ pc' = [pc EXCEPT ![q] = "answered"]
  /\ audit' = IF call[q].do.op = "create" THEN audit \cup {q} ELSE audit
  /\ UNCHANGED <<env, rows, sso, jwt, call, org, hist>>

(* auditLog: best effort, before the answer. *)
AuditLog(q) ==
  /\ pc[q] = "audit"
  /\ pc' = [pc EXCEPT ![q] = "answered"]
  /\ audit' = audit \cup {q}
  /\ UNCHANGED <<env, rows, sso, jwt, call, org, hist>>

AuditFails(q) ==
  /\ pc[q] = "audit"
  /\ pc' = [pc EXCEPT ![q] = "answered"]
  /\ faulty' = faulty \cup {q}
  /\ UNCHANGED <<env, rows, sso, jwt, audit, call, org, stale, done>>

Next ==
  \/ \E u \in Users : Login(u) \/ Expire(u)
  \/ \E r \in Replicas, e \in Env : Restart(r, e)
  \/ \E q \in Reqs : \/ \E c \in Asked : Begin(q, c)
                     \/ Authenticate(q) \/ AuthFails(q) \/ WrongOrg(q) \/ Execute(q) \/ AnswerLost(q)
                     \/ StatementFails(q) \/ AuditLog(q) \/ AuditFails(q)

Spec == Init /\ [][Next]_vars

(***************************************************************************)
(* Properties.                                                             *)
(***************************************************************************)
Admitted(q) == org[q] # Unset

(* A request that begins once its key is revoked, or its token expired, is *)
(* refused on every replica; one that is admitted acts for the org of its  *)
(* key or user; and a key from before RELIC_API_KEY_PEPPER is never        *)
(* refused while the database answers, unless it was revoked, whatever    *)
(* environment the replicas have been given ("so legacy keys keep          *)
(* working").                                                              *)
AdmissionExact ==
  \A q \in Reqs :
    /\ Admitted(q) => call[q].cred \notin stale[q] /\ org[q] = OrgOf(call[q])
    /\ pc[q] = "refused" /\ q \notin faulty /\ call[q].cred \in Ids =>
         LET row == rows[call[q].cred]
         IN row.kind # "api_key" \/ row.revoked \/ row.salt # "plain"

(* Whatever ids requests name, in whatever order they act and on whatever  *)
(* replica: a row or a secret of an org changes only by a request admitted *)
(* for that org and still under way; nothing is un-revoked and no row      *)
(* moves to another org; and a secret gives way only to the one a save     *)
(* brings ("Pass an empty ClientSecret to leave the existing secret        *)
(* untouched"), so no save without a secret ever loses it.                 *)
OwnOrgOnly ==
  [][/\ \A i \in Ids : rows'[i] # rows[i] =>
          /\ \E q \in Reqs : pc[q] = "handle" /\ org[q] = rows'[i].org
          /\ rows[i] # NoRow => rows'[i] = [rows[i] EXCEPT !.revoked = TRUE]
     /\ \A o \in Orgs : sso'[o] # sso[o] =>
          \E q \in Reqs : /\ pc[q] = "handle" /\ org[q] = o /\ call[q].do.op = "put_sso"
                         /\ sso'[o].plain = call[q].do.arg /\ sso'[o].plain # Unset]_vars

(* "Every mutation records an audit_events row", as far as the code goes:  *)
(* one that was answered and met no fault has its row, and no row speaks   *)
(* of a request that was refused or whose statement failed.                *)
AuditTrail ==
  \A q \in Reqs :
    /\ q \in audit => q \in done /\ pc[q] = "answered"
    /\ q \in done \ faulty /\ pc[q] = "answered" /\ call[q].do.op \in Mutations => q \in audit

(***************************************************************************)
(* The inductive invariant of the proofs.                                  *)
(***************************************************************************)
(* What a request has done by the time it is where it is. *)
ProgressOK ==
  \A q \in Reqs :
    /\ pc[q] # "idle" => call[q] \in Calls
    /\ pc[q] # "idle" /\ call[q].cred \in Ids => rows[call[q].cred] # NoRow
    /\ Admitted(q) <=> org[q] \in Orgs
    /\ Admitted(q) => pc[q] \in {"handle", "audit", "answered", "dead"}
    /\ pc[q] \in {"handle", "audit", "answered"} => Admitted(q)
    /\ q \in done => pc[q] \in {"audit", "answered", "dead"}
    /\ pc[q] = "audit" => q \in done

(* Revoked and expired is for ever. *)
StaleStays ==
  \A q \in Reqs : stale[q] \subseteq {i \in Ids : rows[i].revoked}
                                       \cup {u \in Users : jwt[u] = "expired"}

IndInv == TypeOK /\ ProgressOK /\ StaleStays /\ AdmissionExact /\ AuditTrail
=============================================================================
