--------------------------- MODULE Identity_proofs ---------------------------
(* Proofs about Identity, for any orgs, users, replicas and environments   *)
(* and any number of requests.                                             *)
EXTENDS Identity, TLAPS

(***************************************************************************)
(* What any statement of a handler may do to the tables.                   *)
(***************************************************************************)
Evolves(o) ==
  /\ rows' \in [Ids -> Rows \cup {NoRow}]
  /\ sso' \in [Orgs -> Secrets]
  /\ \A i \in Ids : rows'[i] # rows[i] =>
       /\ rows'[i].org = o
       /\ rows[i] # NoRow => rows'[i] = [rows[i] EXCEPT !.revoked = TRUE]

LEMMA InsertEvolves ==
  ASSUME TypeOK, NEW o \in Orgs, NEW kind \in Kinds, NEW salt \in Salts, Insert(kind, o, salt)
  PROVE  Evolves(o) /\ sso' = sso
<1>1. PICK i \in Ids : /\ rows[i] = NoRow
                       /\ rows' = [rows EXCEPT ![i] = [kind |-> kind, org |-> o, salt |-> salt,
                                                       revoked |-> FALSE]]
  BY DEF Insert
<1>2. [kind |-> kind, org |-> o, salt |-> salt, revoked |-> FALSE] \in Rows
  BY DEF Rows
<1>3. QED
  BY <1>1, <1>2 DEF Evolves, Insert, TypeOK

LEMMA CreateEvolves ==
  ASSUME TypeOK, NEW o \in Orgs, NEW d \in Ops, NEW e \in Env,
         HandleCreateAPIKey(o, d, e) \/ HandleCreateSCIMToken(o, d, e) \/ HandleCreateInvite(o, d)
  PROVE  Evolves(o) /\ sso' = sso
<1>1. PICK kind \in Kinds, salt \in Salts : Insert(kind, o, salt)
  BY DEF HandleCreateAPIKey, HandleCreateSCIMToken, HandleCreateInvite, CreateAPIKey, CreateSCIMToken,
         HashSCIMToken, CreateInvite, Kinds, Salts, Env
<1>2. QED
  BY <1>1, InsertEvolves

LEMMA RevokeEvolves ==
  ASSUME TypeOK, NEW o \in Orgs, NEW d \in Ops, d.op = "revoke", Revoke(o, d)
  PROVE  Evolves(o)
<1>1. d.arg \in Ids
  BY DEF Ops
<1>2. CASE rows[d.arg].kind = d.kind /\ rows[d.arg].org = o
  <2>1. rows[d.arg] \in Rows
    BY <1>1, <1>2, IdentityAssumption DEF TypeOK, NoRow
  <2>2. rows' = [rows EXCEPT ![d.arg] = [rows[d.arg] EXCEPT !.revoked = TRUE]]
    BY <1>1, <1>2 DEF Revoke, TypeOK
  <2>3. [rows[d.arg] EXCEPT !.revoked = TRUE] \in Rows /\ [rows[d.arg] EXCEPT !.revoked = TRUE].org = o
    BY <2>1, <1>2 DEF Rows
  <2>4. QED
    BY <1>1, <2>2, <2>3 DEF Evolves, Revoke, TypeOK
<1>3. CASE ~(rows[d.arg].kind = d.kind /\ rows[d.arg].org = o)
  BY <1>3 DEF Evolves, Revoke, TypeOK
<1>4. QED
  BY <1>2, <1>3

LEMMA UpsertEvolves ==
  ASSUME TypeOK, NEW o \in Orgs, NEW d \in Ops, d.op = "put_sso", NEW e \in Env,
         UpsertSSOConfig(o, d, e)
  PROVE  Evolves(o)
<1>1. d.arg \in Plaintexts \cup {Unset}
  BY DEF Ops
<1>2. [plain |-> d.arg, key |-> e.secrets] \in Secrets
  BY <1>1 DEF Secrets, Env
<1>3. QED
  BY <1>2 DEF Evolves, UpsertSSOConfig, TypeOK

LEMMA StatementEvolves ==
  ASSUME TypeOK, NEW o \in Orgs, NEW d \in Ops, NEW e \in Env, Statement(o, d, e)
  PROVE  Evolves(o)
<1>1. CASE UNCHANGED <<rows, sso>>
  BY <1>1 DEF Evolves, TypeOK
<1>2. QED
  BY <1>1, CreateEvolves, RevokeEvolves, UpsertEvolves
     DEF Statement, HandleRevokeAPIKey, HandleRevokeSCIMToken, HandleCancelInvite, HandlePutSSO,
         HandleGetSSO, HandleRevokeSession, GetSSOConfig, RevokeSessions

(* A request that is admitted and whose path is its org acts for that org. *)
LEMMA ActsForOrg ==
  ASSUME IndInv, NEW q \in Reqs, pc[q] = "handle", Statement(org[q], call[q].do, env[call[q].at])
  PROVE  org[q] \in Orgs /\ call[q] \in Calls /\ Evolves(org[q])
<1>1. org[q] \in Orgs /\ call[q] \in Calls
  BY DEF IndInv, ProgressOK
<1>2. call[q].do \in Ops /\ env[call[q].at] \in Env
  BY <1>1 DEF Calls, IndInv, TypeOK
<1>3. QED
  BY <1>1, <1>2, StatementEvolves DEF IndInv

(***************************************************************************)
(* Each action keeps the invariant.                                        *)
(***************************************************************************)
LEMMA LoginKeeps ==
  ASSUME IndInv, NEW u \in Users, Login(u)
  PROVE  IndInv'
<1>1. TypeOK'
  BY DEF Login, hist, IndInv, TypeOK
<1>2. ProgressOK'
  BY DEF Login, hist, IndInv, TypeOK, ProgressOK, Admitted
<1>3. StaleStays'
  BY DEF Login, hist, IndInv, TypeOK, StaleStays
<1>4. AdmissionExact'
  BY DEF Login, hist, IndInv, TypeOK, ProgressOK, AdmissionExact, Admitted, OrgOf
<1>5. AuditTrail'
  BY DEF Login, hist, IndInv, TypeOK, ProgressOK, AuditTrail, Mutations
<1>6. QED
  BY <1>1, <1>2, <1>3, <1>4, <1>5 DEF IndInv

LEMMA ExpireKeeps ==
  ASSUME IndInv, NEW u \in Users, Expire(u)
  PROVE  IndInv'
<1>1. TypeOK'
  BY DEF Expire, hist, IndInv, TypeOK
<1>2. ProgressOK'
  BY DEF Expire, hist, IndInv, TypeOK, ProgressOK, Admitted
<1>3. StaleStays'
  BY DEF Expire, hist, IndInv, TypeOK, StaleStays
<1>4. AdmissionExact'
  BY DEF Expire, hist, IndInv, TypeOK, ProgressOK, AdmissionExact, Admitted, OrgOf
<1>5. AuditTrail'
  BY DEF Expire, hist, IndInv, TypeOK, ProgressOK, AuditTrail, Mutations
<1>6. QED
  BY <1>1, <1>2, <1>3, <1>4, <1>5 DEF IndInv

LEMMA AuthFailsKeeps ==
  ASSUME IndInv, NEW q \in Reqs, AuthFails(q)
  PROVE  IndInv'
<1>1. TypeOK'
  BY DEF AuthFails, hist, IndInv, TypeOK
<1>2. ProgressOK'
  BY DEF AuthFails, hist, IndInv, TypeOK, ProgressOK, Admitted
<1>3. StaleStays'
  BY DEF AuthFails, hist, IndInv, TypeOK, StaleStays
<1>4. AdmissionExact'
  BY DEF AuthFails, hist, IndInv, TypeOK, ProgressOK, AdmissionExact, Admitted, OrgOf
<1>5. AuditTrail'
  BY DEF AuthFails, hist, IndInv, TypeOK, ProgressOK, AuditTrail, Mutations
<1>6. QED
  BY <1>1, <1>2, <1>3, <1>4, <1>5 DEF IndInv

LEMMA WrongOrgKeeps ==
  ASSUME IndInv, NEW q \in Reqs, WrongOrg(q)
  PROVE  IndInv'
<1>1. TypeOK'
  BY DEF WrongOrg, hist, IndInv, TypeOK
<1>2. ProgressOK'
  BY DEF WrongOrg, hist, IndInv, TypeOK, ProgressOK, Admitted
<1>3. StaleStays'
  BY DEF WrongOrg, hist, IndInv, TypeOK, StaleStays
<1>4. AdmissionExact'
  BY DEF WrongOrg, hist, IndInv, TypeOK, ProgressOK, AdmissionExact, Admitted, OrgOf
<1>5. AuditTrail'
  BY DEF WrongOrg, hist, IndInv, TypeOK, ProgressOK, AuditTrail, Mutations
<1>6. QED
  BY <1>1, <1>2, <1>3, <1>4, <1>5 DEF IndInv

LEMMA StatementFailsKeeps ==
  ASSUME IndInv, NEW q \in Reqs, StatementFails(q)
  PROVE  IndInv'
<1>1. TypeOK'
  BY DEF StatementFails, hist, IndInv, TypeOK
<1>2. ProgressOK'
  BY DEF StatementFails, hist, IndInv, TypeOK, ProgressOK, Admitted
<1>3. StaleStays'
  BY DEF StatementFails, hist, IndInv, TypeOK, StaleStays
<1>4. AdmissionExact'
  BY DEF StatementFails, hist, IndInv, TypeOK, ProgressOK, AdmissionExact, Admitted, OrgOf
<1>5. AuditTrail'
  BY DEF StatementFails, hist, IndInv, TypeOK, ProgressOK, AuditTrail, Mutations
<1>6. QED
  BY <1>1, <1>2, <1>3, <1>4, <1>5 DEF IndInv

LEMMA AuditLogKeeps ==
  ASSUME IndInv, NEW q \in Reqs, AuditLog(q)
  PROVE  IndInv'
<1>1. TypeOK'
  BY DEF AuditLog, hist, IndInv, TypeOK
<1>2. ProgressOK'
  BY DEF AuditLog, hist, IndInv, TypeOK, ProgressOK, Admitted
<1>3. StaleStays'
  BY DEF AuditLog, hist, IndInv, TypeOK, StaleStays
<1>4. AdmissionExact'
  BY DEF AuditLog, hist, IndInv, TypeOK, ProgressOK, AdmissionExact, Admitted, OrgOf
<1>5. AuditTrail'
  BY DEF AuditLog, hist, IndInv, TypeOK, ProgressOK, AuditTrail, Mutations
<1>6. QED
  BY <1>1, <1>2, <1>3, <1>4, <1>5 DEF IndInv

LEMMA AuditFailsKeeps ==
  ASSUME IndInv, NEW q \in Reqs, AuditFails(q)
  PROVE  IndInv'
<1>1. TypeOK'
  BY DEF AuditFails, hist, IndInv, TypeOK
<1>2. ProgressOK'
  BY DEF AuditFails, hist, IndInv, TypeOK, ProgressOK, Admitted
<1>3. StaleStays'
  BY DEF AuditFails, hist, IndInv, TypeOK, StaleStays
<1>4. AdmissionExact'
  BY DEF AuditFails, hist, IndInv, TypeOK, ProgressOK, AdmissionExact, Admitted, OrgOf
<1>5. AuditTrail'
  BY DEF AuditFails, hist, IndInv, TypeOK, ProgressOK, AuditTrail, Mutations
<1>6. QED
  BY <1>1, <1>2, <1>3, <1>4, <1>5 DEF IndInv

LEMMA AdmittedOrg ==
  ASSUME IndInv, NEW q \in Reqs, pc[q] = "auth", Admits(call[q])
  PROVE  OrgOf(call[q]) \in Orgs /\ call[q].cred \notin stale[q]
<1>1. call[q] \in Calls
  BY DEF IndInv, ProgressOK
<1>2. CASE call[q].cred \in Ids
  <2>1. rows[call[q].cred] \in Rows
    BY <1>2 DEF IndInv, ProgressOK, TypeOK
  <2>2. ~rows[call[q].cred].revoked
    BY <1>2, IdentityAssumption DEF Admits, Validates
  <2>3. QED
    BY <1>2, <2>1, <2>2, IdentityAssumption DEF OrgOf, Rows, IndInv, StaleStays
<1>3. CASE call[q].cred \in Users
  BY <1>3, IdentityAssumption DEF OrgOf, Admits, Verified, IndInv, StaleStays
<1>4. QED
  BY <1>1, <1>2, <1>3 DEF Calls

LEMMA AuthenticateKeeps ==
  ASSUME IndInv, NEW q \in Reqs, Authenticate(q)
  PROVE  IndInv'
<1>a. CASE Admits(call[q])
  <2>0. OrgOf(call[q]) \in Orgs /\ call[q].cred \notin stale[q] /\ Unset \notin Orgs
    BY <1>a, AdmittedOrg, IdentityAssumption DEF Authenticate
  <2>1. TypeOK'
    BY <1>a, <2>0 DEF Authenticate, hist, IndInv, TypeOK
  <2>2. ProgressOK'
    BY <1>a, <2>0 DEF Authenticate, hist, IndInv, TypeOK, ProgressOK, Admitted
  <2>3. AdmissionExact'
    BY <1>a, <2>0 DEF Authenticate, hist, IndInv, TypeOK, AdmissionExact, Admitted, OrgOf
  <2>4. StaleStays' /\ AuditTrail'
    BY DEF Authenticate, hist, IndInv, TypeOK, ProgressOK, StaleStays, AuditTrail, Mutations
  <2>5. QED
    BY <2>1, <2>2, <2>3, <2>4 DEF IndInv
<1>b. CASE ~Admits(call[q])
  <2>1. TypeOK'
    BY <1>b DEF Authenticate, hist, IndInv, TypeOK
  <2>2. ProgressOK'
    BY <1>b DEF Authenticate, hist, IndInv, TypeOK, ProgressOK, Admitted
  <2>3. AdmissionExact'
    BY <1>b DEF Authenticate, hist, IndInv, TypeOK, ProgressOK, AdmissionExact, Admitted, OrgOf,
                Admits, Validates
  <2>4. StaleStays' /\ AuditTrail'
    BY DEF Authenticate, hist, IndInv, TypeOK, ProgressOK, StaleStays, AuditTrail, Mutations
  <2>5. QED
    BY <2>1, <2>2, <2>3, <2>4 DEF IndInv
<1>c. QED
  BY <1>a, <1>b

LEMMA RestartKeeps ==
  ASSUME IndInv, NEW r \in Replicas, NEW e \in Env, Restart(r, e)
  PROVE  IndInv'
<1>1. TypeOK'
  BY DEF Restart, Active, hist, IndInv, TypeOK
<1>2. ProgressOK'
  BY DEF Restart, Active, hist, IndInv, TypeOK, ProgressOK, Admitted
<1>3. StaleStays'
  BY DEF Restart, Active, hist, IndInv, TypeOK, StaleStays
<1>4. AdmissionExact'
  BY DEF Restart, Active, hist, IndInv, TypeOK, ProgressOK, AdmissionExact, Admitted, OrgOf
<1>5. AuditTrail'
  BY DEF Restart, Active, hist, IndInv, TypeOK, ProgressOK, AuditTrail, Mutations
<1>6. QED
  BY <1>1, <1>2, <1>3, <1>4, <1>5 DEF IndInv

LEMMA BeginKeeps ==
  ASSUME IndInv, NEW q \in Reqs, NEW c \in Calls, Begin(q, c)
  PROVE  IndInv'
<1>1. TypeOK'
  BY DEF Begin, hist, IndInv, TypeOK
<1>2. ProgressOK'
  BY DEF Begin, hist, IndInv, TypeOK, ProgressOK, Admitted
<1>3. StaleStays'
  BY DEF Begin, hist, IndInv, TypeOK, StaleStays
<1>4. AdmissionExact'
  BY DEF Begin, hist, IndInv, TypeOK, ProgressOK, AdmissionExact, Admitted, OrgOf
<1>5. AuditTrail'
  BY DEF Begin, hist, IndInv, TypeOK, ProgressOK, AuditTrail, Mutations
<1>6. QED
  BY <1>1, <1>2, <1>3, <1>4, <1>5 DEF IndInv

(* A row, once there, keeps all but its revocation. *)
RowKept(i) ==
  /\ rows[i] # NoRow => /\ rows'[i] # NoRow
                        /\ rows'[i].kind = rows[i].kind /\ rows'[i].org = rows[i].org
                        /\ rows'[i].salt = rows[i].salt
  /\ rows[i].revoked => rows'[i].revoked

LEMMA EvolvesKeeps ==
  ASSUME TypeOK, NEW o \in Orgs, Evolves(o), NEW i \in Ids
  PROVE  RowKept(i)
<1>1. CASE rows[i] \in Rows /\ rows'[i] = [rows[i] EXCEPT !.revoked = TRUE]
  <2>1. rows'[i].org \in Orgs
    BY <1>1 DEF Rows
  <2>2. QED
    BY <1>1, <2>1, IdentityAssumption DEF RowKept, Rows, NoRow
<1>2. CASE rows[i] = NoRow \/ rows'[i] = rows[i]
  BY <1>2 DEF RowKept, NoRow
<1>3. QED
  BY <1>1, <1>2 DEF Evolves, TypeOK

LEMMA ExecuteKeeps ==
  ASSUME IndInv, NEW q \in Reqs, Execute(q)
  PROVE  IndInv'
<1>0. /\ org[q] \in Orgs /\ call[q] \in Calls /\ Evolves(org[q])
      /\ \A i \in Ids : RowKept(i)
  BY ActsForOrg, EvolvesKeeps DEF Execute, IndInv
<1>1. TypeOK'
  BY <1>0 DEF Execute, Evolves, IndInv, TypeOK
<1>2. ProgressOK'
  BY <1>0 DEF Execute, RowKept, IndInv, TypeOK, ProgressOK, Admitted
<1>3. StaleStays'
  BY <1>0 DEF Execute, RowKept, IndInv, TypeOK, StaleStays
<1>4. AdmissionExact'
  BY <1>0 DEF Execute, RowKept, IndInv, TypeOK, ProgressOK, AdmissionExact, Admitted, OrgOf
<1>5. AuditTrail'
  BY DEF Execute, IndInv, TypeOK, ProgressOK, AuditTrail, Mutations
<1>6. QED
  BY <1>1, <1>2, <1>3, <1>4, <1>5 DEF IndInv

LEMMA AnswerLostKeeps ==
  ASSUME IndInv, NEW q \in Reqs, AnswerLost(q)
  PROVE  IndInv'
<1>0. /\ org[q] \in Orgs /\ call[q] \in Calls /\ Evolves(org[q])
      /\ \A i \in Ids : RowKept(i)
  BY ActsForOrg, EvolvesKeeps DEF AnswerLost, IndInv
<1>1. TypeOK'
  BY <1>0 DEF AnswerLost, Evolves, IndInv, TypeOK
<1>2. ProgressOK'
  BY <1>0 DEF AnswerLost, RowKept, IndInv, TypeOK, ProgressOK, Admitted
<1>3. StaleStays'
  BY <1>0 DEF AnswerLost, RowKept, IndInv, TypeOK, StaleStays
<1>4. AdmissionExact'
  BY <1>0 DEF AnswerLost, RowKept, IndInv, TypeOK, ProgressOK, AdmissionExact, Admitted, OrgOf
<1>5. AuditTrail'
  BY DEF AnswerLost, IndInv, TypeOK, ProgressOK, AuditTrail, Mutations
<1>6. QED
  BY <1>1, <1>2, <1>3, <1>4, <1>5 DEF IndInv


(***************************************************************************)
(* The theorems.                                                           *)
(***************************************************************************)
LEMMA StepKeeps ==
  ASSUME IndInv, [Next]_vars
  PROVE  IndInv'
<1>1. CASE UNCHANGED vars
  BY <1>1 DEF vars, IndInv, TypeOK, ProgressOK, StaleStays, AdmissionExact, AuditTrail, Admitted, OrgOf
<1>2. CASE Next
  BY <1>2, AskedAssumption, LoginKeeps, ExpireKeeps, RestartKeeps, BeginKeeps, AuthenticateKeeps,
     AuthFailsKeeps, WrongOrgKeeps, ExecuteKeeps, AnswerLostKeeps, StatementFailsKeeps, AuditLogKeeps,
     AuditFailsKeeps DEF Next
<1>3. QED
  BY <1>1, <1>2

LEMMA InitOK == Init => IndInv
<1> SUFFICES ASSUME Init PROVE IndInv
  OBVIOUS
<1>1. rows \in [Ids -> Rows \cup {NoRow}]
  <2>1. PICK k \in Ids, o \in Orgs :
          rows = [i \in Ids |-> IF i = k THEN [kind |-> "api_key", org |-> o, salt |-> "plain",
                                               revoked |-> FALSE] ELSE NoRow]
    BY DEF Init
  <2>2. [kind |-> "api_key", org |-> o, salt |-> "plain", revoked |-> FALSE] \in Rows
    BY DEF Rows, Kinds, Salts
  <2>3. QED
    BY <2>1, <2>2
<1>2. sso \in [Orgs -> Secrets]
  BY DEF Init, Secrets, NoSecret
<1>3. TypeOK
  BY <1>1, <1>2 DEF Init, TypeOK
<1>4. ProgressOK /\ StaleStays /\ AdmissionExact /\ AuditTrail
  BY IdentityAssumption DEF Init, ProgressOK, StaleStays, AdmissionExact, AuditTrail, Admitted
<1>5. QED
  BY <1>3, <1>4 DEF IndInv

(* The invariant holds of every behaviour of the requests and replicas. *)
THEOREM Inductive == Spec => []IndInv
BY InitOK, StepKeeps, PTL DEF Spec

(* The types of the state, whatever requests ask for. *)
THEOREM TypeCorrect == Spec => []TypeOK
<1>1. IndInv => TypeOK
  BY DEF IndInv
<1>2. QED
  BY <1>1, Inductive, PTL

(* Auth.Middleware: a revoked key and an expired token are refused on      *)
(* every replica, an admitted request acts for its own org, and a key from *)
(* before the pepper is refused only once it is revoked.                   *)
THEOREM AdmitsExactly == Spec => []AdmissionExact
<1>1. IndInv => AdmissionExact
  BY DEF IndInv
<1>2. QED
  BY <1>1, Inductive, PTL

(* auditLog: whatever fails, restarts or races, the audit rows speak only  *)
(* of statements that were executed, and of every one that met no fault.   *)
THEOREM Audited == Spec => []AuditTrail
<1>1. IndInv => AuditTrail
  BY DEF IndInv
<1>2. QED
  BY <1>1, Inductive, PTL

(* One statement of a request, against the action property: the secret.    *)
LEMMA SecretByOwnSave ==
  ASSUME TypeOK, NEW q \in Reqs, org[q] \in Orgs,
         Statement(org[q], call[q].do, env[call[q].at]),
         NEW o \in Orgs, sso'[o] # sso[o]
  PROVE  /\ org[q] = o /\ call[q].do.op = "put_sso"
         /\ sso'[o].plain = call[q].do.arg /\ sso'[o].plain # Unset
<1>1. call[q].do.op = "put_sso" /\ UpsertSSOConfig(org[q], call[q].do, env[call[q].at])
  BY DEF Statement, HandleCreateAPIKey, HandleCreateSCIMToken, HandleCreateInvite, HandleRevokeAPIKey,
         HandleRevokeSCIMToken, HandleCancelInvite, HandlePutSSO, HandleGetSSO, HandleRevokeSession,
         CreateAPIKey, CreateSCIMToken, CreateInvite, Insert, Revoke, GetSSOConfig, RevokeSessions
<1>2. QED
  BY <1>1 DEF UpsertSSOConfig, TypeOK

(* Every handler filters by the org of its credential: no request, under   *)
(* whatever id, changes a row or a secret of another org.                  *)
THEOREM StaysInOrg == Spec => OwnOrgOnly
<1>1. ASSUME IndInv, [Next]_vars
      PROVE  [/\ \A i \in Ids : rows'[i] # rows[i] =>
                   /\ \E q \in Reqs : pc[q] = "handle" /\ org[q] = rows'[i].org
                   /\ rows[i] # NoRow => rows'[i] = [rows[i] EXCEPT !.revoked = TRUE]
              /\ \A o \in Orgs : sso'[o] # sso[o] =>
                   \E q \in Reqs : /\ pc[q] = "handle" /\ org[q] = o /\ call[q].do.op = "put_sso"
                                  /\ sso'[o].plain = call[q].do.arg /\ sso'[o].plain # Unset]_vars
  <2>1. CASE \E q \in Reqs : Execute(q) \/ AnswerLost(q)
    <3>1. PICK q \in Reqs : pc[q] = "handle" /\ Statement(org[q], call[q].do, env[call[q].at])
      BY <2>1 DEF Execute, AnswerLost
    <3>2. org[q] \in Orgs /\ Evolves(org[q])
      BY <1>1, <3>1, ActsForOrg
    <3>3. \A i \in Ids : rows'[i] # rows[i] =>
            /\ pc[q] = "handle" /\ org[q] = rows'[i].org
            /\ rows[i] # NoRow => rows'[i] = [rows[i] EXCEPT !.revoked = TRUE]
      BY <3>1, <3>2 DEF Evolves
    <3>4. \A o \in Orgs : sso'[o] # sso[o] =>
            /\ pc[q] = "handle" /\ org[q] = o /\ call[q].do.op = "put_sso"
            /\ sso'[o].plain = call[q].do.arg /\ sso'[o].plain # Unset
      BY <1>1, <3>1, <3>2, SecretByOwnSave DEF IndInv
    <3>5. QED
      BY <3>3, <3>4
  <2>2. CASE UNCHANGED <<rows, sso>>
    BY <2>2
  <2>3. QED
    BY <1>1, <2>1, <2>2 DEF Next, vars, Login, Expire, Restart, Begin, Authenticate, AuthFails,
       WrongOrg, StatementFails, AuditLog, AuditFails
<1>2. QED
  BY <1>1, Inductive, PTL DEF Spec, OwnOrgOnly
=============================================================================
