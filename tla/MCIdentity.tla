----------------------------- MODULE MCIdentity -----------------------------
(* Instances of Identity for TLC: two orgs, a user of the first, a key of  *)
(* either, and requests that name any credential, org and row; the user    *)
(* stays in its org, and alone reads the SSO configuration and revokes     *)
(* sessions.                                                               *)
EXTENDS Identity, TLC

CONSTANTS o1, o2, u1, i1, i2, q1, q2, x1, p1, k1, c1

MCUserOrg == [u \in Users |-> o1]
MCAsked == {c \in Calls : /\ c.cred \in Users => c.path = UserOrg[c.cred]
                          /\ c.do.op \in {"get_sso", "revoke_sessions"} => c.cred \in Users}
Symm == Permutations(Ids) \cup Permutations(Reqs)
=============================================================================
