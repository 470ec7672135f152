\* Two requests on a replica that may restart with any environment between them.
CONSTANTS
  o1 = o1 o2 = o2 u1 = u1 i1 = i1 i2 = i2 q1 = q1 q2 = q2 x1 = x1 p1 = p1 k1 = k1 c1 = c1
  Unset = Unset
  Orgs = {o1, o2}
  Users = {u1}
  UserOrg <- MCUserOrg
  Ids = {i1, i2}
  Reqs = {q1, q2}
  Asked <- MCAsked
  Replicas = {x1}
  Peppers = {p1}
  SecretKeys = {k1}
  Plaintexts = {c1}
SPECIFICATION Spec
INVARIANTS AdmissionExact AuditTrail
PROPERTIES OwnOrgOnly
SYMMETRY Symm
CHECK_DEADLOCK FALSE
