\* Two saves or label changes at a time, two orgs with an agent of the same name, faults.
CONSTANTS
  o1 = o1 o2 = o2 n1 = n1 n2 = n2 s1 = s1 p1 = p1 p2 = p2 bad = bad q1 = q1 q2 = q2 q3 = q3
  NoPolicy = NoPolicy NoName = NoName
  Orgs = {o1, o2}
  Names = {n1}
  SetNames = {s1}
  Policies = {p1, bad}
  Invalid = {bad}
  Labels <- MCLabels
  Reqs = {q1, q2}
  Requests <- RaceRequests
  Faults = TRUE
SPECIFICATION Spec
INVARIANTS SetIsLastSave ToldOfOwnSave SelectorIsConjunction LabelsOverwritten RunsOwnOrgPolicy
SYMMETRY Symm
CHECK_DEADLOCK FALSE
