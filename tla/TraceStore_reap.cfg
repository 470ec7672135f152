\* Two orgs that use the same run id.
CONSTANTS
  o1 = o1 o2 = o2 a1 = a1 a2 = a2 r1 = r1 r2 = r2 t1 = t1 t2 = t2 t4 = t4 bad = bad
  q1 = q1 q2 = q2 w1 = w1 w2 = w2
  NoTrace = NoTrace
  Orgs = {o1, o2}
  Agents = {a1, a2}
  Runs = {r1}
  Traces = {t1}
  Refused = {}
  AgentOf <- MCAgentOf
  RunOf <- MCRunOf
  Registered <- MCRegistered
  Reqs = {q1, q2}
  Workers = {w1}
  TTL = 1
  MaxTime = 3
  BatchSize = 1
  Faults = {}
SPECIFICATION Spec
PROPERTY ReapOnlyExpired
CHECK_DEADLOCK FALSE
