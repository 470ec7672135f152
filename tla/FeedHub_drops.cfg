\* One hub of the live feed, two connections with channels of one slot.
CONSTANTS
  o1 = o1 o2 = o2 a1 = a1 a2 = a2 t1 = t1 v1 = v1 r1 = r1 r2 = r2 s1 = s1 s2 = s2 s3 = s3
  AnyValue = AnyValue
  Replicas = {r1}
  Subs = {s1, s2}
  Orgs = {o1}
  Events <- LiveEvents
  Filters <- LiveFilters
  Buffer = 1
  MaxEvents = 2
  WireCap = 1
  Background = FALSE
  Outages = FALSE
SPECIFICATION Spec
INVARIANT DropsOncePerEvent
CHECK_DEADLOCK FALSE
