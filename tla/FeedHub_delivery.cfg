\* Two replicas, two connections with channels of one slot, events for them and for others.
CONSTANTS
  o1 = o1 o2 = o2 a1 = a1 a2 = a2 t1 = t1 v1 = v1 r1 = r1 r2 = r2 s1 = s1 s2 = s2 s3 = s3
  AnyValue = AnyValue
  Replicas = {r1, r2}
  Subs = {s1, s2}
  Orgs = {o1}
  Events <- PolicyEvents
  Filters <- PolicyFilters
  Buffer = 1
  MaxEvents = 2
  WireCap = 1
  Background = TRUE
  Outages = FALSE
SPECIFICATION Spec
INVARIANTS ChannelDiscipline DropsCounted
PROPERTIES NoSendOnClosed FeedPromise
CHECK_DEADLOCK FALSE
SYMMETRY Symm
