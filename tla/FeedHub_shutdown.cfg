\* One hub, two connections, Postgres restarts: shutdown completes once traffic pauses.
CONSTANTS
  o1 = o1 o2 = o2 a1 = a1 a2 = a2 t1 = t1 v1 = v1 r1 = r1 r2 = r2 s1 = s1 s2 = s2 s3 = s3
  AnyValue = AnyValue
  Replicas = {r1}
  Subs = {s1, s2}
  Orgs = {o1, o2}
  Events <- LiveEvents
  Filters <- LiveFilters
  Buffer = 1
  MaxEvents = 2
  WireCap = 1
  Background = FALSE
  Outages = TRUE
SPECIFICATION FairSpec
PROPERTIES CloseTerminates StreamsEnd
CHECK_DEADLOCK FALSE
