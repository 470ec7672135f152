\* Both hubs, one connection left for a request, a stream, a job and a worker.
CONSTANTS
  live = live policy = policy p1 = p1 s1 = s1 j1 = j1 w1 = w1
  HubOrder <- StartOrder
  Plain = {p1}
  Streams = {s1}
  Feeds <- StreamHub
  Jobs = {j1}
  Workers = {w1}
  MaxConns = 3
  MaxStmts = 1
SPECIFICATION FairSpec
INVARIANTS GracefulDrain
PROPERTIES ShutdownEnds RequestsEnd
CHECK_DEADLOCK FALSE
