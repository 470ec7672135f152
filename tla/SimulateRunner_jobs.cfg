\* A job of either org, one download at a time, one sample a direction.
CONSTANTS
  Jobs = {"j"}
  Requests <- MCRequests
  Orgs = {"o1", "o2"}
  Agents = {"a"}
  Runs <- MCRuns
  OrgOf <- MCOrgOf
  AgentOf <- MCAgentOf
  Age <- MCAge
  Trace <- MCTrace
  Rank <- MCRank
  MaxRunsPerSim = 2
  Fanout = 1
  MaxSamples = 1
  Windows = {1, 7, 30}
  Stored = {"r2", "s1"}
  MaxFaults = 2
SPECIFICATION FairSpec
INVARIANTS EventsWhole ResultExact FailsSoft
PROPERTIES JobsFinish
CHECK_DEADLOCK FALSE
