\* A pattern that reaches the threshold and does not pass it.
SPECIFICATION Spec
CONSTANTS
  Orgs <- MCOrgs
  OrgOrder <- MCOrgOrder
  Agents = {"a"}
  Tools = {"t"}
  Unknown = "unknown"
  Runs <- MCRuns
  OrgOf <- MCOrgOf
  AgentOf <- MCAgentOf
  Started <- MCStarted
  ActionsDenied <- MCDenied
  Denials <- MCDenials
  ListLimit = 2
  Threshold = 2
  FallbackCount = 2
  HasKey = TRUE
  HasS3 = TRUE
  Gaps <- MCGaps
  FailingOrgs = {"first"}
  Workers = {"w"}
  Reqs = {"q1"}
  Ids = {1}
  Sent = {"approved", "dismissed"}
  Stored = {"r2", "s1"}
  MaxFaults = 1
  MaxPerKey = 1
INVARIANT AboveThreshold
CHECK_DEADLOCK FALSE
