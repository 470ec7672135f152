SPECIFICATION Spec
CONSTANTS
  Orgs <- MCOrgs
  OrgOrder <- MCOrgOrder
  Agents = {"a"}
  Tools = {"t"}
  Unknown = "unknown"
  Runs <- MCRuns
  OrgOf <- MCOrgOf
  AgentOf <- MCAgentOf
  Started <- MCStarted
  ActionsDenied <- MCDenied
  Denials <- MCDenials
  ListLimit = 2
  Threshold = 2
  FallbackCount = 2
  HasKey = TRUE
  HasS3 = TRUE
  Gaps <- MCGaps
  FailingOrgs = {"first"}
  Workers = {"w"}
  Reqs = {"q1", "q2"}
  Ids = {1}
  Sent = {"approved", "dismissed"}
  Stored = {"r2", "s1"}
  MaxFaults = 1
  MaxPerKey = 1
INVARIANTS EvidenceOwnRuns EvidenceAddsUp DecisionAudited
PROPERTIES ProposalsKept GapsProposed
CHECK_DEADLOCK FALSE
