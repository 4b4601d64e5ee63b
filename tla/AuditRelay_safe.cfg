CONSTANTS
  r1 = r1
  r2 = r2
  Request = {r1, r2}
  Lifecycle = {1, 2}
  Event = {1, 2}
  Version = {"v1", "v2"}
  Scenario <- MCScenario
  Status = {"ok", "error"}
  Replies <- MCReplies
  QueueCapacity = 1
  BatchSize = 2
  MaxAttempts = 2
  MaxRecords = 2
  MaxFaults = 1
SPECIFICATION FairSpec
INVARIANTS RelaySafe
PROPERTIES ImplementsOutbox RelaySettles
CHECK_DEADLOCK FALSE
