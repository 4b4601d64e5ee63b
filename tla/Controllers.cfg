SPECIFICATION PartFairSpec
CONSTANTS
  Proc = {1}
  Faults = {"task_exit", "late_patch", "list", "patch", "resync"}
  MaxFaults = 3
  MaxTerms = 4
  Repo = {1, 2}
  Caller = {1, 2}
  Scope <- Scopes
  MaxInstalls = 2
  Session = {1, 2}
  Issue = {1}
  Creator <- Creators
  Watches <- WatchedLabels
  Carries <- CarriedLabels
  Nobody = "nobody"
  MaxWorkFaults = 1
  MaxEdits = 2
  Replica = {1, 2}
  FailoverFaults = {"late_patch", "list", "patch", "resync"}
  MaxFailoverFaults = 1
  MaxFailoverTerms = 1
INVARIANTS
  CachesSafe
  WorkSafe
  GenerationsSafe
PROPERTIES
  LeaderServes
  ControllersConverge
CHECK_DEADLOCK FALSE
