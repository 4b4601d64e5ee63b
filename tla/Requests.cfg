SPECIFICATION PartSpec
CONSTANTS
  User = {1, 2}
  Admin = {2}
  Call = {c1, c2}
  Number = {1}
  Spelling = {"canonical", "typed"}
  MaxSeeds = 1
  Account = {1, 2}
  Text <- Texts
  Unset = Unset
  Deployment <- Deployments
  Session <- Sessions
  Exprs <- Expressions
  Starts <- StartDays
  Steps = 4
INVARIANTS
  RequestsSafe
  AccessSafe
  CronSafe
PROPERTIES
  CarefulSteps
SYMMETRY CallSymmetry
CHECK_DEADLOCK FALSE
