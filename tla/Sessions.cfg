SPECIFICATION PartFairSpec
CONSTANTS
  Id = {1, 2, 3}
  Files = 2
  MaxAttempts = 2
  MaxFaults = 1
  MaxChanges = 1
  Rotating = {1, 2}
  Ttl = 7
  Interval = 3
  Initial = 1
  MaxRotationFaults = 2
  None = None
  Logs <- LogParts
INVARIANTS
  CredsSafe
  RotationSafe
  LogSafe
PROPERTIES
  SessionsSettle
CHECK_DEADLOCK FALSE
