SPECIFICATION Spec
CONSTANTS
  Proc = {a, b}
  LeaseDuration = 6
  RenewDeadline = 4
  RetryPeriod = 1
  ClockSkew = 0
  SchedLag = 0
  MaxTransitions = 2
  MaxInflight = 2
  MaxTime = 8
INVARIANTS
  ElectionSafe
  LeaderOwnsLease
PROPERTIES
  NoEarlyTakeover
  TransitionsCountHolders
  ImplementsOffice
SYMMETRY Symmetry
