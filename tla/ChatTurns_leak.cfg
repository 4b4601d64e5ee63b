SPECIFICATION FairSpec
CONSTANTS
  u1 = u1
  u2 = u2
  Turns = {1, 2, 3}
  User <- MCUser
  MaxConcurrent = 1
  MaxRounds = 1
  Buffer = 1
  Chunks = {}
  MaxChunks = 0
  Defects <- MCNoDefect
  Tools <- MCTools
  Impatient = {1}
INVARIANT NobodyLockedOut
CHECK_DEADLOCK FALSE
