SPECIFICATION FairSpec
CONSTANTS
  Repo = {"r1", "r2"}
  Session = {1}
  Home <- OneHome
  Capacity = 2
  Faults = {"pass", "abort"}
  MaxFaults = 1
  Changes = {"open", "close", "uninstall", "install", "disable"}
  MaxChanges = 1
PROPERTIES
  EventuallyReady
  ClosedIsRevoked
