SPECIFICATION Spec
CONSTANTS
  Repo = {"r1", "r2"}
  Session = {1}
  Home <- OneHome
  Capacity = 2
  Faults = {"pass", "enumerate", "abort"}
  MaxFaults = 1
  Changes = {"close", "uninstall", "hint"}
  MaxChanges = 2
INVARIANTS
  ProjectionSafe
PROPERTIES
  NeverForgets
