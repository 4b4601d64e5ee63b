SPECIFICATION Spec
CONSTANTS
  Issue = {1}
  Config = {"a", "a2", "b", "bad"}
  Malformed = {"bad"}
  LaunchHash <- BodyLaunchHash
  WorkLabels <- BodyWorkLabels
  Creator <- OneCreator
  IdleGrace = 1
  MinLifetime = 1
  Faults = {"authority_check", "read", "label", "preflight", "pod", "secret", "crash", "pod_fails", "collector_lag"}
  MaxFaults = 2
  Changes = {"edit", "close", "work", "authority", "reachable", "broken"}
  MaxChanges = 2
  MaxNotices = 2
INVARIANTS
  LifecycleSafe
PROPERTIES
  AnnouncedConfigStands
