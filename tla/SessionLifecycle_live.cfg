SPECIFICATION FairSpec
CONSTANTS
  Issue = {1, 2}
  Config = {"a", "b"}
  Malformed = {}
  LaunchHash <- BodyLaunchHash
  WorkLabels <- BodyWorkLabels
  Creator <- OneCreator
  IdleGrace = 1
  MinLifetime = 1
  Faults = {"comments_read", "comment", "preflight", "pod", "secret", "crash", "pod_fails"}
  MaxFaults = 1
  Changes = {"edit", "close", "reopen", "work"}
  MaxChanges = 2
  MaxNotices = 1
PROPERTIES
  UnwantedIsCleaned
  IdleIsReclaimed
  PendingIsServed
