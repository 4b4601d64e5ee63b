SPECIFICATION FairSpec
CONSTANTS
  Issue = {1}
  Config = {"a"}
  Malformed = {}
  LaunchHash <- BodyLaunchHash
  WorkLabels <- BodyWorkLabels
  Creator <- OneCreator
  IdleGrace = 1
  MinLifetime = 1
  Faults = {"crash"}
  MaxFaults = 1
  Changes = {}
  MaxChanges = 0
  MaxNotices = 1
PROPERTIES
  NoPartialPod
