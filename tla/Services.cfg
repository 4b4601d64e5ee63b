SPECIFICATION PartFairSpec
CONSTANTS
  None = None
  Event = {1, 2}
  Capacity = 1
  BatchSize = 2
  MaxRetries = 1
  Timeout = 1
  Wait = 1
  Budget = 1
  DrainGrace = 1
  Slots = {1, 2, 3}
  Anchor = 0
  MaxRuntime = 2
  MaxClock = 3
  ScheduleFaults = {"add", "remove", "create", "label", "say", "record", "lost_dispatch", "lost_manual",
                    "crash"}
  MaxScheduleFaults = 1
  MaxManual = 1
  MaxVersion = 2
  Files = 2
  MaxPullFaults = 1
  MaxPullEdits = 2
  PackageRefs <- PodRefs
  Grants <- PodGrants
  Lifecycle <- PodLifecycle
  InitialBranch = "main"
  UserEnv = {"v", "s", "FKST_X"}
  Secrets = {"s"}
  Reserved = {"FKST_X"}
  Commands = 1
  PodFaults = {"creds", "clone", "install", "kill", "kill_clone", "straggler"}
  MaxPodFaults = 2
  Profiles <- ProfileParts
  Walkers <- WalkParts
  Clients <- ClientParts
  Chats <- ChatParts
INVARIANTS
  ScheduleSafe
  WorkerSafe
  PodSafe
  EnvironmentsSafe
  WalksSafe
  CallsSafe
  TurnsSafe
PROPERTIES
  CarefulSteps
  ServicesSettle
CHECK_DEADLOCK FALSE
