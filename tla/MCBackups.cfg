SPECIFICATION WalkSpec
CONSTANTS
  Services <- MCServices
  Namings <- MCNamings
  Deployments <- MCDeployments
  MaxHistory = 1
  Offset = 5
  MaxTime = 2
  MaxVersion = 1
  Faults = {"copy", "remove", "restore", "up"}
  MaxFaults = 1
INVARIANTS
  RollbackRestoresPrepared
  RollbackCanBeRepeated
  HistoryBounded
  WalkLeavesFile
PROPERTIES
  CleanupSparesOthers
  DroppedOnlyRestored
