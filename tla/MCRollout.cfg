SPECIFICATION Spec
CONSTANTS
  Configs <- MCConfigs
  PerReplica = TRUE
INVARIANTS
  SuccessMeansVerified
  BlastRadius
  RollbackCoversUpdated
  FailureLeavesOnlyCulprit
  LateUpdatesBounded
PROPERTIES
  VerdictsAreEarned
  KeepsPromise
