SPECIFICATION Spec
CONSTANT Configs <- MCConfigs
INVARIANTS
  SwitchOnlyWhenHealthy
  FailureKeepsBlue
