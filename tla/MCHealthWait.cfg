SPECIFICATION Spec
CONSTANTS
  Configs <- MCConfigs
  Replicas = 3
INVARIANTS
  HealthyRestsOnProbe
  UnhealthyRestsOnProbe
PROPERTIES
  StatusIsEarned
  Decides
