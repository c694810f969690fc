SPECIFICATION Spec
CONSTANTS
  Services <- MCServices
  Layouts <- Every
  Config <- MCConfig
  MaxTag = 3
  RegistryIgnoresTag = TRUE
  Faults = {"fetch", "backup", "create", "flush", "restart", "crash"}
  MaxFaults = 2
INVARIANTS
  TagsBelong
  BackupBeforeModification
PROPERTIES
  NeverBack
  Convergence
