SPECIFICATION Spec
CONSTANTS
  Services <- MCServices
  Layouts <- JustPlain
  Config <- MCConfig
  MaxTag = 2
  RegistryIgnoresTag = FALSE
  Faults = {}
  MaxFaults = 0
PROPERTY Convergence
