SPECIFICATION Spec
CONSTANTS
  Configs <- OneByOne
  PerReplica = FALSE
INVARIANT BlastRadius
