SPECIFICATION Spec
CONSTANTS
  Services <- MCServices
  Graphs <- MCGraphs
  Inputs <- MCInputs
INVARIANTS
  DependenciesFirst
  NoRepetition
  VerdictIsRight
PROPERTY Terminates
