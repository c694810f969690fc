SPECIFICATION Spec
CONSTANTS
  Services = {web, db}
  Versions = {v1, v2}
  NoVersion = NoVersion
  Pruners = {p}
  ByAge = TRUE
  MaxRecords = 1
  MaxSize = 2
  BatchSize = 1
  MaxId = 3
  MaxFaults = 1
SYMMETRY Alike
PROPERTIES
  FinishedRowsAreFinal
  VerdictIsRecorded
  OldestSeenGoFirst
