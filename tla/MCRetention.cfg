SPECIFICATION RetentionSpec
CONSTANTS
  Callers = {c1, c2, c3}
  NoCaller = NoCaller
INVARIANTS
  ClosesOnce
  RunningIsTrue
  RunsOnlyEnabled
PROPERTY CallsReturn
