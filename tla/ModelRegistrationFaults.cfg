SPECIFICATION Spec
CONSTANTS
  g1 = g1
  g2 = g2
  g3 = g3
  g4 = g4
  Winners <- FourWinners
  Forecast = {g1, g3, g4}
  MaxWorkers = 2
  Faults = {"register", "attach", "tag", "read", "log", "crash"}
  MaxAttempts = 2
INVARIANTS
  NoDuplicateVersions
  ReportsAreTrue
  RunIsLogged
PROPERTIES
  EveryCallEnds
CHECK_DEADLOCK FALSE
