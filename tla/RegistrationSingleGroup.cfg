SPECIFICATION Spec
CONSTANTS
  g1 = g1
  g2 = g2
  g3 = g3
  g4 = g4
  Winners <- OneWinner
  Forecast = {g1}
  MaxWorkers = 8
  Faults = {}
  MaxAttempts = 1
INVARIANTS
  RunIsLogged
CHECK_DEADLOCK FALSE
