SPECIFICATION Spec
CONSTANTS
  Runs = {r1}
  Threads = {t1}
  Faults = {}
INVARIANTS
  CancelStopsTheRun
CHECK_DEADLOCK FALSE
