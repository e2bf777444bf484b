SPECIFICATION Spec
CONSTANTS
  Runs = {r1}
  Threads = {t1}
  Faults = {"restart"}
INVARIANTS
  LiveRunsReadLive
CHECK_DEADLOCK FALSE
