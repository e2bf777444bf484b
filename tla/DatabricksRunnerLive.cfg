SPECIFICATION FairSpec
CONSTANTS
  Runs = {r1}
  Threads = {t1, t2}
  Faults = {"upload"}
PROPERTIES
  EveryRunSettles
CHECK_DEADLOCK FALSE
