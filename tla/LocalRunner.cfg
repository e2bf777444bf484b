SPECIFICATION FairSpec
CONSTANTS
  Runs = {r1}
  Cancellers = {c1, c2}
  Faults = {"mkdtemp", "launch", "engine", "crash", "timeout", "tracking", "restart"}
INVARIANTS
  NoRunIsLost
  CompletedIsTrue
  CleanupAfterDeath
PROPERTIES
  CancelWithProcessSticks
  EveryRunEnds
  ListingCatchesUp
CHECK_DEADLOCK FALSE
