SPECIFICATION ViewSpec
CONSTANTS
  k1 = k1
  k2 = k2
  Series <- TwoKeys
  Clusters = {"no ray", "multi node"}
  Entries = {"workflow", "run", "bundle"}
  Faults = {"stage", "unexpected", "key", "tracking", "storage", "crash"}
  MaxRetries = 1
INVARIANTS
  TypeOK
  StagesBuildOnEarlierOnes
  ActiveKeysHaveInputs
  SelectionIsTheSurvivors
  EveryKeyIsAccountedFor
  RowTellsTheOutcome
  PhasesShowInOrder
  ViewMatchesTheRun
CHECK_DEADLOCK FALSE
