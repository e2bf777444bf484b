SPECIFICATION Spec
CONSTANTS
  Submissions = {s1, s2}
  JobIds = {j1, j2}
  Faults = {}
INVARIANTS
  SelectedComputeRuns
CHECK_DEADLOCK FALSE
