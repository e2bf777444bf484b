SPECIFICATION Spec
CONSTANTS
  Submissions = {s1, s2, s3}
  JobIds = {j1, j2, j3, j4, j5, j6}
  Faults = {"list", "acl", "reply_lost", "call"}
INVARIANTS
  ComputeIsOwnOrOverlapping
  OneJobWithoutOverlap
SYMMETRY Symmetry
CHECK_DEADLOCK FALSE
