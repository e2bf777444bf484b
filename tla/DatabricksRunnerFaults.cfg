SPECIFICATION Spec
CONSTANTS
  Runs = {r1}
  Threads = {t1, t2}
  Faults = {"upload", "run_now", "reply_lost", "poll", "cancel_run", "cleanup", "tracking", "restart"}
SYMMETRY ThreadSymmetry
INVARIANTS
  TerminalStatusHasCause
  BreadcrumbHasRun
  FinishedRunIsNotCleaned
PROPERTIES
  ImplementsLifecycle
CHECK_DEADLOCK FALSE
