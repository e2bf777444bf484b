SPECIFICATION Spec
CONSTANTS
  NaN = NaN
  Registry <- MCRegistry
  Requests <- MCRequests
  Uploads <- MCUploads
  SampleSize = 90
  Faults = {"library", "fit", "folds", "search", "explain", "drift", "fallback", "storage"}
  Decoded <- MCDecoded
  Changes <- MCChanges
  FoldErrors <- MCFoldErrors
  Widths = {1, 3}
  Importances <- MCImportances
  Agreements <- MCAgreements
INVARIANTS
  TypeOK
  NoSurvivorIsLost
  WinnerIsTheBestThatHeld
  AnswerIsUsable
  FlatHistoryIsProtected
  BetterIsRankedNoLower
  RefusalsAreForeseen
  EveryObservationCountsOnce
  TrainingIsInOrder
