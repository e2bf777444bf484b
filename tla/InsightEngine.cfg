SPECIFICATION Spec
CONSTANTS
  None = None
  GroupIds <- MCGroups
  Facts <- MCFacts
  Configs <- MCConfigs
  Responses <- MCResponses
  Workers = 2
  MaxRetries = 1
  Faults = {"provider"}
INVARIANTS
  EveryGroupIsExplainedInOrder
  TraceTellsTheStory
  SpendingIsAccountedFor
PROPERTIES
  GenerateEnds
CHECK_DEADLOCK FALSE
