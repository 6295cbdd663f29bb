\* Three turns with two models, one configuration and one compaction.
SPECIFICATION FairSpec
CONSTANTS
  m1 = m1  m2 = m2  g1 = g1  s1 = s1
  MaxTurns = 3
  None = None
  Models <- MCModels
  Configs <- MCConfigs
  Summaries <- MCSummaries
  Policies <- MCPolicies
INVARIANTS OneConversation HeardInFull ToldOnce NoHiddenEnd
PROPERTIES TurnsEnd
CHECK_DEADLOCK FALSE
