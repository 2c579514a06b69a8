SPECIFICATION Spec
CONSTANTS
  Weights <- MCWeights
  SummaryWeight = 1
  Limits <- MCLimits
  NoLimit = NoLimit
  HistoryCap = 3
  PrefixTokens = 1
  ReserveTokens = 1
  KeepRecentTokens = 2
  MaxRetries = 1
  MaxOverflowRetries = 1
  MaxCalls = 2
  MaxMessages = 6
  MaxSteering = 1
CHECK_DEADLOCK FALSE
INVARIANTS
  NothingLost
  NoOrphanResults
  PromptIsRecorded
  CallsAnswered
  SamplingGivesUp
