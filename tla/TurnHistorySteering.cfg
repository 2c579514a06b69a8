SPECIFICATION Spec
CONSTANTS
  Weights <- MCWeights
  SummaryWeight = 1
  Limits <- MCLimits
  NoLimit = NoLimit
  HistoryCap = 3
  PrefixTokens = 1
  ReserveTokens = 1
  KeepRecentTokens = 2
  MaxRetries = 1
  MaxOverflowRetries = 1
  MaxCalls = 1
  MaxMessages = 3
  MaxSteering = 1
CHECK_DEADLOCK FALSE
PROPERTIES
  SteeringIsTaken
