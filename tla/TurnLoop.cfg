SPECIFICATION FairSpec
CONSTANTS
  Mate = {m1}
  Number = {1}
  MaxSubmissions = 4
  MaxRequests = 2
CHECK_DEADLOCK FALSE
INVARIANTS
  PendingIsWaiting
  AnswersTheQuestion
  SteeringKept
PROPERTIES
  HandledInOrder
  InputsHandled
