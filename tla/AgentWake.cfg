SPECIFICATION FairSpec
CONSTANTS
  Sender = {s1}
  Waiter = {w1}
  MaxMessages = 2
  Capacity = 1
  Launcher = Launcher
  Loop = Loop
  Closer = Closer
  Shutdown = Shutdown
  NoState = NoState
CHECK_DEADLOCK FALSE
INVARIANTS
  MessagesAccounted
  ShutdownArrives
PROPERTIES
  CloseFreesWaiters
