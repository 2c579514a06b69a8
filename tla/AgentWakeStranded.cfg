SPECIFICATION Spec
CONSTANTS
  Sender = {s1}
  Waiter = {}
  MaxMessages = 2
  Capacity = 4
  Launcher = Launcher
  Loop = Loop
  Closer = Closer
  Shutdown = Shutdown
  NoState = NoState
CHECK_DEADLOCK FALSE
INVARIANTS
  NoStrandedWake
