SPECIFICATION Spec
CONSTANTS
  Thread = {t1, t2, t3}
  NoThread = NoThread
  Queue = {q1}
  NoQueue = NoQueue
  Priority <- Ranks
  Forever = Forever
  MaxMessages = 2
  MaxTime = 1
CONSTRAINT BoundedVersion
SYMMETRY ThreadSymmetry
INVARIANTS
  ItemsSeenByHolder
PROPERTIES
  IsWorkQueue
  ChangesVersioned
  UrgentFirst
