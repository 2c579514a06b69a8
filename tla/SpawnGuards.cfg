SPECIFICATION Spec
CONSTANTS
  Call = {c1, c2, c3}
  Mate = {m1, m2, m3, m4}
  NoMate = NoMate
  MaxThreads = 2
SYMMETRY CallSymmetry
INVARIANTS
  SlotsAccounted
  TeammatesWithinLimit
  KnownThreadsCounted
PROPERTIES
  IsSlotPool
