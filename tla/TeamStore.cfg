SPECIFICATION Spec
CONSTANTS
  Call = {c1, c2}
  Interruptible = {c1, c2, Cleaner}
  Failing = {c1, c2, Cleaner}
  Cleaner = Cleaner
  Old = Old
  Absent = Absent
  MaxCrashes = 2
CHECK_DEADLOCK FALSE
SYMMETRY CallSymmetry
INVARIANTS
  QuietTeamIsSaved
