SPECIFICATION Spec
CONSTANTS
  dir = dir
  f1 = f1
  lead = lead
  mate = mate
  None = None
  Task = {t1, t2}
  Thread = {lead, mate}
  Leader = lead
  Scope <- Scope1
  File <- File1
  Overlap <- Overlap1
  Rank <- Rank1
  RequestSets <- MCRequestSets
  Updates <- MCUpdates
  MaxBlockers = 0
  Links = {}
  Mates = {}
SYMMETRY TaskSymmetry
INVARIANTS
  WritersExclusive
