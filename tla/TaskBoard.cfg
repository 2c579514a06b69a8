SPECIFICATION Spec
CONSTANTS
  dir = dir
  f1 = f1
  lead = lead
  mate = mate
  None = None
  Task = {t1, t2}
  Thread = {lead, mate}
  Leader = lead
  Scope <- Scope1
  File <- File1
  Overlap <- Overlap1
  Rank <- Rank1
  RequestSets <- OneRequest
  Updates <- ReviewUpdates
  MaxBlockers = 1
  Links <- AllLinks
  Mates = {mate}
SYMMETRY TaskSymmetry
INVARIANTS
  TypeOK
  DependenciesAcyclic
  ReadyStateCurrent
  ReviewStateConsistent
  LeaseFollowsOwner
  LeasesMatchStatus
PROPERTIES
  WriteGrantExclusive
  ScopesNeverForgotten
