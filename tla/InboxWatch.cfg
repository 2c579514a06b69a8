SPECIFICATION FairSpec
CONSTANTS
  Poster = {p1, p2}
  Interruptible = {p1, w1}
  Watcher = {w1, w2}
  MaxChanges = 2
  MaxWatches = 2
CHECK_DEADLOCK FALSE
INVARIANTS
  NewsIsShown
  WaitersAreWoken
PROPERTIES
  ChangeWakesWatcher
