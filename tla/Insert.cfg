SPECIFICATION FairSpec
CONSTANTS
  Threads = {t1, t2}
  NoThread = NoThread
  M = 2
  ef_construction_ = 2
  max_elements_ = 4
  MaxLevel = 1
  NewPoints = {0, 10, 23}
  Indexes <- FromAny
  Toggled = {0}
  Heuristic <- MCHeuristic
INVARIANTS
  TypeOK
  LockOrder
  NeverThrown
  EntryPointOnTop
  ListsSound
  ReachableOnEveryLevel
PROPERTY AllPointsAdded
