SPECIFICATION UpdateSpec
CONSTANTS
  Threads = {t1}
  NoThread = NoThread
  Updaters = {u1, u2}
  Renewed = {0, 2}
  M = 2
  ef_construction_ = 2
  max_elements_ = 4
  MaxLevel = 1
  NewPoints = {10}
  Indexes <- ThreeElements
  Toggled = {}
  Heuristic <- MCHeuristic
INVARIANTS
  ListsSound
  NoCallFails
PROPERTY AllCallsReturn
