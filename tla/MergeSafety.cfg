SPECIFICATION Spec
CONSTANTS
  Threads = {t1, t2}
  NoThread = NoThread
  M = 2
  Lambda = 3
  Alpha <- MCAlpha
  Pairs <- WithAndWithoutDeletions
  LayerSearch <- MCsearch2Layer
  Heuristic <- MCHeuristic
SYMMETRY ThreadSymmetry
INVARIANTS
  TypeOK
  
  DegreeBound
  NoDataRace
  EveryForwardEdgeOffered
  BackwardConnected
  FindsEveryElement
  BackwardSearchFindsEveryElement
