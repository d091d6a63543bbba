SPECIFICATION FairSpec
CONSTANTS
  Threads = {t1, t2}
  NoThread = NoThread
  M = 2
  Lambda = 2
  Alpha <- MCAlpha
  Pairs <- ThreeIntoTwo
  LayerSearch <- MCExactSearch
  Heuristic <- MCPlainCut
PROPERTIES
  RefinesMergeSpec
  Terminates
