SPECIFICATION FairCacheSpec
CONSTANTS
  Keys = {0, 1, 2}
  Values = {v1, v2}
  Blank = Blank
  NoAnswer = NoAnswer
  MaxItems = 3
  MaxBatch = 3
  MaxSize = 3
INVARIANTS
  Consistent
PROPERTIES
  Implements
  PushReturns
