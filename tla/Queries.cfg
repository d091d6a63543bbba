SPECIFICATION FairSpec
CONSTANTS
  Threads = {t1, t2}
  First = t1
  Queried <- MCQueried
  Questions <- MCQuestions
  NoFilter = NoFilter
  Label <- MCLabel
  Document <- MCDocument
  ef_ = 1
  TagCount = 3
  Garbage = {0, 1}
  FarAway = 1000000
  SizeMax = 7
  M = 2
INVARIANTS
  AnswersAsAlone
  ConditionCountsResults
  StopConditionMet
PROPERTIES
  MarkedByItself
  QueriesEnd
\* A query whose behaviour is undefined goes no further.
CHECK_DEADLOCK FALSE
