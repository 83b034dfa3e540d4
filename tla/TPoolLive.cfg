SPECIFICATION FairSpec
CONSTANTS
  Worker = {w1, w2}
  Main = main
  NoWork = NoWork
  MAX_QUEUE_SIZE = 5
  N = 2
  T = 1
  NumWorks <- SmallWorks
PROPERTIES
  SubmittedWorksFinish
  DestroyReturns
CHECK_DEADLOCK FALSE
