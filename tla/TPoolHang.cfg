SPECIFICATION FairSpec
CONSTANTS
  Worker = {w1, w2}
  Main = main
  NoWork = NoWork
  MAX_QUEUE_SIZE = 2
  N = 2
  T = 2
  NumWorks <- WholeProducts
PROPERTY SynchronizeReturns
CHECK_DEADLOCK FALSE
