\* Three slots for five works: the ring wraps and slots are reused.
SPECIFICATION FittingSpec
CONSTANTS
  Worker = {w1, w2, w3}
  Main = main
  NoWork = NoWork
  MAX_QUEUE_SIZE = 3
  N = 2
  T = 2
  NumWorks <- TwoProducts
INVARIANTS
  TypeOK
  NoLostWakeup
  NoStrandedWork
  LastMeansIdle
  NoWriteRace
  AllCalculated
PROPERTY ImplementsJobPool
CHECK_DEADLOCK FALSE
