SPECIFICATION FairSpec
CONSTANTS
  Thread <- ThreeThreads
  Programs <- CommandLines
  THREAD_MAX = 7
  time_slice = 2
  q_p = 1
  q_s = 1
INVARIANTS
  TypeOK
  OnePlaceEach
  CountsHaveHolders
  GrantsFromHead
  ReturnsWhenAllExited
  IdleOnlyWhileOthersSleep
  CountsRight
PROPERTIES
  ImplementsDispatcher
  Terminates
CHECK_DEADLOCK FALSE
