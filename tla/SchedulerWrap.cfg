SPECIFICATION Spec
CONSTANTS
  Thread <- FourThreads
  Programs <- Wrapping
  THREAD_MAX = 5
  time_slice = 2
  q_p = 1
  q_s = 1
INVARIANT ReturnsWhenAllExited
CHECK_DEADLOCK FALSE
