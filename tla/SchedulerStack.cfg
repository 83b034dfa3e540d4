SPECIFICATION Spec
CONSTANTS
  Thread <- TwoThreads
  Programs <- Rivals
  THREAD_MAX = 5
  time_slice = 1
  q_p = 1
  q_s = 1
INVARIANT EnrollsByOwnPreference
CHECK_DEADLOCK FALSE
