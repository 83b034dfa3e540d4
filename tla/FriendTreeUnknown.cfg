SPECIFICATION Spec
CONSTANTS
  P = 6
  Letter <- Letters
  Name <- Names
  Not_Tako <- T
  Inputs <- Strangers
  MAX_FRIEND_NAME_LEN = 9
PROPERTY SaysTheTruth
CHECK_DEADLOCK FALSE
