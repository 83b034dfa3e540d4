SPECIFICATION FairSpec
CONSTANTS
  P = 7
  Letter <- Letters
  Name <- Names
  Not_Tako <- T
  Inputs <- Commands
  MAX_FRIEND_NAME_LEN = 3
INVARIANTS
  TypeOK
  ReadsAreOwed
  CommandsInOrder
PROPERTIES
  ImplementsFamily
  AllComeToRest
CHECK_DEADLOCK FALSE
