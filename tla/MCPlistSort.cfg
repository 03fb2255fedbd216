SPECIFICATION SortSpec
CONSTANTS
  Key <- MCKey
  MaxPairs = 6
  NULL = NULL
INVARIANTS NothingLost SortedAndStable
PROPERTIES Termination
CHECK_DEADLOCK FALSE
