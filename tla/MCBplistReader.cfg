SPECIFICATION Spec
CONSTANTS
  Files <- MCFiles
  MaxNesting = 2
INVARIANTS PathIsMarked NothingLeaked ReadsTheTree ErrorsAreTrue
PROPERTY Termination
CHECK_DEADLOCK FALSE
