SPECIFICATION TripSpec
CONSTANTS
  Files = {}
  Trees <- MCTrees
  DataBucket <- MCDataBucket
  MaxNesting = 2
INVARIANTS NeverRefused StoredOnce RoundTrip
CHECK_DEADLOCK FALSE
