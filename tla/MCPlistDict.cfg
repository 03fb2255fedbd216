SPECIFICATION Spec
CONSTANTS
  Node = {n1, n2, n3, n4, n5, n6}
  NULL = NULL
  MaxDepth = 2
  Key = {1, 2}
  HashOf <- SameBucket
  HashThreshold = 1
  Alloc <- SomeFree
  Shortages <- AllOrNone
SYMMETRY NodeSymmetry
INVARIANTS TypeOK TableHoldsPairs LookupFindsPairs
PROPERTIES EntryChangesOnlyByItsKey RollBackNeedsMemory
