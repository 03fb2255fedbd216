SPECIFICATION Spec
CONSTANTS
  Node = {n1, n2, n3, n4, n5}
  NULL = NULL
  MaxDepth = 2
  CacheThreshold = 1
  Shortages <- AllOrNone
SYMMETRY NodeSymmetry
INVARIANTS TypeOK CacheCoherent
PROPERTY SetItemAtomic
