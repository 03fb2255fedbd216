SPECIFICATION Spec
CONSTANTS
  Node = {n1, n2, n3, n4}
  NULL = NULL
  MaxDepth = 2
INVARIANTS TypeOK NoCycles DepthBounded
PROPERTY SiblingOrderKept
