SPECIFICATION Spec
CONSTANTS
  Byte = 4
  Vals <- MCVals
  None = None
INVARIANTS ValueKept SignedOrder
PROPERTY EqualThroughBinary
