SPECIFICATION Spec
CONSTANTS
  Key = {"a", "b"}
  Address = {a1, a2, a3, a4}
  MaxNesting = 2
  NULL = NULL
SYMMETRY AddressSymmetry
INVARIANTS Mirrors NoOrphans
