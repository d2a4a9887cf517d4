CONSTANTS
  MaxOps = 3
  NULL = NULL
  Pointers = {p1, p2}
  Sizes <- MCSizes
SPECIFICATION Spec
INVARIANTS Inv FindAgreesWithConcatenation
PROPERTY LogSpec
