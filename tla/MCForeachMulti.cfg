CONSTANTS
  ArrayCount = 8
  Cores = 3
  SliceLimit = 32
  Internal = {2, 5}
SPECIFICATION Spec
INVARIANTS
  AtMostOnce
  AllProcessed
  ErrorReturned
PROPERTY
  Returns
