CONSTANTS
  N = 4
  MaxRoots = 2
  NParallel = 2
SPECIFICATION MCSpec
INVARIANTS
  AssertionsHold
  NoneForgotten
PROPERTIES
  ListedWhenReady
  Ends
