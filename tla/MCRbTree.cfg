CONSTANTS
  N = 10
  Keys <- MCKeys
SPECIFICATION Spec
INVARIANT TreeSound
PROPERTY ImplementsSet
