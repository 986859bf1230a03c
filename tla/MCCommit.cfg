CONSTANTS
  a = a
  b = b
  Pkg = {a, b}
  MaxVer = 2
  RemScript = {a, b}
  MaxLen = 2
  MaxRuns = 2
  MaxFaults = 1
SPECIFICATION MCSpec
INVARIANTS
  
  SuccessIsComplete
  
PROPERTIES
  ImplementsPkgStates
  ReconfigureRecovers
  CommandEnds
