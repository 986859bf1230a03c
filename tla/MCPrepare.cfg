CONSTANTS
  MaxName = 4
  MaxVer = 2
  Lib = {"l"}
  Self = 4
  MaxDepth = 512
  Pools = {"new", "old_b", "no_c"}
  MaxTargets = 2
SPECIFICATION MCSpec
INVARIANTS
  
  KeptPackagesWork
  DependenciesFirst
  OrphansExact
CHECK_DEADLOCK FALSE
