CONSTANTS
  c1 = c1
  c2 = c2
  c3 = c3
  Proc = {c1, c2, c3}
  Name = {"p", "q"}
  MaxVer = 2
  Provides <- MCProvides
  Requires <- MCRequires
  Reverts <- MCReverts
  Forced = {TRUE, FALSE}
  Args <- OneArg
  MaxCmds = 3
  MaxChanges = 0
SYMMETRY Symmetry
SPECIFICATION Spec
INVARIANT ExclusiveAccess
CHECK_DEADLOCK FALSE
