CONSTANTS
  c1 = c1
  c2 = c2
  c3 = c3
  Proc = {c1, c2}
  Name = {"p", "q"}
  MaxVer = 2
  Provides <- MCProvides
  Requires <- MCRequires
  Reverts <- MCReverts
  Forced = {TRUE, FALSE}
  Args <- MCArgs
  MaxCmds = 2
  MaxChanges = 1
SYMMETRY Symmetry
SPECIFICATION Spec
PROPERTIES ShlibsKept 
CHECK_DEADLOCK FALSE
