CONSTANTS
  Thread = {1, 2}
  Key = {1, 2, 3, 4, 5}
  FirstKey = 2
  FirstValue = 7
  Value = {7, 8}
  Leaf <- MCLeaf
  MayUse <- MCMayUse
  Width = 4
  Spell <- MCSpell
  MaxObj = 8
  MaxOps = 5
SPECIFICATION PlistSpec
INVARIANTS   LookupSound  FileWhole
CHECK_DEADLOCK FALSE
