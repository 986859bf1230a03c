CONSTANTS
  p1 = p1
  p2 = p2
  p3 = p3
  Proc = {p1, p2, p3}
  Cmds = {"transaction", "edit", "alternatives", "clean-orphans", "download"}
  None = None
SPECIFICATION MCSpec
INVARIANTS
  CompletedIsDurable
PROPERTIES
  NoLostUpdateLockFirst
  CommandsEnd
