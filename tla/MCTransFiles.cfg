CONSTANTS
  a = a
  b = b
  None = None
  Pkg <- MCPkg
  Path <- MCPath
  Order <- MCOrder
  Edited <- MCPath
  Options = {"force_remove", "force_unpack", "keep_config", "ignore_conflicts", "package", "path", "baselink"}
SPECIFICATION MCSpec
INVARIANTS
  OthersUntouched
  Delivered
  ObsoleteGone
  EditedKept
