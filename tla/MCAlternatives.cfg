CONSTANTS
  MaxPkg = 3
  MaxGroup = 2
  Pkg <- MCPkg
  Path <- MCPath
  Offer <- MCOffer
  Here = "here"
  None = None
SPECIFICATION AltSpec
INVARIANTS
  LinksOfHead
  RegisteredExactly
PROPERTY
  ProviderKept
