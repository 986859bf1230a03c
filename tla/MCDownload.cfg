CONSTANTS
  Endpoint = {"a", "f"}
  Scheme <- MCScheme
  Proxy = "proxy"
  Host <- MCHost
  GlobalLimit = 1
  HostLimit = 1
  MaxConn = 3
  N4 = 1
  N6 = 1
  MaxRedirect = 5
  File = {"pkg", "sig", "index"}
  MaxVer = 2
  Size <- MCSize
  Server <- MCServer
  MaxFaults = 1
SPECIFICATION Spec
INVARIANTS
  VerifiedOk
  
  
