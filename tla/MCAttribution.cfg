SPECIFICATION Spec
CONSTANTS
  box = box
  web = web
  ssh = ssh
  v1 = v1
  v2 = v2
  p = p
  q = q
  s1 = s1
  s2 = s2
  Targets <- MCTargets
  Ports <- MCPorts
  WebPorts <- MCWebPorts
  Versions <- MCVersions
  Affected <- MCAffected
  MaxHead = 1
  MaxTail = 1
  Principals <- MCPrincipals
  Scans <- MCScans
  Staged <- MCStaged
  Offers <- MCOffers
  MaxPuts = 1
INVARIANT NoSelfCorroboration
CHECK_DEADLOCK FALSE
