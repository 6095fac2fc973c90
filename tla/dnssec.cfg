CONSTANTS
  h1 = h1
  h2 = h2
  Handlers = {h1, h2}
  Depth = 3
  maxChainDepth = 2
  Worlds <- MCWorlds
  Offered <- MCOffered
SPECIFICATION Spec
INVARIANTS
  SecureIsAuthentic
  InsecureIsProven
  ConsistentIsAccepted
PROPERTY KeysRecover
