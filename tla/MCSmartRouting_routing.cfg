CONSTANTS
  Conversations = {k1, k2, k3}
  Nobody = nobody
  Requests = {r1, r2}
  CatalogOrder <- MCCatalogOrder
  About <- MCAbout
  Asks <- MCAsks
  MaxSessions = 2
  MaxSize = 2
  TTL = 0
  MaxTime = 1
  MaxServed = 3
SYMMETRY Interchangeable
SPECIFICATION Spec
INVARIANTS StoresAgree 
 
CHECK_DEADLOCK FALSE
