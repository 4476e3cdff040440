CONSTANTS
  Models = {m1}
  MaxBackoffLevel = 1
  MaxCooldown = 1
  Conns = {c1, c2}
  Serves <- ServesAll
  Managed = {c2}
  StoreFails = FALSE
  Requests = {r1, r2}
  Walks <- DirectWalks
  Outcomes = {"success", "server_error"}
  Faults = {}
  None = None
  Subscriptions = {}
  DisableAfter = 2
  NoVisit = NoVisit
  MayRestart = TRUE
SPECIFICATION Spec
SYMMETRY RequestSymmetry
INVARIANTS TypeOK ExclusiveUse UsedIsNotIdle
PROPERTY ImplementsLease
