CONSTANTS
  Models = {m1}
  MaxBackoffLevel = 1
  MaxCooldown = 1
  Conns = {c1}
  Serves <- ServesAll
  Managed = {c1}
  StoreFails = TRUE
  Requests = {r1, r2}
  Walks <- DirectWalks
  Outcomes = {"success", "auth_rejected", "server_error"}
  Faults = {"cancel"}
  None = None
  Subscriptions = {c1}
  DisableAfter = 2
  NoVisit = NoVisit
  MayRestart = TRUE
SPECIFICATION Spec
SYMMETRY RequestSymmetry

INVARIANT RefreshOwnsTheCredential
PROPERTIES StrandsOnlyByUnmarkedReturns DisabledUndoneOnlyByItsUser
