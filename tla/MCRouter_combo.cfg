CONSTANTS
  Models = {m1, m2}
  MaxBackoffLevel = 1
  MaxCooldown = 2
  Conns = {c1, c2}
  Serves <- ServesAll
  Managed = {}
  StoreFails = TRUE
  Requests = {r1}
  Walks <- ComboWalks
  Outcomes = {"success", "client_error", "unsupported", "model_rejected", "auth_rejected", "rate_limited", "server_error", "other_5xx", "transport"}
  Faults = {"cancel", "translate", "no_executor", "preflight"}
  None = None
  Subscriptions = {}
  DisableAfter = 2
  NoVisit = NoVisit
  MayRestart = FALSE
SPECIFICATION Spec

INVARIANTS LocksDieWithTheBreaker
PROPERTIES RecoveryByTrial OrphansOnlyByTranslation
