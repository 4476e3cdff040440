CONSTANTS
  Models = {m1}
  MaxBackoffLevel = 1
  MaxCooldown = 1
  Conns = {c1}
  Serves <- ServesAll
  Managed = {}
  StoreFails = FALSE
  Requests = {r1, r2}
  Walks <- DirectWalks
  Outcomes = {"success", "auth_rejected", "server_error"}
  Faults = {}
  None = None
  Subscriptions = {c1}
  DisableAfter = 2
  NoVisit = NoVisit
  MayRestart = FALSE
SPECIFICATION FairSpec
PROPERTIES  OpenRecovers 
