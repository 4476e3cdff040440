CONSTANTS
  Providers = {p1, p2}
  Enabled = {p1}
  Triggers = {g1, g2}
  Sweeper = sweeper
  MaxStep = 2
  MetaFails = TRUE
  MayRestart = TRUE
SPECIFICATION FairDiscoverySpec
INVARIANT BackoffAgrees
PROPERTIES DiscoveryResumes
