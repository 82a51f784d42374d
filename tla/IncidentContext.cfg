\* Scenarios bound who is active, the clock, the runs and the faults.
CONSTANTS
  a1 = a1  a2 = a2  a3 = a3  t1 = t1  m1 = m1  m2 = m2  m3 = m3  m4 = m4
  shop = shop  other = other  app = app
  Requests = {a1, a2, a3, t1, m1, m2, m3, m4}
  Installations = {app}
  InstallationOf <- OneInstallation
  None = None
  Error = Error
  Lifetime = 3
  Margin = 1
  Fetch = 1
  MaxTime = 4
  ByApp = {a1, a2, a3}
  ByToken = {t1}
  Environments = {shop, other}
  EnvironmentOf <- Places
  Distance <- Distances
  MaxDistance = 2
  RecallLimit = 2
  PageSize = 2
  MaxRuns = 3
  Scenarios <- AllScenarios
SPECIFICATION Spec
CHECK_DEADLOCK FALSE
INVARIANTS
  TokensServe
  MintsJustified
  OneCommit
  FailuresShow
  PrecedentsStand
