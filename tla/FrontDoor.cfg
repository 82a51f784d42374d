\* Up to five calls; each scenario bounds what else happens.
SPECIFICATION Spec
CONSTANTS
  t1 = t1
  t2 = t2
  t3 = t3
  t4 = t4
  ann = ann
  bob = bob
  cy = cy
  gateway = gateway
  None = None
  Tabs = {t1, t2, t3, t4}
  Emails = {ann, bob, cy}
  Addresses = {gateway}
  AddressOf <- SharedAddress
  Team <- AnnsTeam
  Home <- AtHome
  Window = 2
  CollectAfter = 1
  Lifetime = 2
  MaxCalls = 5
  MaxTime = 5
  Scenarios <- AllScenarios
INVARIANTS LimiterIsFair AccountsAreEarned ShownIsOwn OwnChangesShow LeftSessionsHaveCause
PROPERTY LogoutRevokes
\* Tabs stop calling.
CHECK_DEADLOCK FALSE
