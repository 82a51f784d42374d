\* A second setup of one environment.
SPECIFICATION Spec
CONSTANTS
  e1 = e1
  e2 = e2
  g1 = g1
  g2 = g2
  s1 = s1
  s2 = s2
  s3 = s3
  d1 = d1
  d2 = d2
  c1 = c1
  c2 = c2
  c3 = c3
  Environments = {e1, e2}
  Repos = {g1, g2}
  Setups = {s1, s2}
  EnvOf <- TwoEnvironmentsOf
  RepoOf <- TwoReposOf
  Deliveries = {d1}
  Calls = {c1}
  DeliveryOf <- RepeatedDelivery
  None = None
  MaxFaults = 0
INVARIANTS SetupPathWorks
CHECK_DEADLOCK FALSE
