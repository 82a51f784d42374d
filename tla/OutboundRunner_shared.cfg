\* Two processes share one runner identity; two tasks; up to two faults.
SPECIFICATION Spec
CONSTANTS
  r1 = r1
  r2 = r2
  a1 = a1
  a2 = a2
  a3 = a3
  Tasks = {1, 2}
  Runners = {r1}
  Agents = {a1, a2}
  RunnerOf <- SharedRunnerOf
  IdentityOf <- SharedIdentity
  Lease = 1
  Skew = 0
  MaxAttempts = 2
  MaxFaults = 2
SYMMETRY AgentSymmetry
INVARIANTS RepeatsNeedFaults
PROPERTIES ResultsNotForgotten ImplementsBoard
