\* Two environments, one with two processes; clocks off by a tick; one fault, fair.
SPECIFICATION FairSpec
CONSTANTS
  r1 = r1
  r2 = r2
  a1 = a1
  a2 = a2
  a3 = a3
  Tasks = {1, 2}
  Runners = {r1, r2}
  Agents = {a1, a2, a3}
  RunnerOf <- MixedRunnerOf
  IdentityOf <- MixedIdentity
  Lease = 2
  Skew = 1
  MaxAttempts = 2
  MaxFaults = 1
INVARIANTS LeaseExclusive
PROPERTIES EveryTaskSettles CallersAnswered
