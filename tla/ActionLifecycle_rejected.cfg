\* One approval races one rejection, no faults: the rejected action runs.
SPECIFICATION Spec
CONSTANTS
  a1 = a1
  a2 = a2
  r1 = r1
  m1 = m1
  nobody = nobody
  Rejections <- OneRejection
  ByOwners <- OwnersOnly
  Nobody = nobody
  Approvals <- TwoApprovals
  MaxFaults = 0
INVARIANTS
  RejectedNeverExecutes
CHECK_DEADLOCK FALSE
