\* One fault: an execution leaves no audit event.
SPECIFICATION Spec
CONSTANTS
  a1 = a1
  a2 = a2
  r1 = r1
  m1 = m1
  nobody = nobody
  Rejections <- OneRejection
  ByOwners <- OwnersOnly
  Nobody = nobody
  Approvals <- TwoApprovals
  MaxFaults = 1
INVARIANTS
  ExecutionsAudited
CHECK_DEADLOCK FALSE
