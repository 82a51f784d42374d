\* Two owners' approvals, a rejection and a member's approval, one fault.
SPECIFICATION FairSpec
CONSTANTS
  a1 = a1
  a2 = a2
  r1 = r1
  m1 = m1
  nobody = nobody
  Approvals <- WithMember
  Rejections <- OneRejection
  ByOwners <- OwnersOnly
  Nobody = nobody
  MaxFaults = 1
INVARIANTS
  MutationNeedsApproval
  DecidedOnce
  RecordsTellOutcome
  AuditTrail
CHECK_DEADLOCK FALSE
PROPERTIES
  StagesAdvance
  ImplementsRemediation
  ApprovedFinishes
