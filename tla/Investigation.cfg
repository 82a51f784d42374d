\* Up to three steps of up to two requests each, a budget for three of them.
SPECIFICATION FairSpec
CONSTANTS
  t1 = t1
  t2 = t2
  t3 = t3
  t4 = t4
  bad = bad
  Requests = {t1, t2, t3, t4, bad}
  ReadTools = {t1, t2, t3, t4}
  Baseline = 2
  MaxSteps = 3
  MaxPerStep = 2
  MaxToolCalls = 5
  MaxItems = 3
  MaxBytes = 9
  PerItem = 2
  Suffix = 1
  Source <- ShortAndLongSources
  Sizes = {1, 6}
  MaxCollected = 2
  MaxAsked = 3
INVARIANTS WithinBudget StepsAreSeparate NobodyBlocked EvidenceIsKept
PROPERTIES Returns
\* An investigation ends, or its collection hangs.
CHECK_DEADLOCK FALSE
