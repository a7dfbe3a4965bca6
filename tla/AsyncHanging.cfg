SPECIFICATION FairSpec
CONSTANTS
  Tasks = {t1, t2, t3}
  Keys = {k1, k2}
  Outcomes <- FourRuns
  Hanging = {k1}
  MaxCalls = 4
  MaxCancels = 0
  Nobody = Nobody
  Pending = Pending
  Cancelled = Cancelled
  Invalid = Invalid
PROPERTIES
  DistinctKeysIndependent
