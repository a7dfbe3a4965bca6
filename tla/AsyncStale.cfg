SPECIFICATION Spec
CONSTANTS
  Tasks = {t1, t2, t3}
  Keys = {k1, k2}
  Outcomes <- FourRuns
  Hanging = {}
  MaxCalls = 4
  MaxCancels = 1
  Nobody = Nobody
  Pending = Pending
  Cancelled = Cancelled
  Invalid = Invalid
SYMMETRY TaskSymmetry
INVARIANTS
  FreshAfterReturn
