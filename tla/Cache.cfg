SPECIFICATION Spec
CONSTANTS
  Threads = {t1, t2}
  Keys = {k1, k2, k3}
  Values = {v1, v2}
  TTL = 1
  MaxEntries = 2
  MaxTime = 1
  MaxGeneration = 1
  MaxUses = 3
  None = None
SYMMETRY CacheSymmetry
INVARIANTS
  TypeOK
  BoundedAndOrdered
  OrderIsRecency
PROPERTIES
  KeepsPromise
  HitsAreYoung
CHECK_DEADLOCK FALSE
