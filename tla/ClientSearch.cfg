SPECIFICATION Spec
CONSTANTS
  Threads = {t1, t2, t3}
  Requests <- SearchAndWrite
  CacheEnabled = TRUE
  MaxRetries = 0
  MaxCalls = 4
  MaxExternal = 1
  None = None
  Failed = Failed
SYMMETRY ThreadSymmetry
INVARIANTS
  CacheNotOlderThanAcked
  OneUpstreamPerKey
  LateJoinersAreServed
PROPERTIES
  KeepsPromise
