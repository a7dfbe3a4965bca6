SPECIFICATION Spec
CONSTANTS
  Tasks = {t1, t2, t3}
  Requests <- SearchAndWrite
  CacheEnabled = TRUE
  MaxRetries = 1
  MaxCalls = 4
  MaxCancels = 1
  MaxExternal = 1
  None = None
  Pending = Pending
  Failed = Failed
  Cancelled = Cancelled
  Invalid = Invalid
SYMMETRY TaskSymmetry
INVARIANTS
  TypeOK
  ReadYourWrites
  CacheNotOlderThanAcked
  OneUpstreamPerKey
  FollowersAreServed
PROPERTIES
  CallsRunOut
  KeepsPromise
