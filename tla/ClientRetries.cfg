SPECIFICATION FairSpec
CONSTANTS
  Threads = {t1, t2}
  Requests <- EveryKindOfRequest
  CacheEnabled = TRUE
  MaxRetries = 1
  MaxCalls = 3
  MaxExternal = 0
  None = None
  Failed = Failed
INVARIANTS
  TypeOK
  ReadYourWrites
  CacheNotOlderThanAcked
PROPERTIES
  CallsRunOut
  EveryCallReturns
