SPECIFICATION Spec
CONSTANTS
  Threads = {t1, t2, t3}
  Requests <- SearchAndWrite
  CacheEnabled = FALSE
  MaxRetries = 0
  MaxCalls = 4
  MaxExternal = 0
  None = None
  Failed = Failed
SYMMETRY ThreadSymmetry
INVARIANTS
  ReadYourWrites
