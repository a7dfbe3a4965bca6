SPECIFICATION FairSpec
CONSTANTS
  Callers = {c1, c2}
  MaxRetries = 2
  BackoffBase = 1
  MaxDelay = 2
  RespectRetryAfter = TRUE
  RetryOnStatus <- DefaultStatuses
  MaxExponent = 1
  Timeout = 1
  None = None
  LastPage = 3
  Headers <- SomeHeaders
  MaxFaults = 3
INVARIANTS
  TypeOK
  NoPageSkipped
  OnceInOrderAlone
  TransientOnlyAtLast
  OnlyTransientIsRepeated
  WaitsAsAsked
  TimeIsBounded
PROPERTIES
  IterationEnds
