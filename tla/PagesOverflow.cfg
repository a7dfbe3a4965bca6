SPECIFICATION Spec
CONSTANTS
  Callers = {c1}
  MaxRetries = 2
  BackoffBase = 1
  MaxDelay = 2
  RespectRetryAfter = TRUE
  RetryOnStatus <- DefaultStatuses
  MaxExponent = 0
  Timeout = 1
  None = None
  LastPage = 1
  Headers <- SomeHeaders
  MaxFaults = 2
INVARIANTS
  ErrorsAreTyped
