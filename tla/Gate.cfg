SPECIFICATION FairSpec
CONSTANTS
  Threads = {t1, t2, t3}
  Keys = {k1, k2}
  MaxRuns = 4
  Outcomes <- Runs
  Nobody = Nobody
INVARIANTS
  FreshAfterLeader
  RunsDoNotOverlap
PROPERTIES
  EveryCallerReturns
  KeepsPromise
CHECK_DEADLOCK FALSE
