CONSTANTS
  Items = {i1}
  Workers = {w1, w2}
  Schedulers = {s1}
  Cancels = {k1}
  Concurrency = 1
  MaxAttempts = 2
  Nobody = Nobody
  Nothing = Nothing
  MaxMishaps = 2
SPECIFICATION FairSpec
CHECK_DEADLOCK FALSE
INVARIANTS PaidIsKept ExecutionsBounded EndedIsWhole
PROPERTIES EveryJobEnds
