CONSTANTS
  Items = {i1}
  Workers = {w1}
  Schedulers = {s1}
  Cancels = {k1}
  Concurrency = 1
  MaxAttempts = 1
  Nobody = Nobody
  Nothing = Nothing
  MaxMishaps = 0
SPECIFICATION RewritingSpec
CHECK_DEADLOCK FALSE
PROPERTY EndIsFinal
