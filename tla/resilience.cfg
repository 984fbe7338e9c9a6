CONSTANTS
  Requests = {r1}
  Candidates = 3
  MaxAttempts = 4
  MaxSameRouteRetries = 1
  MaxFallbackRoutes = 2
  AllowCrossProviderFallback = TRUE
SPECIFICATION FairSpec
CHECK_DEADLOCK FALSE
INVARIANTS CallsBounded EndsEmptyHanded CancelCostsOneCall
PROPERTIES TimeoutIsLast EveryRequestEnds
