CONSTANTS
  Deliveries = {1, 2}
  Events = {v1}
  Endpoints = {e1}
  EndpointOf <- AllToOne
  Workers = {w1, w2}
  BatchSize = 2
  MaxAttempts = 2
  FailingAfter = 1
  Nothing = Nothing
  MaxMishaps = 2
SPECIFICATION FairSpec
CHECK_DEADLOCK FALSE
INVARIANTS DeadLetterIsEarned AttemptsBounded
PROPERTIES SettledStays EveryDeliverySettles
