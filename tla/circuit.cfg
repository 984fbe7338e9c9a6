CONSTANTS
  Attempts = {a1, a2}
  FailureThreshold = 2
  MinimumSamples = 3
  FailurePercent = 50
  TimeoutPercent = 30
  OpenDuration = 1
  MaxOpenDuration = 3
  HalfOpenConcurrent = 1
  RequiredSuccesses = 2
  PermitTtl = 1
  AttemptTimeout = 2
  WindowTicks = 2
  OverrideLives <- Lives
  MaxSamples = 3
  MaxOperatorCalls = 1
SPECIFICATION FairSpec
INVARIANTS BackoffFollowsReopens HalfOpenConcurrency
PROPERTIES LeavesOpenToProbe Recovers OpensWhenDown
