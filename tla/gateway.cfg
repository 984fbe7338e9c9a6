CONSTANTS
  Calls = {c1, c2}
  Ids = {i1, i2}
  Keys = {k1}
  NoKey = NoKey
  Nobody = Nobody
  OverlappingRetries = FALSE
SPECIFICATION FairSpec
CHECK_DEADLOCK FALSE
INVARIANTS ChargedIsAnswered EndsConsistent OneExecutionPerKey
PROPERTIES KeepsRequestContract EveryCallEnds
