CONSTANTS
  Calls = {c1, c2}
  Ids = {i1}
  Keys = {k1}
  NoKey = NoKey
  Nobody = Nobody
  OverlappingRetries = TRUE
SPECIFICATION Spec
CHECK_DEADLOCK FALSE
PROPERTY ImplementsContract
