CONSTANTS
  Streams = {s1}
  Candidates = 3
SPECIFICATION FairSpec
CHECK_DEADLOCK FALSE
INVARIANT EndsConsistent
PROPERTIES KeepsRequestContract NoFallbackAfterOutput FirstOutcomeWins ConnectedStreamsEnd
