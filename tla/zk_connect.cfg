SPECIFICATION FairSpec
CONSTANTS
  MaxHandles = 5
  UserTimeout = TRUE
  MaxTroubles = 2
INVARIANTS
  NoHandleLost
  ResumedWhenQuiet
PROPERTIES
  ExpiredIsReplaced
  ConnectEnds
CHECK_DEADLOCK FALSE
