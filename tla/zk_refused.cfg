SPECIFICATION FairSpec
CONSTANTS
  MaxHandles = 1
  UserTimeout = TRUE
  MaxTroubles = 0
INVARIANT
  AlwaysResumed
CHECK_DEADLOCK FALSE
