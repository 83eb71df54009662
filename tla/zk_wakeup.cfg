SPECIFICATION FairSpec
CONSTANTS
  MaxHandles = 2
  UserTimeout = FALSE
  MaxTroubles = 0
PROPERTY
  ConnectWakes
CHECK_DEADLOCK FALSE
