SPECIFICATION Spec
CHECK_DEADLOCK FALSE
CONSTANTS
  Counts = {1}
  Sizes = {1}
  ProcessCounts = {1}
  Half = 8
  MaxMessages = 2
INVARIANTS
  CountKept
