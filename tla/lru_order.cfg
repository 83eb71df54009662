SPECIFICATION Spec
CHECK_DEADLOCK FALSE
CONSTANTS
  a = a
  b = b
  c = c
  d = d
  e = e
  Values = {a, b, c}
  mMaxCap = 2
  PopArgs = {}
  NullArg = NullArg
  MaxList = 4
INVARIANTS
  PushMakesNewest
