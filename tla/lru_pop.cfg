SPECIFICATION Spec
CONSTANTS
  a = a
  b = b
  c = c
  d = d
  e = e
  Values = {a, b, c, d}
  mMaxCap = 2
  PopArgs = {a, b, c, d}
  NullArg = NullArg
  MaxList = 4
PROPERTIES
  PopTakesOut
