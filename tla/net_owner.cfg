SPECIFICATION Spec
CHECK_DEADLOCK FALSE
CONSTANTS
  None = None
  c1 = c1
  c2 = c2
  c3 = c3
  m1 = m1
  m2 = m2
  Conns = {c1, c2, c3}
  MultiConns = {c1, c2}
  Fds = {5, 6}
  Managers = {m1, m2}
  Workers <- TwoWorkers
PROPERTY
  MainOnlyAccepts
