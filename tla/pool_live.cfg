SPECIFICATION FairSpec
CONSTANTS
  w1 = w1
  w2 = w2
  c1 = c1
  c2 = c2
  t1 = t1
  t2 = t2
  t3 = t3
  Nobody = Nobody
  Workers = {w1, w2}
  Clients = {c1, c2}
  Stoppers = {c1}
  Tasks = {t1, t2}
  SharedWait = FALSE
PROPERTIES
  EveryTaskEnds
  WaitReturns
  StopReturnsWhenEmpty
CHECK_DEADLOCK FALSE
