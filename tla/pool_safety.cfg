SPECIFICATION Spec
CONSTANTS
  w1 = w1
  w2 = w2
  c1 = c1
  c2 = c2
  t1 = t1
  t2 = t2
  t3 = t3
  Nobody = Nobody
  Workers = {w1, w2}
  Clients = {c1, c2}
  Stoppers = {c1}
  Tasks = {t1, t2, t3}
  SharedWait = FALSE
SYMMETRY PoolSymmetry
INVARIANTS
  TypeOK
  NoLostWakeup
  StopWakesAll
  NoForgottenWaiter
  OnePlace
  SuccessIsEarned
  AbortIsDue
PROPERTY IsTaskPool
CHECK_DEADLOCK FALSE
