CONSTANTS
  t1 = t1
  t2 = t2
  Tasks = {t1, t2}
  NoTask = NoTask
  MaxOps = 2
  NetworkMayFail = TRUE
  LateCreate = TRUE
SPECIFICATION Spec
INVARIANT
  NoRequestDropped
