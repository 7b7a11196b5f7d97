CONSTANTS
  t1 = t1
  t2 = t2
  Tasks = {t1, t2}
  NoTask = NoTask
  MaxOps = 3
  NetworkMayFail = TRUE
  LateCreate = TRUE
SPECIFICATION SpecM
SYMMETRY TaskSymmetry
INVARIANTS
  NoMisuse
  NothingForgotten
  ResultKept
  ContextKept
