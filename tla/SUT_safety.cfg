CONSTANTS
  t1 = t1
  t2 = t2
  t3 = t3
  Tasks = {t1, t2, t3}
  NoTask = NoTask
  MaxOps = 2
  NetworkMayFail = TRUE
  LateCreate = TRUE
SPECIFICATION Spec
SYMMETRY TaskSymmetry
INVARIANTS
  TypeOK
  EachTaskInOnePlace
  NoSwitchToUnsaved
  NoNullDereference
  WakesTheRequester
  ConnectsToNoOlder
  ReadsOwnData
  NoTaskLeftBehind
  NobodyWaitsAtIExit
  IInv
