CONSTANTS
  c1 = c1
  c2 = c2
  Clients = {c1, c2}
  Nobody = Nobody
  Typed = {"call", "long", "quit", "exit+"}
  MaxCalls = 2
  Backlog = 2
  FdLimit = 2
  ForkMayFail = TRUE
  ClientsMayDie = TRUE
  InputMayEnd = TRUE
SPECIFICATION Spec
SYMMETRY ClientSymmetry
INVARIANTS
  TypeOK
  ChildrenCounted
  ParentExitsLast
  RepliesInTurn
  LeavesForCause
  RInv
