CONSTANTS
  Sizes = {1,3,6}
  MinSplit = 2
  Excess = 4
  MaxTop = 5
  MaxBreak = 17
  PastLeak = FALSE
SPECIFICATION Spec
INVARIANTS
  TypeOK
  BoundaryTags
  FreeListExact
  Coalesced
  TopBounded
  Accounted
PROPERTIES
  GrowsOnlyIfNeeded
  ImplementsAllocService
