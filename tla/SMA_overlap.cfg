CONSTANTS
  Sizes = {1,3,6}
  MinSplit = 2
  Excess = 4
  MaxTop = 5
  MaxBreak = 17
  PastLeak = TRUE
SPECIFICATION Spec
INVARIANTS
  NoOverlap
