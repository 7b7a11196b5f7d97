CONSTANTS
  Sizes = {1,3,6}
  MinSplit = 2
  Excess = 4
  MaxTop = 5
  MaxBreak = 17
  PastLeak = FALSE
  Word = 4096
SPECIFICATION SpecS
INVARIANTS
  StatisticsTrue
