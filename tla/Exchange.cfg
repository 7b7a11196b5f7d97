CONSTANTS
  Mantissa = 3
  Width = 6
  LongWidth = 14
  Limit = 7
  BufSize = 50
  MaxLines = 3
  Lines <- TypedLines
SPECIFICATION FairSpec
INVARIANTS
  TypeOK
  AnswersTheLine
  ResultsExact
PROPERTIES
  EveryLineShown
  NobodyLeftBehind
CHECK_DEADLOCK FALSE
