SPECIFICATION FairSpec
CONSTANTS
  Topic = {a, b, c}
  Old = {a}
  Turn = {x, y}
  Past = {p}
  Tokens = 1
  PageSize = 3
  MaxRequests = 1
  Switching = FALSE
  None = None
  Error = Error
INVARIANTS
  TypeOK
  ScreenIsCurrent
  NoGaps
  AnswerShown
PROPERTIES
  StreamEnds
CHECK_DEADLOCK FALSE
