SPECIFICATION Spec
CONSTANTS
  Topic = {a, b}
  Old = {a, b}
  Turn = {x}
  Past = {p}
  Tokens = 1
  PageSize = 3
  MaxRequests = 1
  Switching = TRUE
  None = None
  Error = Error
PROPERTIES
  StreamSurvivesSwitch
CHECK_DEADLOCK FALSE
