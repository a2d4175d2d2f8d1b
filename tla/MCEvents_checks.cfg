SPECIFICATION Spec
CONSTANTS
  Process = {p1, p2}
  Event = {e1, e2}
  Topic = {t1}
  Run = {r1, r2}
  Limit = 2
  DayLength = 1
  MaxTime = 1
  MaxFailures = 1
  None = None
SYMMETRY Symmetry
INVARIANTS
  TypeOK
  OncePerOccurrence
  RowsAreWorkedOn
PROPERTIES
  NoStartAfterEnd
CHECK_DEADLOCK FALSE
