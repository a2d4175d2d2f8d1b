SPECIFICATION Spec
CONSTANTS
  Process = {p1, p2}
  Event = {e1}
  Topic = {t1, t2}
  Run = {r1, r2}
  Limit = 2
  DayLength = 2
  MaxTime = 3
  MaxFailures = 0
  None = None
SYMMETRY Symmetry
INVARIANTS
  OnSchedule
CHECK_DEADLOCK FALSE
