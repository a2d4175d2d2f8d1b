SPECIFICATION Spec
CONSTANTS
  Process = {p1, p2}
  Topic = {t1}
  Run = {r1, r2}
  Message = {m1}
  MaxIterations = 2
  Overlap = TRUE
  ConfigReadable = TRUE
  None = None
INVARIANT
  OneActiveRun
CHECK_DEADLOCK FALSE
