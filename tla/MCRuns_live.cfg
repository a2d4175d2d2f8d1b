SPECIFICATION FairSpec
CONSTANTS
  Process = {p1}
  Topic = {t1}
  Run = {r1, r2}
  Message = {m1}
  MaxIterations = 2
  Overlap = FALSE
  ConfigReadable = TRUE
  None = None
PROPERTIES
  EveryRunEnds
CHECK_DEADLOCK FALSE
