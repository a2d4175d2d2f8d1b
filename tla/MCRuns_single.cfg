SPECIFICATION Spec
CONSTANTS
  Process = {p1, p2}
  Topic = {t1}
  Run = {r1, r2}
  Message = {m1, m2}
  MaxIterations = 2
  Overlap = FALSE
  ConfigReadable = TRUE
  None = None
SYMMETRY Symmetry
INVARIANTS
  TypeOK
  OneActiveRun
  CancelledNeverSaved
  CancelledWhenStopped
PROPERTIES
  TerminalIsFinal
  NoCallAfterCancel
CHECK_DEADLOCK FALSE
