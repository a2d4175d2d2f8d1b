SPECIFICATION Spec
CONSTANTS
  Process = {p1, p2}
  Topic = {t1}
  Run = {r1}
  Message = {m1, m2, m3}
  MaxIterations = 3
  Overlap = TRUE
  ConfigReadable = FALSE
  None = None
SYMMETRY Symmetry
INVARIANTS
  InjectedInOrder
  SavedRunHeardAll
PROPERTIES
  ImplementsMailbox
CHECK_DEADLOCK FALSE
