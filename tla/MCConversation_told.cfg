SPECIFICATION Spec
CONSTANTS
  Topic = {t1, t2}
  MaxRuns = 4
  MaxCalls = 2
  MaxInjections = 1
  MaxBatches = 1
  maxIterations = 2
  runWindowMin = 1
  runWindowMax = 2
  None = None
SYMMETRY Symmetry
CONSTRAINT OneKindInAll
INVARIANTS
  TypeOK
  WellFormedRequests
  TranscriptsAgree
PROPERTIES
  ConversationRemembered
CHECK_DEADLOCK FALSE
