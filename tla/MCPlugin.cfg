CONSTANTS
  Cap = 2
  Texts = {x1, x2, x3, x4, x5}
  NULL = NULL
  Main = main
  Callers = {main, t}
  UseSpeechd = TRUE
  UsePulse = FALSE
  Bases = {1, 2}
  Unloads = TRUE
SPECIFICATION Spec
INVARIANTS
  CallsSurvive
  NothingRunsWhenStopped
  CopiesOwned
PROPERTIES
  CallsReturn
  FifoKept
CHECK_DEADLOCK FALSE
