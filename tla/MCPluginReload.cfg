CONSTANTS
  Cap = 2
  Texts = {x1, x2, x3, x4}
  NULL = NULL
  Main = main
  Callers = {main}
  UseSpeechd = TRUE
  UsePulse = FALSE
  Bases = {1, 2}
  Unloads = TRUE
SPECIFICATION Spec
INVARIANTS
  CallsSurviveReload
CHECK_DEADLOCK FALSE
