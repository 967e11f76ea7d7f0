CONSTANTS
  Cap = 3
  Texts = {x1, x2, x3, x4, x5}
  NULL = NULL
  Main = main
  Callers = {main}
  UseSpeechd = TRUE
  UsePulse = TRUE
SPECIFICATION Spec
INVARIANTS
  TypeOK
  RingWellFormed
  WorkerExitsDrained
  NoLostWakeup
  TeardownAfterJoin
  OneOwner
  NoLeak
  NothingHeldWhenDown
PROPERTIES
  CloseReturns
  ImplementsFifo
