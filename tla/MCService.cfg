CONSTANTS
  Cap = 1
  Texts = {x1, x2, x3}
  NULL = NULL
  Main = main
  Callers = {main}
  UseSpeechd = TRUE
  UsePulse = TRUE
  Lines = 1
  Wav = 1
  InCap = 1
  OutCap = 1
  IgnoreSigpipe = TRUE
SPECIFICATION Spec
INVARIANTS
  SpeaksAlive
PROPERTIES
  ImplementsSpeech
