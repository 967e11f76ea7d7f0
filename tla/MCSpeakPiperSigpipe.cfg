CONSTANTS
  Lines = 2
  Wav = 2
  InCap = 2
  OutCap = 1
  IgnoreSigpipe = FALSE
  UseSpeechd = TRUE
SPECIFICATION Spec
INVARIANTS
  HostSurvives
CHECK_DEADLOCK FALSE
