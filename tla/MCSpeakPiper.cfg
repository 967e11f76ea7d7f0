CONSTANTS
  Lines = 2
  Wav = 3
  InCap = 2
  OutCap = 2
  IgnoreSigpipe = TRUE
  UseSpeechd = TRUE
SPECIFICATION Spec
INVARIANTS
  TypeOK
  NothingLeaked
  SpokenOnce
  HeardInFull
PROPERTIES
  SpeakReturns
