CONSTANTS
  Parts = {"length"}
  synth = synth
  speak = speak
  Funs = {synth}
  Found <- OneFunction
  Bodies <- TwoBodies
  Addresses = {256}
  PageSize = 256
  Instructions <- SomeInstructions
  SomePrefixes = {72, 103}
  MaxPrefixes = 2
  MaxText = 24
  ShortCap = 22
  Texts <- SomeTexts
  Room = 26
  MaxCalls = 2
  a = a
  b = b
  c = c
  NULL = NULL
  Names = {a, b, c}
  Ptrs <- SomePtrs
  Files <- SomeFiles
SPECIFICATION PartsSpec
INVARIANTS
  LengthIsRight
CHECK_DEADLOCK FALSE
