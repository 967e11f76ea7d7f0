CONSTANTS
  Parts = {"hook"}
  synth = synth
  speak = speak
  Funs = {synth}
  Found <- OneFunction
  Bodies <- RipBodies
  Addresses = {256}
  PageSize = 256
  Instructions <- SomeInstructions
  SomePrefixes = {65, 72, 102}
  MaxPrefixes = 2
  MaxText = 24
  ShortCap = 22
  Texts <- SomeTexts
  Room = 26
  MaxCalls = 2
  a = a
  b = b
  c = c
  NULL = NULL
  Names = {a, b, c}
  Ptrs <- SomePtrs
  Files <- SomeFiles
SPECIFICATION PartsSpec
INVARIANTS
  OperandsKept
CHECK_DEADLOCK FALSE
