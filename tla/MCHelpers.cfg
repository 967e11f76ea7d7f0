CONSTANTS
  Headers <- SomeHeaders
  MaxOpens = 3
  Lengths = {0, 1, 2, 3, 4, 7, 8, 9}
  Memory = 16
  MaxFd = 7
  Chunks <- SomeChunks
  MaxChunks = 3
  Bins <- SomeBins
  Models <- SomeModels
  ArgLists <- SomeArgLists
  Sinks <- SomeSinks
  Allocs <- SomeAllocs
  Archives <- SomeArchives
  Special = "C:"
  Plugin = "lin_x64/XLinSpeak.xpl"
  Readme = "README.md"
  X64 = "x86-64"
  Other = "other"
SPECIFICATION PartsSpec
INVARIANTS
  AcceptedAtAudio
  RefusedForCause
  PlayedAsHeader
  OneStream
  ChildrenWired
  ClosesItsOwn
  SizeIsRoom
  ArgvAsDocumented
  BlocksOwned
  ManifestIsTrue
CHECK_DEADLOCK FALSE
