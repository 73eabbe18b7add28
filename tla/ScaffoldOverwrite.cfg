CONSTANTS
  unpinned = unpinned
  Names <- SmallNames
  Out <- SmallOut
  Features <- SmallFeatures
  Aliases <- SmallAliases
  Args <- SmallArgs
  Revisions = {"24.11", "25.05"}
  Takes <- SmallTakes
  Parts = {"", "lib", "man", "dev"}
  Split = {"lib", "man", "dev"}
  PartsOf <- SmallPartsOf
  Flake <- SmallFlake
  Tomls <- SmallTomls
  Locks <- SmallLocks
  NoFile = noFile
  Torn = torn
  Unknown = unknown
  Unpinned = unpinned
  MaxFaults = 0
  MaxRuns = 0
  MaxUpdates = 0
  Chunks = {"a1", "a2", "b1", "b2", "b3"}
  Bodies <- TwoVersions
  Refusals = {"404", "500"}
  MaxAttempts = 3
  WorkloadNames = {"redis", "api"}
  Configs = {plain, nonRoot}
  Developers = {ann, bob}
  Mixed = mixed
  MaxBreaks = 0
  MaxCalls = 2
  Letters = {45, 97, 122, 255}
  MaxLetters = 1
  FirstDay = 8400
  LastDay = 8401
  ByteValues = {0, 1, 90, 255}
  MaxBytes = 1
  U32 = 300000
  U64 = 1200000000
  Contents <- SmallContents
  Bare = {0, 1, 2}
  MaxDirs = 1
SPECIFICATION PartsSpec
PROPERTY NeverOverwritten
CHECK_DEADLOCK FALSE
