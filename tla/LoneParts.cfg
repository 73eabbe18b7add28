CONSTANTS
  unpinned = unpinned
  Names <- SmallNames
  Out <- SmallOut
  Features <- SmallFeatures
  Aliases <- SmallAliases
  Args <- SmallArgs
  Revisions = {"24.11", "25.05"}
  Takes <- SmallTakes
  Parts = {"", "lib", "man", "dev"}
  Split = {"lib", "man", "dev"}
  PartsOf <- SmallPartsOf
  Flake <- SmallFlake
  Tomls <- SmallTomls
  Locks <- SmallLocks
  NoFile = noFile
  Torn = torn
  Unknown = unknown
  Unpinned = unpinned
  MaxFaults = 1
  MaxRuns = 2
  MaxUpdates = 1
  Chunks = {"a1", "a2", "b1", "b2", "b3"}
  Bodies <- TwoVersions
  Refusals = {"404", "500"}
  MaxAttempts = 3
  WorkloadNames = {"redis", "api"}
  Configs = {plain, nonRoot}
  Developers = {ann, bob}
  Mixed = mixed
  MaxBreaks = 1
  MaxCalls = 3
  Letters = {45, 97, 122, 255}
  MaxLetters = 4
  FirstDay = 8400
  LastDay = 48700
  ByteValues = {0, 1, 90, 255}
  MaxBytes = 6
  U32 = 300000
  U64 = 1200000000
  Contents <- SmallContents
  Bare = {0, 1, 2}
  MaxDirs = 4
SPECIFICATION PartsSpec
INVARIANTS TypeOK ProfileIsHonest HttpInv OnlyOutagesAreRetried FilesAreAsAsked SimilarNamesDiffer DateIsRight Base32IsRight Base64IsRight HeadroomHolds
PROPERTIES SuccessMeansBuilt WrongRevisionHasACause SuccessMeansPushed FailureKeepsManifest Termination ImplementsCall EveryCallReturns NeverShrinks
CHECK_DEADLOCK FALSE
