CONSTANTS
  unpinned = unpinned
  Names <- SmallNames
  Out <- SmallOut
  Features <- SmallFeatures
  Aliases <- SmallAliases
  Args <- SmallArgs
  Revisions = {"24.11", "25.05"}
  Takes <- SmallTakes
  Parts = {"", "lib", "man", "dev"}
  Split = {"lib", "man", "dev"}
  PartsOf <- SmallPartsOf
  Flake <- SmallFlake
  Tomls <- SmallTomls
  Locks <- SmallLocks
  NoFile = noFile
  Torn = torn
  Unknown = unknown
  Unpinned = unpinned
  MaxFaults = 0
  MaxRuns = 1
  MaxUpdates = 0
SPECIFICATION FairSpec
PROPERTY RevisionIsActual
CHECK_DEADLOCK FALSE
