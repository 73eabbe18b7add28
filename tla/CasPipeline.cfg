CONSTANTS
  Sources <- SmallSources
  Nar <- SmallNar
  Locks <- SmallLocks
  Versions <- SmallVersions
  Spoiled <- SmallSpoiled
  FileHash <- SmallFileHash
  Compression <- SmallCompression
  Garbage = garbage
  NoBlob = noBlob
  NoDigest = noDigest
  Processes = {p1, p2}
  MaxFaults = 1
  MaxRuns = 2
SPECIFICATION FairSpec
INVARIANTS IInv UnverifiedStaysOut
PROPERTIES SuccessMeansExtracted FailureHasACause Termination
CHECK_DEADLOCK FALSE
