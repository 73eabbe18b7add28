CONSTANTS
  Workloads = {"redis", "api"}
  Names <- SmallNames
  Packages <- BothNeedCurl
  Bytes <- SmallBytes
  Eol = eol
  Code <- SmallCode
  NameAt = 0
  Stems <- SmallStems
  Endings <- Info
  Keywords <- Tests
  Published <- AllPublished
  RevLength <- GrowingHashes
  Hole = hole
  NoFile = noFile
  Torn = torn
  MaxFaults = 1
  MaxRuns = 2
SPECIFICATION FairSpec
INVARIANTS IInv NeverOlderThanClaimed ConclusionsFromOneList FailureKeepsManifest
PROPERTY Termination
CHECK_DEADLOCK FALSE
