CONSTANTS
  Workloads = {"redis"}
  Names <- SmallNames
  Packages <- JustCurl
  Bytes <- SmallBytes
  Eol = eol
  Code <- SmallCode
  NameAt = 1
  Stems <- SmallStems
  Endings <- Info
  Keywords <- Tests
  Published <- ShortPublished
  RevLength <- FullHashes
  Hole = hole
  NoFile = noFile
  Torn = torn
  MaxFaults = 0
  MaxRuns = 1
SPECIFICATION Spec
INVARIANTS PinnedRevisionIsUsed
CHECK_DEADLOCK FALSE
