CONSTANTS
  Workloads = {"redis"}
  Names <- SmallNames
  Packages <- JustCurl
  Bytes <- SmallBytes
  Eol = eol
  Code <- SmallCode
  NameAt = 1
  Stems <- SmallStems
  Endings <- Info
  Keywords <- Tests
  Published <- SmallPublished
  RevLength <- FullHashes
  Hole = hole
  NoFile = noFile
  Torn = torn
  MaxFaults = 0
  MaxRuns = 2
SPECIFICATION Spec
INVARIANTS ListIsWhole
CHECK_DEADLOCK FALSE
