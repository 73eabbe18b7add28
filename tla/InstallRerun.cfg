CONSTANTS
  near = near
  far = far
  Malformed = malformed
  Garbage = garbage
  NoBlob = noBlob
  Paths <- SharedPaths
  References <- SharedReferences
  Nar <- SharedNar
  Names <- SharedNames
  Manifest <- SharedManifest
  Requests <- SharedRequests
  Caches = {near, far}
  Substituters <- TwoCaches
  DefaultCache = far
  Hosted <- SplitHosts
  MaxFaults = 1
  MaxRuns = 2
SPECIFICATION Spec
INVARIANTS ExtractionIsIdempotent
CHECK_DEADLOCK FALSE
