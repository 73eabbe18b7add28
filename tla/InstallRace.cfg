CONSTANTS
  near = near
  far = far
  Malformed = malformed
  Garbage = garbage
  NoBlob = noBlob
  Paths <- SharedPaths
  References <- SharedReferences
  Nar <- SharedNar
  Names <- SharedNames
  Manifest <- SharedManifest
  Requests <- CurlAndGit
  Caches = {near, far}
  Substituters <- NoCaches
  DefaultCache = far
  Hosted <- AllHosts
  MaxFaults = 1
  MaxRuns = 1
SPECIFICATION Spec
INVARIANTS SharedDependenciesAreSafe
CHECK_DEADLOCK FALSE
