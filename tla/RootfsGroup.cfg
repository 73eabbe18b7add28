CONSTANTS
  Names <- SmallNames
  NoShell = noShell
  NoId = noId
  Absent = absent
  Torn = torn
  Stores <- SmallStores
  Content <- SmallContent
  Executable = {"elf", "script"}
  Manifests <- SmallManifests
  Specs <- SmallSpecs
  Sources = {"elf"}
  MaxFaults = 0
  MaxRuns = 1
SPECIFICATION Spec
INVARIANT UndeclaredGroupIsRoot
CHECK_DEADLOCK FALSE
