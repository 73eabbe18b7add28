CONSTANTS
  Names <- SmallNames
  NoShell = noShell
  NoId = noId
  Absent = absent
  Torn = torn
  Stores <- SmallStores
  Content <- SmallContent
  Executable = {"elf", "script"}
  Manifests <- SmallManifests
  Specs <- SmallSpecs
  Sources = {"elf"}
  MaxFaults = 1
  MaxRuns = 2
SPECIFICATION FairSpec
INVARIANTS IInv BuiltAsDeclared InvalidKeepsImage CleanBuildSucceeds
PROPERTY Termination
CHECK_DEADLOCK FALSE
