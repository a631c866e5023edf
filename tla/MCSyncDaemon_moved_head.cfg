\* The flake reference moves between promotion and switch.
SPECIFICATION Spec
CONSTANTS
  v1 = v1
  v2 = v2
  d1 = d1
  o1 = o1
  Versions <- MCVersions
  NoVersion = NoVersion
  Mixed = Mixed
  Daemons = {d1}
  Operators = {}
  Configurations <- GatedOnly
  Releases <- MCVersions
  Attestations <- ValidForOne
  Tools <- FullPath
  MinBackoff = 1
  MaxBackoff = 1
  MaxFaults = 0
INVARIANTS
  RecordedIsRunning
CHECK_DEADLOCK FALSE
