\* A host without nixos-rebuild.
SPECIFICATION Spec
CONSTANTS
  v1 = v1
  v2 = v2
  d1 = d1
  o1 = o1
  Versions <- MCVersions
  NoVersion = NoVersion
  Mixed = Mixed
  Daemons = {d1}
  Operators = {}
  Configurations <- UngatedOnly
  Releases <- MCVersions
  Attestations = {}
  Tools <- AnyPath
  MinBackoff = 1
  MaxBackoff = 1
  MaxFaults = 0
INVARIANTS
  RecordedWasApplied
CHECK_DEADLOCK FALSE
