\* A daemon and an operator record versions of different lengths at the same time.
SPECIFICATION Spec
CONSTANTS
  v1 = v1
  v2 = v2
  d1 = d1
  o1 = o1
  Versions <- MCVersions
  NoVersion = NoVersion
  Mixed = Mixed
  Daemons = {d1}
  Operators = {o1}
  Configurations <- WithOrWithoutStore
  Releases <- MCVersions
  Attestations = {}
  Tools <- FullPath
  MinBackoff = 1
  MaxBackoff = 1
  MaxFaults = 0
SYMMETRY VersionSymmetry
INVARIANTS
  RecordIsOneVersion
CHECK_DEADLOCK FALSE
