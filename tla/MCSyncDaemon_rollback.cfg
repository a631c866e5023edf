\* An operator follows the rollback procedure.
SPECIFICATION Spec
CONSTANTS
  v1 = v1
  v2 = v2
  d1 = d1
  o1 = o1
  Versions <- MCVersions
  NoVersion = NoVersion
  Mixed = Mixed
  Daemons = {d1}
  Operators = {o1}
  Configurations <- WithOrWithoutStore
  Releases <- MCVersions
  Attestations = {}
  Tools <- FullPath
  MinBackoff = 1
  MaxBackoff = 1
  MaxFaults = 0
INVARIANTS
  RollbackReappliesVersion
CHECK_DEADLOCK FALSE
