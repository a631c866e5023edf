\* A daemon as `sync daemon` constructs it, and a producer that publishes attestations.
SPECIFICATION FairSpec
CONSTANTS
  v1 = v1
  v2 = v2
  d1 = d1
  o1 = o1
  Versions <- MCVersions
  NoVersion = NoVersion
  Mixed = Mixed
  Daemons = {d1}
  Operators = {}
  Configurations <- ShippedOnly
  Releases <- OneRelease
  Attestations <- ValidForOne
  Tools <- FullPath
  MinBackoff = 1
  MaxBackoff = 1
  MaxFaults = 0
PROPERTIES
  AttestedIsRecorded
CHECK_DEADLOCK FALSE
