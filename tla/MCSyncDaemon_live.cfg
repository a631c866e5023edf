\* A daemon that requires attestations, an operator who does not.
SPECIFICATION FairSpec
CONSTANTS
  v1 = v1
  v2 = v2
  d1 = d1
  o1 = o1
  Versions <- MCVersions
  NoVersion = NoVersion
  Mixed = Mixed
  Daemons = {d1}
  Operators = {o1}
  Configurations <- GatedDaemon
  Releases <- OneRelease
  Attestations <- ValidForOne
  Tools <- FullPath
  MinBackoff = 1
  MaxBackoff = 1
  MaxFaults = 1
PROPERTIES
  Converges
  StopsWhenAsked
CHECK_DEADLOCK FALSE
