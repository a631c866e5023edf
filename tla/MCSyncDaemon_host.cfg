\* One daemon with any settings on any host; attestations for the right and the wrong version.
SPECIFICATION Spec
CONSTANTS
  v1 = v1
  v2 = v2
  d1 = d1
  o1 = o1
  Versions <- MCVersions
  NoVersion = NoVersion
  Mixed = Mixed
  Daemons = {d1}
  Operators = {}
  Configurations <- AnySettings
  Releases <- MCVersions
  Attestations <- ForOneVersion
  Tools <- AnyPath
  MinBackoff = 1
  MaxBackoff = 3
  MaxFaults = 2
INVARIANTS
  TypeOK
  RecordedWasSwitched
  ProvedMeansAttested
  OnlyAttestedApplied
  FailsClosed
  BackoffSchedule
PROPERTIES
  NoSwitchAfterFailure
  RecordedIsNotRedone
CHECK_DEADLOCK FALSE
