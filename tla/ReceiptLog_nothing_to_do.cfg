\* A `sync apply` and a status run.
SPECIFICATION Spec
CONSTANTS
  DaemonCycles = {}
  ApplyCycles = {1}
  Checks = {"k1"}
  MaxSecond = 1
  MaxCrashes = 0
INVARIANT NothingToDoIsHealthy
CHECK_DEADLOCK FALSE
