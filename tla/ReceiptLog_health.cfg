\* Two cycles of the daemon and one `sync apply` in three seconds, one of which
\* may die, and a check.
SPECIFICATION Spec
CONSTANTS
  DaemonCycles = {1, 3}
  ApplyCycles = {2}
  Checks = {"k1"}
  MaxSecond = 3
  MaxCrashes = 1
INVARIANTS LogInv FailureShows
PROPERTY ReceiptsAreKept
CHECK_DEADLOCK FALSE
