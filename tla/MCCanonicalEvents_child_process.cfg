\* A shell and a process it launches, and a `write` of each launch.
SPECIFICATION PipelineSpec
CONSTANTS
  w1 = w1
  w2 = w2
  e1 = e1
  e2 = e2
  NoFile = NoFile
  TornFile = TornFile
  NoDocument = NoDocument
  Documents <- ValidMC
  Valid <- ValidMC
  Large <- LargeMC
  Paths <- PathsMC
  Commands = {w1, w2, e1, e2}
  Emitters = {e1, e2}
  EmittedBy <- EmittedMC
  Rejecting = {w1, w2}
  MaxFaults = 0
  Codes = {"FIXED", "FLEXIBLE", "UNKNOWN"}
  Operations = {"read", "write"}
  TargetClasses = {"file"}
  ObservationIds = {"seen", "evt_seen"}
  EventIds = {"evt_seen"}
  EventIdOf <- EventIdsMC
  Processes = {"shell", "child"}
  ProcessEventIds = {"evt_shell", "evt_shell_exit", "evt_shell_exit_exit"}
  ExitIdOf <- ExitIdsMC
  Normalizers = {}
  Collectors = {"k1", "k2"}
  Registries <- RegistriesMC
  Observations <- ObservationsMC
  Tuples <- Chain
  HandWritten <- FilesMC
INVARIANT LaunchIsRecorded
CHECK_DEADLOCK FALSE
