\* A directory with or without a store; commands at the same time or one after
\* the other, and a reader; three crashes or cut lines.
SPECIFICATION ReportSpec
CONSTANTS
  a1 = a1
  a2 = a2
  a3 = a3
  r1 = r1
  o1 = o1
  Nothing = Nothing
  Torn = Torn
  Initializers = {}
  Appenders = {a1, a2, a3}
  Readers = {r1}
  Objects = {o1}
  Content <- MCContent
  RemoteDenied = {0}
  MaxFaults = 3
SYMMETRY AddSymmetry
INVARIANTS
  TypeOK
  GenerationInv
  GenerationExplained
  IdIsPosition
  AcknowledgedIsFound
  ManifestReadable
  GenerationLag
  HealthyReportIsComplete
  DeletionsAreSeen
  LossIsVisible
PROPERTIES
  JournalIsAppendOnly
CHECK_DEADLOCK FALSE
