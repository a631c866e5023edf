\* Two enqueuers with two records each and a replayer, at the same time or one
\* after the other, two of which may die.
SPECIFICATION Spec
CONSTANTS
  k1 = k1
  k2 = k2
  k3 = k3
  n1 = n1
  n2 = n2
  x1 = x1
  x2 = x2
  e1 = e1
  e2 = e2
  r1 = r1
  Nothing = Nothing
  Torn = Torn
  NoName = NoName
  Keys = {k1, k2, k3}
  Names = {n1, n2}
  SafeId <- SafeIdOf
  Payloads = {x1, x2}
  Enqueuers = {e1, e2}
  Replayers = {r1}
  Workloads <- AnyBatches
  ReplayState = "pending"
  MaxFaults = 2
SYMMETRY EnqueuerSymmetry
INVARIANTS
  TypeOK
  OnlyAdmitted
  AuditedIsPresent
  AuditAccounts
  ReplayCovers
PROPERTIES
  ImplementsIdempotentQueue
CHECK_DEADLOCK FALSE
