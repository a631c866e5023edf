\* Two records with one file name and one with its own; four puts, at the same
\* time or one after the other, and two gets; two callers die.
SPECIFICATION Spec
CONSTANTS
  k1 = k1
  k2 = k2
  k3 = k3
  s1 = s1
  s2 = s2
  p1 = p1
  p2 = p2
  p3 = p3
  p4 = p4
  g1 = g1
  g2 = g2
  Nothing = Nothing
  Torn = Torn
  RecordIds = {k1, k2, k3}
  SafeIds = {s1, s2}
  SafeId <- SafeIdOf
  Putters = {p1, p2, p3, p4}
  Getters = {g1, g2}
  RecordIdOf <- Calls
  MaxFaults = 2
INVARIANTS
  TypeOK
  GetsOwnRecord
PROPERTIES
  ImplementsAtomicRegistry
CHECK_DEADLOCK FALSE
