\* Two appends at the same time.
SPECIFICATION Spec
CONSTANTS
  a1 = a1
  a2 = a2
  Nothing = Nothing
  Torn = Torn
  Initializers = {}
  Appenders = {a1, a2}
  Readers = {}
  MaxFaults = 0
INVARIANTS
  EventFoundById
CHECK_DEADLOCK FALSE
