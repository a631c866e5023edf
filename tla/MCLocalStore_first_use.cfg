\* Two commands on a directory without a store.
SPECIFICATION Spec
CONSTANTS
  a1 = a1
  a2 = a2
  Nothing = Nothing
  Torn = Torn
  Initializers = {}
  Appenders = {a1, a2}
  Readers = {}
  MaxFaults = 0
PROPERTIES
  AppendOnly
CHECK_DEADLOCK FALSE
