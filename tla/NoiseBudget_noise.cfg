\* Three keys, one of them exempt, and up to eight events in a window.
SPECIFICATION Spec
CONSTANTS
  Keys = {"k1", "k2", "x"}
  Critical = {"x"}
  MaxDuplicates = 2
  MaxReceived = 8
INVARIANTS
  BudgetKept
  ReportAccounts
