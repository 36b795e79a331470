SPECIFICATION Spec
CONSTANTS
  Calls = {c1, c2}
  Traffic = TRUE
  MaxFaults = 2
INVARIANTS NoneForgotten AckedPersisted
PROPERTIES  CloseReturns
CHECK_DEADLOCK FALSE
