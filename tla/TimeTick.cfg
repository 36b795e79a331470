SPECIFICATION Spec
CONSTANTS
  Appenders = {a1, a2}
  Sessions = {s1}
  NoSession = NoSession
  Barriers = {3}
  MaxTS = 4
  MaxFailures = 1
  MaxCrashes = 1
SYMMETRY Symmetry
INVARIANTS TimeTickPrinciple NotifierPrinciple LastConfirmedPrinciple DetailsSorted
PROPERTY ImplementsWatermarkLog
CHECK_DEADLOCK FALSE
