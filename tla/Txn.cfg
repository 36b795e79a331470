SPECIFICATION TxnSpec
CONSTANTS
  Appenders = {a1, a2}
  Sessions = {s1}
  NoSession = NoSession
  Barriers = {}
  MaxTS = 4
  MaxFailures = 1
  MaxCrashes = 1
  Keepalive = 3
SYMMETRY Symmetry
INVARIANTS EndsOnce CommitWaits
PROPERTY ImplementsTimeTick
CHECK_DEADLOCK FALSE
