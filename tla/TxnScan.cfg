SPECIFICATION TxnOnlySpec
CONSTANTS
  Appenders = {a1, a2}
  Sessions = {s1}
  NoSession = NoSession
  Barriers = {}
  MaxTS = 5
  MaxFailures = 0
  MaxCrashes = 0
  Keepalive = 3
INVARIANTS  CleanupRegistrable
PROPERTIES OverForGood CommitReturns
CHECK_DEADLOCK FALSE
