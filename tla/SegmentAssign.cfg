SPECIFICATION Spec
CONSTANTS
  Inserts = {i1, i2}
  InTxn = {i2}
  MaxSegments = 1
  Capacity = 1
  Nil = Nil
  MustSeals = TRUE
  Closes = TRUE
  MaxFaults = 1
INVARIANT WaitCounterExact
PROPERTIES FlushLast FlushReturns SealedFlushed
CHECK_DEADLOCK FALSE
