SPECIFICATION Spec
CONSTANTS
  Keepalive = 2
  Kinds = {"auto", "other"}
  Txns = {t1}
  QueueLimit = 0
  MaxTT = 3
  MaxLen = 4
  MaxResumes = 1
INVARIANTS InOrderUnlessResumed NothingSkipped
CHECK_DEADLOCK FALSE
