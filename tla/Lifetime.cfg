SPECIFICATION FairSpec
CONSTANTS
  Requests = {r1, r2}
  MaxTerm = 3
  MayClose = TRUE
INVARIANTS RemoveReleases OpenHonest 
PROPERTIES ImplementsLease RequestsReturn CurrentCatchesUp
CHECK_DEADLOCK FALSE
