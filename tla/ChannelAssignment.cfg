SPECIFICATION FairSpec
CONSTANTS
  Nodes = {n1, n2, n3}
  NoNode = none
  Zombies = TRUE
  MaxFaults = 2
INVARIANTS OneKeeper TermOfOneNode AssignmentsTrue
PROPERTY EventuallyServed
CHECK_DEADLOCK FALSE
