CONSTANTS
  Nodes = {n1, n2}
  Clock <- Readings
  SaveInterval = 3
  MaxLogical = 5
  BatchSize = 2
  LimitMaxLogic = TRUE
  UpdateLoop = TRUE
  LoadFails = FALSE
  MaxGrants = 3
  MaxTime = 10
  MaxObjects = 2
  MaxClock = 6
SPECIFICATION Spec
CONSTRAINT Bounded
SYMMETRY NodeSymmetry
INVARIANT BatchesDisjoint
PROPERTY TimeTicksRise
