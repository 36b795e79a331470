SPECIFICATION Spec
CONSTANTS
  Channels = {c1, c2, c3, c4}
  Nodes = {n1, n2, n3}
  Nowhere = nowhere
  MaxChanges = 5
INVARIANT FairLayout
PROPERTY EventuallySettled
CHECK_DEADLOCK FALSE
