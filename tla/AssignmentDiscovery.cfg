SPECIFICATION Spec
CONSTANT MaxFaults = 3
INVARIANT OnlyBrokenMarked
PROPERTY EventuallyCreated
CHECK_DEADLOCK FALSE
