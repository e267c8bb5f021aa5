SPECIFICATION Spec
CONSTANTS
  Daemons = {d1, d2, d3}
  None = None
INVARIANT ExclusiveOwner
CHECK_DEADLOCK FALSE
