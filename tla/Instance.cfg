SPECIFICATION Spec
CONSTANTS
  Daemons = {d1, d2, d3}
  None = None
INVARIANTS TypeOK OneOwner RunningIsReachable
PROPERTY StaleFilesDoNotRefuse
CHECK_DEADLOCK FALSE
