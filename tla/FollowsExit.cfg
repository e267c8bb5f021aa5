SPECIFICATION Spec
CONSTANTS
  Pids = {1, 2}
  Sids = {A, B, C}
  None = None
  MaxStarts = 2
  MaxWrites = 4
  MaxEdits = 0
  MaxFaults = 0
  MaxRestarts = 1
PROPERTY ExitIsOfHome
CHECK_DEADLOCK FALSE
