SPECIFICATION Spec
CONSTANTS
  Targets = {"t1"}
  PolicyOf <- AskExit
  Sessions = {"a", "b"}
  Kinds = {"unreadable", "exited"}
  Readings = {}
  Stamps = {}
  Outcomes = {"unknown"}
  MaxAttempts = 1
  MaxTime = 4
  MaxEvents = 4
  MaxFaults = 0
INVARIANT ExitResolvesOverdue
CHECK_DEADLOCK FALSE
