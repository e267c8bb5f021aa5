SPECIFICATION Spec
CONSTANTS
  Targets = {"t1"}
  PolicyOf <- AskExit
  Sessions = {"a", "b"}
  Kinds = {"unseen", "readable", "exited"}
  Readings = {"active"}
  Stamps = {}
  Outcomes = {"delivered", "failed", "unknown"}
  MaxAttempts = 2
  MaxTime = 4
  MaxEvents = 4
  MaxFaults = 1
INVARIANTS TypeOK IncidentsMatchLook AlertsBounded ExitRecordedOnce
PROPERTIES SettledAlertNotRepeated NoOverdueAfterExit
CHECK_DEADLOCK FALSE
