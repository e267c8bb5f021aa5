SPECIFICATION Spec
CONSTANTS
  Targets = {"t1", "t2"}
  PolicyOf <- AskSilence
  Sessions = {"a"}
  Kinds = {"unseen", "readable"}
  Readings = {"idle"}
  Stamps = {1}
  Outcomes = {"unknown"}
  MaxAttempts = 1
  MaxTime = 4
  MaxEvents = 6
  MaxFaults = 1
INVARIANT IncidentsMatchLook
PROPERTIES SilenceWitnessed OverrideHonoured
CHECK_DEADLOCK FALSE
