SPECIFICATION Spec
CONSTANTS
  t1 = t1
  k1 = k1
  k2 = k2
  c1 = c1
  c2 = c2
  NoKey = NoKey
  Broken = Broken
  FromFile = FromFile
  Keep = Keep
  None = None
  Targets = {t1}
  Callers = {c1, c2}
  Keys = {k1, k2}
  Contents <- AllContents
  Requests <- AllRequests
  MaxTime = 2
  MaxEdits = 1
  MaxAsks = 2
  MaxRestarts = 1
  MaxFaults = 1
INVARIANTS TypeOK AppliedOnce SyncIsIdempotent ChoiceInForce DeadlineCanAlert OverdueIsAskedOrTakenOn
PROPERTY FileFollowed
CHECK_DEADLOCK FALSE
