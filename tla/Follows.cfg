SPECIFICATION OneIdSpec
CONSTANTS
  Pids = {1, 2}
  Sids = {A, B}
  None = None
  MaxStarts = 2
  MaxWrites = 3
  MaxEdits = 1
  MaxFaults = 1
  MaxRestarts = 1
INVARIANTS FollowsStayInOneProcess FollowsInv
PROPERTIES ExitVerified ResumedIsWatchedUnlessShadowed FollowedInTheEnd
CHECK_DEADLOCK FALSE
