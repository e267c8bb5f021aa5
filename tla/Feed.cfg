SPECIFICATION FairSpec
CONSTANTS
  Targets = {t1, t2}
  Readers = {r1}
  MaxAge = 1
  Hold = 2
  PageLimit = 1
  MaxEvents = 2
  MaxTime = 4
INVARIANTS
  TypeOK
  ContiguousHistory
  UncollectedExitKept
  StatusCoversCursor
PROPERTIES
  FollowerCatchesUp
  KeepsTheLog
