SPECIFICATION FairSpec
CHECK_DEADLOCK FALSE
CONSTANTS
  None = None
  Task = {1, 2, 3, 4, 5, 6}
  Requested <- Lanes
  Nested <- Awaits
  HasTimeout = {3, 4}
  Hangs = {3, 4}
  CronSizes = {1, 2}
  MainSizes = {1}
  MaxResets = 1
INVARIANT TypeOK
INVARIANT NoIdleSlot
PROPERTY FirstComeFirstServed
INVARIANT DrainedMeansSettled
PROPERTY StartsWithinLimit
PROPERTY EveryCommandSettles
