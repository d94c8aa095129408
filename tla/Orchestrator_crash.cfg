SPECIFICATION FairSpec
CHECK_DEADLOCK FALSE
CONSTANTS
  Absent = Absent
  Torn = Torn
  N = 4
  Deps <- Chain
  NoWorker = {2}
  MayTear = TRUE
  MaxCrashes = 2
INVARIANT TypeOK
INVARIANT NoWorkRepeated
INVARIANT OutputsPersisted
INVARIANT VerdictIsEarned
INVARIANT UninterruptedSettles
PROPERTY RunEnds
