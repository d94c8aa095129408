SPECIFICATION Spec
CHECK_DEADLOCK FALSE
CONSTANTS
  Absent = Absent
  Torn = Torn
  N = 4
  Deps <- Chain
  NoWorker = {}
  MayTear = FALSE
  MaxCrashes = 1
INVARIANT ReturnsWhenSettled
