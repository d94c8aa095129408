SPECIFICATION Spec
CHECK_DEADLOCK FALSE
CONSTANTS
  None = None
  N = 2
  Kinds = {"best_effort"}
  Backlog = {1, 2}
  DrainKeys = {"whatsapp"}
  MaxRetries = 2
  MayDefer = TRUE
  MaxFaults = 1
INVARIANT RemovedAfterSuccess
