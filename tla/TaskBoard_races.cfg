CHECK_DEADLOCK FALSE
SPECIFICATION Spec
CONSTANTS
  gw = gw
  cli = cli
  k1 = k1
  k2 = k2
  k3 = k3
  t1 = t1
  t2 = t2
  t3 = t3
  None = None
  Proc <- TwoProcs
  HttpProc <- OneProc
  Tick <- ThreeTicks
  ProcOf <- ThreeTicksOf
  Task <- OneTask
  Plans <- OnePlan
  NRoles = 1
  RoleOf <- OneRoleOf
  DependsOn <- OneDependsOn
  Priority <- OnePriority
  NeedsApproval <- NoTasks
  MaxRetries = 1
  MaxBlocks = 1
  MaxStalls = 1
  MaxCrashes = 1
  MaxAuditFaults = 0
SYMMETRY TickSymmetry
INVARIANT TypeOK
INVARIANT NoDoubleClaim
INVARIANT QueuedIsUnclaimed
INVARIANT OrphanedOnlyByCrash
