CHECK_DEADLOCK FALSE
SPECIFICATION Spec
CONSTANTS
  gw = gw
  cli = cli
  k1 = k1
  k2 = k2
  k3 = k3
  t1 = t1
  t2 = t2
  t3 = t3
  None = None
  Proc <- TwoProcs
  HttpProc <- OneProc
  Tick <- ThreeTicks
  ProcOf <- ThreeTicksOf
  Task <- TwoTasks
  Plans <- TwoPlans
  NRoles = 1
  RoleOf <- TwoRoleOf
  DependsOn <- TwoDependsOn
  Priority <- TwoPriority
  NeedsApproval <- NeedT2
  MaxRetries = 1
  MaxBlocks = 0
  MaxStalls = 0
  MaxCrashes = 1
  MaxAuditFaults = 1
SYMMETRY TickSymmetry
INVARIANT ClaimNeedsOperator
INVARIANT MissingOutputWasDisturbed
PROPERTY ImplementsLifecycle
