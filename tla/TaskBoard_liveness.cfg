CHECK_DEADLOCK FALSE
SPECIFICATION FairSpec
CONSTANTS
  gw = gw
  cli = cli
  k1 = k1
  k2 = k2
  k3 = k3
  t1 = t1
  t2 = t2
  t3 = t3
  None = None
  Proc <- OneProc
  HttpProc <- OneProc
  Tick <- TwoTicks
  ProcOf <- TwoTicksOf
  Task <- ThreeTasks
  Plans <- ThreePlans
  NRoles = 2
  RoleOf <- ThreeRoleOf
  DependsOn <- ThreeDependsOn
  Priority <- ThreePriority
  NeedsApproval <- NeedT2
  MaxRetries = 0
  MaxBlocks = 0
  MaxStalls = 0
  MaxCrashes = 1
  MaxAuditFaults = 1
PROPERTY EligibleIsClaimed
PROPERTY ClaimSettles
