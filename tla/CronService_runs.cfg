SPECIFICATION FairSpec
CONSTANTS
  Job = {"once", "daily"}
  At = {"once"}
  Cron = {"daily"}
  AgentTurn = {}
  DeleteAfterRun = {"once"}
  Stored = {"daily"}
  Manual = {"m1"}
  MaxConcurrent = 1
  MaxImmediate = 1
  MaxAttempts = 1
  MaxEvents = 1
  None = None
INVARIANT TypeOK
INVARIANT OneRunAtATime
INVARIANT NoLeakedMarker
PROPERTY OneShotOnce
PROPERTY DueSlotKept
PROPERTY EnabledJobsRun
CHECK_DEADLOCK FALSE
