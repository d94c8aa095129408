SPECIFICATION Spec
CONSTANTS
  Job = {"once", "daily"}
  At = {"once"}
  Cron = {"daily"}
  AgentTurn = {}
  DeleteAfterRun = {"once"}
  Stored = {"daily"}
  Manual = {"m1"}
  MaxConcurrent = 1
  MaxImmediate = 1
  MaxAttempts = 1
  MaxEvents = 1
  None = None
PROPERTY SucceededStaysDone
CHECK_DEADLOCK FALSE
