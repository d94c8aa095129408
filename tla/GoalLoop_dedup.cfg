SPECIFICATION Spec
CONSTANTS
  Pickup = {"p1", "p2"}
  Http = {}
  MaxIterations = 2
  MaxCount = 1
  MaxEvents = 0
PROPERTY PlannedWhenIdle
CHECK_DEADLOCK FALSE
