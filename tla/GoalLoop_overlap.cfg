SPECIFICATION FairSpec
CONSTANTS
  Pickup = {"p1", "p2"}
  Http = {"http"}
  MaxIterations = 2
  MaxCount = 1
  MaxEvents = 1
INVARIANT TypeOK
INVARIANT IdlePlansBounded
PROPERTY ArchivedUndoneInFlight
PROPERTY PlanningStops
PROPERTY IdleIsHandled
CHECK_DEADLOCK FALSE
