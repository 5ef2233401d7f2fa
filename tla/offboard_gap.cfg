SPECIFICATION Spec
CONSTANTS
  TakeoffHeight = 110
  WaypointThreshold = 10
  WarmupTicks = 1
  Positions <- InRange
  Drift <- NoDrift
  TaskMsgs = {1}
  Pilot = FALSE
  QueueDepth = 2
  MaxCrashes = 0
INVARIANT EveryTickPublishes
