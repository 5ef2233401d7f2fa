SPECIFICATION FairSpec
CONSTANTS
  TakeoffHeight = 110
  WaypointThreshold = 10
  WarmupTicks = 1
  Positions <- InRange
  Drift <- NoDrift
  TaskMsgs = {0, 1, 2}
  Pilot = FALSE
  QueueDepth = 2
  MaxCrashes = 0
INVARIANTS
  SingleDisarmCall
PROPERTIES
  MissionCompletes
  ArmingRetried
