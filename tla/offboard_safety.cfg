SPECIFICATION Spec
CONSTANTS
  TakeoffHeight = 110
  WaypointThreshold = 10
  WarmupTicks = 1
  Positions <- MCPositions
  Drift <- MCPositions
  TaskMsgs = {1, 3}
  Pilot = TRUE
  QueueDepth = 2
  MaxCrashes = 1
INVARIANTS
  TypeOK
  SingleArmCall
  SingleOffboardCall
  DisarmOnlyInLand
  
  SetpointGaps
PROPERTY MissionSpec
