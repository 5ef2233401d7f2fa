SPECIFICATION FairSpec
CONSTANTS
  TakeoffHeight = 110
  WaypointThreshold = 10
  WarmupTicks = 1
  Positions <- FewPositions
  Drift <- FewPositions
  TaskMsgs = {1}
  Pilot = FALSE
  QueueDepth = 2
  MaxCrashes = 1
PROPERTIES
  LaunchRevoked
  EmergencyLands
