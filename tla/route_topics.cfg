SPECIFICATION RouteSpec
CONSTANTS
  RouteHandles = {11, 12, 13}
  InFile = {11}
  Entries = 3
  MaxRing = 2
INVARIANT OwnTopic
CHECK_DEADLOCK FALSE
