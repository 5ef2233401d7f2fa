SPECIFICATION DriverFairSpec
CONSTANTS
  LidarCount = 1
  QueueSize = 2
  IndexSpan = 8
  Packets = {even, odd}
  MaxBurst = 1
  Handles = {left, right}
  Configured = {left}
  Interval = 2
  MaxClock = 4
  MaxSent = 3
  MaxQueue = 1
  ImuCount = 2
  MaxImuQueue = 2
  SampleSpan = 3
  MaxImuBurst = 1
  RouteHandles = {11, 12, 13}
  InFile = {11, 12}
  Entries = 3
  MaxRing = 1
INVARIANTS
  NothingLost
  ConvertedAsConfigured
  Attributed
PROPERTIES
  ConveyorSpec
  FrameSpan
  QuitCompletes
  ImuPublished
CHECK_DEADLOCK FALSE
