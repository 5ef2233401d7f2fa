SPECIFICATION FairSpec
CONSTANTS
  LidarCount = 2
  QueueSize = 1
  IndexSpan = 2
  Packets = {frame}
  MaxBurst = 2
INVARIANT OneToken
PROPERTIES
  FramesPublished
  ExitCompletes
CHECK_DEADLOCK FALSE
