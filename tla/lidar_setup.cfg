SPECIFICATION FairSpec
CONSTANTS
  Handles = {front, spare}
  Options = {dataType, scanPattern}
  MaxSources = 1
  MaxAnnounced = 2
  WorkMode = workMode
  Extras = {imu}
INVARIANTS
  SamplingConfigured
  NoOptionForgotten
PROPERTIES
  SetupCompletes
CHECK_DEADLOCK FALSE
