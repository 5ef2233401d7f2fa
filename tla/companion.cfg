SPECIFICATION CompanionSpec
CONSTANTS
  Clouds <- MCClouds
  Association = 5
  MaxIds = 4
  Samples = 3
  Heights = {0, 2, 3}
  MaxOdom = 6
  Places = {4, 5, 6, 8}
  MoveThreshold = 1
  StuckAfter = 3
  IgnoreFor = 1
  MaxTicks = 7
  Routes <- MCRoutes
  Axes = {1, 2}
  HalfRange = 2
  Slack = 1
  Steps <- MCSteps
  MaxPosition = 12
  Landmarks <- MCLandmarks
  VoxelSide = 2
  NUM_MATCH_POINTS = 2
  ScanPoints = {a, b, c}
  maximum_iter = 3
  scan_pub_en = TRUE
  scan_body_pub_en = TRUE
  effect_pub_en = TRUE
  path_en = TRUE
  map_pub_en = TRUE
  pcd_save_en = TRUE
  PathEvery = 2
  MaxPackages = 4
  MaxMap = 3
  N_SCANS = 2
  point_filter_num = 2
  blind = 1
  Distances = {0, 1, 2}
  Turn = 3
  MaxPoints = 4
  LineSizes = {3, 9}
  group_size = 2
  SurfaceThinning = 2
  MaxNear = 2
INVARIANTS
  IdsUnique
  HeightZeroed
  
  
  FreshMatches
  CloudsPlaced
  ScanTimes
  
PROPERTIES
  IdentityKept
  StuckSound
CHECK_DEADLOCK FALSE
