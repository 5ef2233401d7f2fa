SPECIFICATION Spec
CONSTANTS
  MAX_INI_COUNT = 1
  MaxTime = 6
  MaxLength = 1
  MaxScans = 4
  MaxBacklog = 2
  StepBack = TRUE
INVARIANT StampsPaired
