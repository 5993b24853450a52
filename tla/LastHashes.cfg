SPECIFICATION HashesSpec
CONSTANTS
  Window = 3
  MaxHeight = 5
  MaxCrashes = 1
INVARIANT BlockhashRight
CHECK_DEADLOCK FALSE
