SPECIFICATION QuerySpec
CONSTANTS
  Blocks <- MCBlocks
  MaxHeight = 3
  MaxPolls = 1
  MaxCollected = 1
  MaxCrashes = 1
INVARIANT BloomsFound
CHECK_DEADLOCK FALSE
