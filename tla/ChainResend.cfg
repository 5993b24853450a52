SPECIFICATION FairSpec
CONSTANTS
  MaxHeight = 1
  MaxCrashes = 1
  MaxExecRestarts = 0
  SyncOn = FALSE
PROPERTY ChainFollows
