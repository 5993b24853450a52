SPECIFICATION ChainSpec
CONSTANTS
  MaxHeight = 2
  MaxCrashes = 1
  MaxExecRestarts = 1
  SyncOn = TRUE
  Parts = {"store", "queries", "traces"}
  COLLECTION_QUEUE_SIZE = 3
  PrefCacheSize = 2
  MaxCacheSize = 2
  BytesPerCacheEntry = 1
  Hashes <- TraceHashes
  Genesis = "genesis"
  BlockOf <- TraceBlocks
  BitsOf <- TraceBits
  Filters <- TraceFilters
INVARIANTS
  BodyOnDisk
  HashesDelivered
  RichStatusOnDisk
  FiltersMissNothing
  QueriesAgree
CHECK_DEADLOCK FALSE
