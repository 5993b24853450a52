SPECIFICATION ChainFairSpec
CONSTANTS
  MaxHeight = 3
  MaxCrashes = 0
  MaxExecRestarts = 0
  SyncOn = FALSE
  Parts = {"store", "link"}
  COLLECTION_QUEUE_SIZE = 3
  PrefCacheSize = 2
  MaxCacheSize = 2
  BytesPerCacheEntry = 1
  Hashes <- TraceHashes
  Genesis = "genesis"
  BlockOf <- TraceBlocks
  BitsOf <- TraceBits
  Filters <- TraceFilters
INVARIANT ReplyProof
PROPERTIES
  ChainFollows
  Delivered
