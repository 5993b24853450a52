SPECIFICATION NetworkSpec
CONSTANTS
  p1 = p1
  p2 = p2
  Peers <- MCPeers
  MaxHeight = 4
  SYNC_STEP = 2
SYMMETRY PeerSymmetry
INVARIANTS
  SyncEndBound
  RequestsAhead
  PeersMatchConfig
PROPERTY SubmitsNext
