SPECIFICATION FrontFairSpec
CONSTANTS
  t1 = t1
  t2 = t2
  s1 = s1
  s2 = s2
  p1 = p1
  p2 = p2
  NoProposal = NoProposal
  Txs <- MCTxs
  Fault <- MCFault
  valid_until_block <- MCUntil
  BLOCKLIMIT = 3
  MaxHeight = 3
  StartHeight = 1
  MaxNotices = 1
  Singles <- MCSingles
  TxOf <- MCTxOf
  Jsonrpc <- MCJsonrpc
  Proposals <- MCProposals
  Reqs <- MCReqs
  Workloads <- MCWorkloads
  tx_pool_limit = 1
  PerThread = 0
  CountPerBatch = 1
INVARIANTS
  WindowComplete
  OkSound
  AnsweredOnce
  NothingLeft
  WsAnsweredOnce
  ForwardedInOrder
  AnsweredAsAsked
PROPERTIES
  NoReplay
  
CHECK_DEADLOCK FALSE
