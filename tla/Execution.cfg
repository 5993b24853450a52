SPECIFICATION ExecutionSpec
CONSTANTS
  Parts <- MCParts
  r1 = r1
  r2 = r2
  Roots <- MCRoots
  MaxHeight = 2
  Decided <- MCDecided
  ProposalRoots <- MCRoots
  Proofs <- MCProofs
  Checks <- MCChecks
  Copies = 1
  MaxMsgs = 3
  MaxCrashes = 1
VIEW ExecutionView
INVARIANTS
  OnlyDecidedCommitted
  ClosedBlockAtHand
  FailedLeavesNothing
  GasWithinLimits
  TraceTree
  NeverOutOfBounds
  NeverInData
  WordsAgree
  ReadsBack
  Conserved
PROPERTIES
  StateImplements
  CreateIsFresh
  TurnsSound
CHECK_DEADLOCK FALSE
