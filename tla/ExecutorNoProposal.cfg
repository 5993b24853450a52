SPECIFICATION ExecutionFairSpec
CONSTANTS
  Parts = {"service"}
  r1 = r1
  r2 = r2
  Roots <- MCRoots
  MaxHeight = 2
  Decided <- MCDecided
  ProposalRoots <- MCNone
  Proofs <- MCGood
  Checks <- MCChecks
  Copies = 2
  MaxMsgs = 4
  MaxCrashes = 1
INVARIANTS
  FinalizesDecided
PROPERTIES
  ConsensusExecuted
