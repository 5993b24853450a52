SPECIFICATION Spec
CONSTANTS
  r1 = r1
  r2 = r2
  Roots <- MCRoots
  MaxHeight = 2
  Decided <- MCDecided
  ProposalRoots <- MCRoots
  Proofs <- MCProofs
  Checks <- MCChecks
  Copies = 1
  MaxMsgs = 3
  MaxCrashes = 0
INVARIANT FinalizesDecided
