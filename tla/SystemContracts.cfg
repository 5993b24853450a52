SPECIFICATION ContractsSpec
CONSTANTS
  a1 = a1
  a2 = a2
  a3 = a3
  Addresses <- MCAddresses
  InitNodes <- MCNodes
  InitAdmins <- MCAdmins
  MaxBlock = 2
  InitSenders <- MCSenders
  InitCreators <- MCCreators
  MaxList = 5
  QuotaAdmin = a1
  Limits <- MCLimits
  BaseLimit = 1
  BlockLimit = 2
  MaxLimit = 4
  InitAccount = 1
  InitBlock = 3
  Word = 6
  MaxCalls = 4
INVARIANTS
  ListsMatch
  CreatorLoaded
  LimitAsAnswered
  FixedDelay
CHECK_DEADLOCK FALSE
