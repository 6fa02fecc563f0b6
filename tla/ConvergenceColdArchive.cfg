CONSTANTS
  n1 = n1
  n2 = n2
  n3 = n3
  p1 = p1
  p2 = p2
  web = web
  db = db
  NoNode = NoNode
  NotReported = NotReported
  Node <- MCNode
  Project <- MCProject
  Primary <- MCPrimary
  Sizes <- MCSizes
  Offer <- MCOffer
  InitialOffer <- MCInitialOffer
  BufSize = 1
  Budget <- MCBudget
  Backoff <- MCBackoff
  StableAfter = 3
  MaxGrants = 4
  MaxApplies = 1
  MaxBudgetFaults = 1
  Manifest <- MCManifest
  MaxRecoveryAttempts = 2
  OpLimits <- MCOpLimits
SPECIFICATION ConvergenceSpec
INVARIANTS
  ColdArchive
CHECK_DEADLOCK FALSE
