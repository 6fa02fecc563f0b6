CONSTANTS
  n1 = n1
  n2 = n2
  p1 = p1
  p2 = p2
  v1 = v1
  v2 = v2
  NoNode = NoNode
  NotReported = NotReported
  Node <- MCNode
  Project <- MCProject
  Primary <- MCPrimary
  Sizes <- MCSizes
  Offer <- MCOffer
  InitialOffer <- MCInitialOffer
  BufSize = 1
  Budget <- MCBudget
  Volumes = 2
  Retain = 2
  Limits <- MCLimits
  Mount <- MCMount
  RestoreLimits <- MCRestoreLimits
  Lifetime <- MCLifetime
  NetworkOf <- MCNetworkOf
  HostLimits <- MCHostLimits
  MaxBackupCompletions = 3
  CompletionAttempts = 2
  PgLimits <- MCPgLimits
SPECIFICATION ComponentsSpec
SYMMETRY Symmetry
INVARIANTS
  NoLostWakeup
  NoMixedData
  FreshData
  WritesKept
  ReleasedIsGone
  DiffIsContinuous
  AcceptedOnce
PROPERTIES
  FitsWhenBound
  NeverBackToFailed
  RefinesRestorePoint
  OtherLifetimesKept
CHECK_DEADLOCK FALSE
