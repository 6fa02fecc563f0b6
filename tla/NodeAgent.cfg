CONSTANTS
  n1 = n1
  n2 = n2
  u1 = u1
  u2 = u2
  Node <- MCNode2
  NoNode = NoNode
  UID <- MCUID2
  NoUID = NoUID
  GraceExpiredRelease = TRUE
  MaxGen = 3
  ManagedChoices <- PlainOrManaged
  MaxLate = 1
  MaxCrash = 1
  Limits <- OverlapManagedRecreated
SPECIFICATION LimitedSpec
SYMMETRY Symmetry
INVARIANTS
  ResourcesCovered
  OverlapAuthorized
  QuarantineProven
  RunningIsNotStale
CHECK_DEADLOCK FALSE
