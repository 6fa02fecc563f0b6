CONSTANTS
  n1 = n1
  n2 = n2
  u1 = u1
  u2 = u2
  Node <- MCNode1
  NoNode = NoNode
  UID <- MCUID1
  NoUID = NoUID
  GraceExpiredRelease = TRUE
  MaxGen = 2
  ManagedChoices <- Plain
  MaxLate = 0
  MaxCrash = 0
  Limits <- Whole
SPECIFICATION LimitedSpec
INVARIANTS
  RecordOutlivesEveryResource
CHECK_DEADLOCK FALSE
