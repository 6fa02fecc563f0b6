CONSTANTS
  n1 = n1
  n2 = n2
  u1 = u1
  u2 = u2
  Node <- MCNode2
  NoNode = NoNode
  UID <- MCUID2
  NoUID = NoUID
  GraceExpiredRelease = TRUE
  MaxGen = 2
  ManagedChoices <- Plain
  MaxLate = 0
  MaxCrash = 1
  Limits <- DeletionAndLeftovers
SPECIFICATION LiveLimitedSpec
PROPERTIES
  DeletionCompletes
  LeftoversReclaimed
CHECK_DEADLOCK FALSE
