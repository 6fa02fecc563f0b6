CONSTANTS
  n1 = n1
  n2 = n2
  u1 = u1
  u2 = u2
  c1 = c1
  c2 = c2
  Node <- MCNode2
  NoNode = NoNode
  UID <- MCUID2
  NoUID = NoUID
  GraceExpiredRelease = TRUE
  MaxGen = 2
  Call <- MCCall1
  MaxAttempts = 3
  MaxVersion = 4
SPECIFICATION SwapSpec
INVARIANTS
  ObligationsOfOwnLifetime
CHECK_DEADLOCK FALSE
