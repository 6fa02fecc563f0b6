CONSTANTS
  n1 = n1
  n2 = n2
  u1 = u1
  u2 = u2
  c1 = c1
  c2 = c2
  Node <- MCNode1
  NoNode = NoNode
  UID <- MCUID1
  NoUID = NoUID
  GraceExpiredRelease = TRUE
  MaxGen = 2
  Call <- MCCall2
  MaxAttempts = 3
  MaxVersion = 6
SPECIFICATION SwapSpec
SYMMETRY CallSymmetry
INVARIANTS
  SnapshotCurrent
PROPERTIES
  RefinesLifecycle
CHECK_DEADLOCK FALSE
