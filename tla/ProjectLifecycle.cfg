CONSTANTS
  n1 = n1
  n2 = n2
  u1 = u1
  Node <- MCNode
  NoNode = NoNode
  UID <- MCUID1
  NoUID = NoUID
  GraceExpiredRelease = TRUE
  MaxGen = 3
  HeartbeatTimeout = 1
  RunningGrace = 2
  TerminatingTimeout = 2
  MaxTime = 5
  MaxAssignments = 2
SPECIFICATION ControlPlaneSpec
SYMMETRY NodeSymmetry
INVARIANTS
  TypeOK
  GrantsAccounted
  NoAssignmentOverDebt
  OperatorCanUnblock
  ManagedDataOwed
  OnlyCopyKept
  MarkNamesAssignment
PROPERTIES
  FinalizedClean
  DebtOnlyProgresses
  DeletionIrrevocable
  FullGrace
  RunningClocksKept
CHECK_DEADLOCK FALSE
