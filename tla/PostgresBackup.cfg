CONSTANTS
  MaxBackupCompletions = 3
  CompletionAttempts = 2
  PgLimits <- MCPgLimits
SPECIFICATION PgSpec
INVARIANTS
  LossCostsOneFull
CHECK_DEADLOCK FALSE
