CONSTANTS
  Run <- MCRun
  Steps = 2
  Statements = 2
  Configs <- MCConfigs
  None = None
  r1 = r1
  r2 = r2
SPECIFICATION MigrationSpec
INVARIANTS LockNeverPooled JournalTruthful StatementFitsSchema
CHECK_DEADLOCK FALSE
