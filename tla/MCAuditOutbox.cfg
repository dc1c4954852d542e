CONSTANTS
  Event <- MCEvent
  BestEffort <- MCBestEffort
  Worker <- MCWorker
  Configs <- Configurations
  None = None
  e1 = e1
  e2 = e2
  e3 = e3
  w1 = w1
  w2 = w2
SPECIFICATION AuditSpec
INVARIANTS NoSilentLoss RecordOutlives
PROPERTY EverySettled
