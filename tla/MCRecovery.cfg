CONSTANTS
    Job = {j1, j2}
    Worker = {w1, w2}
    MaxAttempts = 2
    Lease = 1
    Work = 1
    BackoffUnit = 1
    Retention = 3
    DeadRetention = 4
    SubmitBy = 0
    MaxTime = 4
SPECIFICATION FairSpec
INVARIANTS HolderOwnsRow BudgetKept NothingLost
PROPERTY Settles
CHECK_DEADLOCK FALSE
