SPECIFICATION FairSpec
CONSTANTS
    Jobs = {j1, j2, j3}
    MaxAttempts = 3
    HasFallback = TRUE
    MaxFaults = 1
    MaxCrashes = 1
    NoJob = NoJob
CHECK_DEADLOCK FALSE
INVARIANTS
    QueueAccounts
    DiesOnlyAfterRetry
    RunningIsHeld
PROPERTIES
    
    JobSettles
