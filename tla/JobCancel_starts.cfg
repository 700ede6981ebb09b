SPECIFICATION CancelSpec
CONSTANTS
    Jobs = {j1, j2}
    MaxAttempts = 2
    HasFallback = TRUE
    MaxFaults = 0
    MaxCrashes = 0
    NoJob = NoJob
PROPERTIES
    CancelledNeverStarts
CHECK_DEADLOCK FALSE
