SPECIFICATION Spec
CONSTANTS
    pA = pA
    pB = pB
    s1 = s1
    s2 = s2
    s3 = s3
    v1 = v1
    v2 = v2
    r1 = r1
    Products <- TwoProducts
    Sums <- Checksums
    InitialTables <- BothTables
    Requests <- OneRequest
    MaxDecisions = 3
    Runs <- OneRun
    NoRun = NoRun
    Duration = 1
    RunsFitLease = TRUE
    MaxDeaths = 1
    ProductOrder <- InOrder
    Source <- SourceOffers
    ForceRefresh = TRUE
CHECK_DEADLOCK FALSE
INVARIANTS
    AuditReplays
    TableAndBucketAgree
PROPERTIES
    SwapKeepsPrimary
    
    RunEnds
