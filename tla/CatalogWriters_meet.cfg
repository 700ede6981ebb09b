SPECIFICATION WritersSpec
CONSTANTS
    b1 = b1
    b2 = b2
    q1 = q1
    q2 = q2
    gX = gX
    gY = gY
    noPart = noPart
    noGtin = noGtin
    NoGtin <- noGtin
    NoPart <- noPart
    Batches <- TwoBatches
    Files <- AllFiles
    Requests <- TwoRequests
    FirstCatalog <- OneOffer
    MaxDecisions = 2
    r1 = r1
    r2 = r2
    r3 = r3
    r4 = r4
    Runs <- FourRuns
    NoRun = NoRun
    Duration = 2
    RunsFitLease = TRUE
    MaxDeaths = 2
SYMMETRY Interchangeable
CHECK_DEADLOCK FALSE
INVARIANTS
    
    AppliedAsReviewed
    
    
    RunsExclude
    EndedRunsHoldNothing
