SPECIFICATION WritersSpec
CONSTANTS
    b1 = b1
    b2 = b2
    q1 = q1
    q2 = q2
    gX = gX
    gY = gY
    noPart = noPart
    noGtin = noGtin
    NoGtin <- noGtin
    NoPart <- noPart
    Batches = {b1}
    Files <- AllFiles
    Requests <- TwoRequests
    FirstCatalog <- OneOffer
    MaxDecisions = 1
    r1 = r1
    r2 = r2
    r3 = r3
    r4 = r4
    Runs = {r1}
    NoRun = NoRun
    Duration = 1
    RunsFitLease = TRUE
    MaxDeaths = 0
INVARIANTS
    RepeatedCommitAddsNothing
CHECK_DEADLOCK FALSE
