SPECIFICATION Spec
CONSTANTS
    p1 = p1
    p2 = p2
    r1 = r1
    r2 = r2
    kA = kA
    kB = kB
    Ids <- TwoIds
    NoNode = NoNode
    NoKey = NoKey
    Runs <- TwoRuns
    Seeds <- OneSeed
    SeedName = "seed"
    Listings <- SourceListings
    Pages <- PageListings
    Regions <- TwoRegions
    SchedulerRegion = "US"
    WindowLimit = 1
    NoOffer = NoOffer
    MaxSnaps = 2
    MaxFaults = 1
SYMMETRY Interchangeable
INVARIANTS
    IdentitiesHold
    PageStoredOnce
PROPERTIES
    StaleIsEarned
    BestLostOnlyAbroad
