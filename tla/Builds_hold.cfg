SPECIFICATION Spec
CONSTANTS
    Lists <- Offers
    OffersOf <- MCOffersOf
    Beside <- MCBeside
    Wordings <- MCWordings
    Unsaid = Unsaid
    Unknown = Unknown
    Component <- MCComponent
    Wishes <- MCWishes
    Shelves <- MCShelves
    Stock <- MCStock
    MaxValid = 3
    Speed <- MCSpeed
    Imbalance <- MCImbalance
    NoField = NoField
    Categories = {"RAM", "GPU", "PSU", "Motherboard"}
    Markets <- MCMarkets
    Pools <- MCPools
    Orders <- MCOrders
    Pages = {g1, g2}
    Account = account
    Ids = {i1, i2}
    Calls = {c1, c2}
    Parts = {a}
    Drafts = {{a, x}}
    ListLimit = 1
    NoBuild = NoBuild
    Deleted = Deleted
    NoCall = NoCall
    Nobody = Nobody
    MaxSends = 4
    MaxFaults = 1
    Threads = {t1, t2}
    WindowSeconds = 3
    Allowance = 2
    MaxTime = 5
    NoBucket = NoBucket
SYMMETRY Names
INVARIANTS
    SoldIsAsJudged
    
    AnswersAreAsCalled
    
    PagesTellTheTruth
    
