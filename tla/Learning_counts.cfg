SPECIFICATION Spec
CONSTANTS
    Products = {p}
    Kinds = {fps, limiter}
    Limited = {limiter}
    Workload = w
    Calls = {c1, c2, c3}
    Outcomes <- Observed
    Unseen = Unseen
    Confidence = 60
    NoState = NoState
    NoReport = NoReport
    MaxFaults = 1
    Items = {x, y, z}
    Default = default
    Written = {a, b}
    Scopes = {"global", "gaming"}
    NoPolicy = NoPolicy
    Nothing = Nothing
    MaxProducts = 2
    MaxEdits = 2
    MaxBreaks = 1
    Fading <- MCFading
    Cases <- MCCases
    Terms <- MCTerms
    Previous <- MCPrevious
    External <- MCExternal
    Availability = {100}
    Mornings <- MCMornings
    Activities <- MCActivities
    Offers <- MCOffers
    Sources = {"SerpAPI", "eBay"}
    Unset = {}
    JobWindow = 1
    AlertWindow = 2
    MaxEvents = 2
SYMMETRY Names
CHECK_DEADLOCK TRUE
INVARIANTS
    
    
    FounderIsTold
