SPECIFICATION Spec
CONSTANTS
    Keys = {"cpu", "gpu"}
    Fields = {"core", "extra"}
    Values = {0, 1, 2}
    Required = {"core", "extra"}
    FamilyFields = {"core"}
    ExactFields = {"core", "extra"}
    TargetFields = {"extra"}
    Spoiling = {"core"}
    Guarded = {"core"}
    Ops = {o1, o2}
    Sources = {sA, sB}
    Datasets <- MCDatasets
    Confirmed <- MCConfirmed
    Fixture <- MCFixture
    IsCard <- MCIsCard
    Approvals = {TRUE, FALSE}
    BatchLimit = 1
    NoRecord = NoRecord
    NoOp = NoOp
    MaxRequests = 3
    Endless = {}
    MaxFaults = 1
    MaxPending = 1
SYMMETRY SameNames
CHECK_DEADLOCK TRUE
INVARIANTS
    
    MarksTellTheTruth
    ConflictIsAsked
PROPERTIES
    PresentKept
    EnrichmentKeeps
