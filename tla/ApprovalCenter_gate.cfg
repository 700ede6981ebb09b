SPECIFICATION OperatorSpec
CONSTANTS
    a1 = a1
    a2 = a2
    a3 = a3
    q1 = q1
    q2 = q2
    p1 = p1
    p2 = p2
    k1 = k1
    Requests <- TwoRequests
    Paths <- Decisions
    Keys <- OneKey
    NoKey = NoKey
    Ranks <- AnalystToSuper
    Required = 3
    MaxFaults = 1
    Items <- AllItems
    Merges <- MergeItems
    Restricted <- RestrictedItems
    Manual <- ManualItems
    Proposers <- TwoProposers
    Nodes = {"staged", "signal", "evidence", "cpu"}
    LabelsOf <- MCLabelsOf
    ProductionCritical = {"Product", "PriceSnapshot"}
    SafeByDefault = {"StagedCanonicalRecord", "OperationalSignal"}
    Undated = {"OperationalSignal"}
    Present = {"cpu", "staged"}
    Beside = {"evidence"}
    Asked <- MCAsked
    Retention = 1
    BatchSize = 1
    Cleaners = {m1, m2}
    Gone = Gone
    NoCount = NoCount
    Old = 1
    MaxTime = 2
    MaxSnapshots = 2
SYMMETRY Interchangeable
CHECK_DEADLOCK FALSE
INVARIANTS
    KeyMeansOnce
    SucceededIsAudited
PROPERTIES
    ReopensOnlyResolved
    CleansWhatWasShown
