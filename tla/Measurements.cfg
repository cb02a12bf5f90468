SPECIFICATION FairSpec
CONSTANTS
    Tasks = {"session", "wait", "probe", "compare", "offline", "audit"}
    Connections = {c1, c2}
    Zones = {"utc", "local"}
    Utc = "utc"
    NoConn = NoConn
    Nobody = Nobody
    Elsewhere = Elsewhere
    Null = Null
    Replicas <- MCReplicas
    Capabilities <- MCCapabilities
    Warmup = 1
    MinimumSamples = 2
    Samples = 2
    Cost <- MCCost
    MaxVersion = 1
    Executors = {"db", "borrowed"}
    Plans <- MCPlans
    Source = "T"
    Scopes <- MCScopes
    Kinds <- MCKinds
    LaterKinds <- MCLaterKinds
    MaxRecords = 3
    MaxLater = 3
    Requests <- MCRequests
    Workloads = {"", "w"}
    SavedBaselines <- MCSavedBaselines
    NoColumn = NoColumn
    SoftDelete = "d"
    SourceKey = "b"
    TargetKey = "a"
    Domain = {0, 1}
    NullValue = 0
    Nodes <- MCNodes
    Queries <- MCQueries
    Writes <- MCWrites
    Tables <- MCTables
    AppModels <- MCAppModels
    Catalogs <- MCCatalogs
    ColumnValues = {0, 1, 2}
INVARIANTS
    SamplesAreTheirSelects
    CompleteReportIsWhole
    SessionsComeBackClean
    PreparationAnswersWhatItSaw
    VerdictsFollowTheRecords
    AcceptedIsServed
PROPERTY CallsEnd
CHECK_DEADLOCK FALSE
