SPECIFICATION Spec
CONSTANTS
    Ingestors = {"worker", "web"}
    Snapshots <- MCSnapshots
    SnapshotKeys <- MCSnapshotKeys
    FreshFor = 1
    RetentionDays = {0, 1}
    MinimumRetention = 1
    PruneLimit = 1
    WalSizes = {2}
    VolumeCapacity = 5
    MaxSnapshotClock = 3
    MaxSnapshots = 3
    CatalogCollectors = {"c1", "c2"}
    CatalogIds = {1, 2}
    Values = {"v1", "v2", "closed"}
    BookAge = 1
    LiveAge = 1
    EntityAge = 1
    PageSizes = {1}
    MaxPageSize = 1
    GameStarts = {3}
    Windows <- MCWindows
    PregameHorizon = 3
    MaxCatalogClock = 2
    MaxStores = 3
    Requests = {"r1", "r2"}
    UserRole = "admin"
    Deployments <- MCDeployments
    MaximumFailures = 2
    LockFor = 2
    SessionFor = 3
    MaxSessionClock = 3
    MaxTokens = 3
    MaxGuesses = 3
    MaxDisables = 1
    Operators = {"h1"}
    Builds <- MCBuilds
    Cooldown = 1
    MaxSlipAge = 1
    FutureTolerance = 1
    ErrorWindow = 2
    DetailPages = {1, 2}
    MaxDetailPage = 2
    MaxDashboardClock = 2
    MaxRefreshes = 2
    Agents = {"x", "y"}
    MessageIds = {1, 2}
    Bodies = {"m", "n"}
    InboxPriorities = {1, 2}
    ListLimits = {1, 2}
    MaxMessages = 2
    Processes = {"web", "worker"}
    LoopProcesses = {"worker"}
    ThreadNames = {"t1", "t2"}
    Trees <- MCTrees
    MaxDeployments = 1
    MaxPools = 2
    Services = {"kalshi-market-ingestion", "external-source-ingestion", "crypto-research", "sports-research", "research-model-refresh", "settlement-worker", "raw-retention"}
    FleetCadence <- MCCadence
    FailureLimit = 2
    MaxFleetClock = 2
    MaxReports = 1
INVARIANT OperationsTypeOK
INVARIANT StoredViewsAreWhole
INVARIANT AccessIsGuarded
INVARIANT OperatorsAreServed
INVARIANT StartupIsSafe
PROPERTY TroubleIsReported
CHECK_DEADLOCK FALSE
