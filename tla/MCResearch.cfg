SPECIFICATION Spec
CONSTANTS
    PaperLoggers = {"a", "b"}
    PaperImporters = {"s", "t"}
    Quotes <- MCQuotes
    Payloads <- MCPayloads
    Prices = {60}
    Updates = {1, 2}
    LegStatuses = {"active"}
    Outcomes <- MCOutcomes
    Configs = {1}
    MaxAge = 1
    EventStart = 3
    MarketClose = 4
    MaxFetchErrors = 1
    MaxFetchMarkets = 2
    MinSettled = 1
    MaxPaperClock = 3
    MaxPaperRows = 6
    MaxImports = 2
    CryptoCycles = {"c1", "c2"}
    Horizons = {1, 2}
    CryptoPrices = {100, 101}
    Band = 5
    CandleLength = 2
    CandleWindow = 2
    AuditMinimum = 1
    AuditPreferred = 2
    SegmentMinimum = 1
    SegmentLarge = 2
    MaxCryptoClock = 6
    MaxCycles = 2
    PaperOrders <- MCOrders
    OrderBooks <- MCBooks
    OrderConfigs <- MCConfigs
    PredictionRows <- MCRows
    MaxPredictions = 4
    EventLimits <- MCEventLimits
    CapitalLimits <- MCCapitalLimits
    Execution <- MCExecution
    Contracts <- MCContracts
    DecisionPolicies <- MCPolicies
    Confidences <- MCConfidences
    FeatureTrees <- MCFeatureTrees
    HttpClients = {"a", "b"}
    Urls = {"u", "v"}
    CacheTtl = 1
    MaxStale = 2
    MaxRetries = 1
    CacheMaxAge = 2
    CacheMaxFiles = 1
    MaxHttpClock = 3
    ComboLegs <- MCComboLegs
    LegFacts <- MCLegFacts
    Sporting = {"A", "B", "C", "D"}
    ComboPages <- MCComboPages
    LegQuotes <- MCLegQuotes
    ComboQuotes <- MCComboQuotes
    Signals <- MCSignals
    SlipDate = 1
    SlipLegs <- MCSlipLegs
    SlipTtl = 1
    AllowStale = TRUE
    SlipMaxStale = 2
    MaxSlipAge = 1
    MaxMoves = 1
    MaxSlipClock = 2
    Games = {"g", "h"}
    GameFacts <- MCGameFacts
    Endings <- MCEndings
    Postings <- MCPostings
    OfficialPages <- MCOfficialPages
    FixtureRows <- MCFixtures
    CycleSettings <- MCCycleSettings
    DayLength = 3
    StaleTicks = 1
    MaxScClock = 5
    MaxScCycles = 2
    MaxScRows = 8
    MaxAttempts = 2
    RatingRows <- MCRatingRows
    CloseSets <- MCCloseSets
    MinTeamGames = 1
    MinTraining = 2
    MinEvaluated = 2
    GameLength = 2
    ScoreGaps <- MCScoreGaps
    MaxSettled = 5
    Recorders = {"r", "s"}
    RatingReports <- MCRatingReports
    PowerReports <- MCPowerReports
    PValues <- MCPValues
    DiscoveryRate = 50
    MaxLines = 3
    MaxEdits = 1
    MaxDeaths = 1
CHECK_DEADLOCK FALSE
INVARIANT ResearchTypeOK
INVARIANT DecisionsMeetReference
INVARIANT SlipsAreListed
PROPERTY LedgersAreHonest
