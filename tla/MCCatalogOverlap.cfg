SPECIFICATION Spec
CONSTANTS
    Workers = {worker}
    Coordinators = {refresh}
    Last = 2
    Endpoint <- KalshiEndpoints
    MaxAttempts = 2
    MaxRuns = 2
    MaxBatches = 4
    MaxCursor = 1
INVARIANT TypeOK
INVARIANT EvidenceFirst
INVARIANT NothingSkipped
INVARIANT FreshIsEarned
PROPERTY ImplementsLedger
CHECK_DEADLOCK FALSE
