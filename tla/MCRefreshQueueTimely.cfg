SPECIFICATION Spec
CONSTANTS
    pregame = pregame
    manual = manual
    None = None
    Requests = {pregame, manual}
    Workers = {w1, w2}
    Priority <- MCPriority
    MaxAttempts = 3
    LeaseTicks = 2
    RetryTicks = 1
    MaximumRequests = 2
    LeaseCoversWork = TRUE
    Repeats = TRUE
    Crashes = TRUE
INVARIANT TypeOK
INVARIANT ExclusiveWork
INVARIANT HoldsItsClaim
INVARIANT OutcomeFitsStatus
PROPERTY OwnerWritesOutcome
PROPERTY TerminalIsFinal
