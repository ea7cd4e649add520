SPECIFICATION FairSpec
CONSTANTS
    pregame = pregame
    manual = manual
    None = None
    Requests = {pregame, manual}
    Workers = {w1, w2}
    Priority <- MCPriority
    MaxAttempts = 3
    LeaseTicks = 1
    RetryTicks = 1
    MaximumRequests = 2
    LeaseCoversWork = FALSE
    Repeats = FALSE
    Crashes = TRUE
INVARIANT ClaimTokens
INVARIANT GivesUpLast
PROPERTY EveryRequestSettles
