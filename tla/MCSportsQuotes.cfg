SPECIFICATION Spec
CONSTANTS
    None = None
    worker_log = worker_log
    manual_log = manual_log
    worker_settle = worker_settle
    other_settle = other_settle
    Loggers <- MCLoggers
    Settlers <- MCSettlers
    RunOf <- MCRunOf
    Runs = {"worker", "manual"}
    Quotes = {home}
    MaxRows = 3
    MaxTime = 2
SYMMETRY SettlerSymmetry
INVARIANT TypeOK
INVARIANT NoQuoteIsLost
INVARIANT ExactWithoutOverlap
PROPERTY OutcomeIsFinal
CHECK_DEADLOCK FALSE
