SPECIFICATION MCSpec
CONSTANTS
    Processes = {only}
    Cadence = 2
    MaxAttempts = 2
    AlertAfter = 2
    Horizon = 4
    Deaths = TRUE
PROPERTY OutcomeOutsideRetry
