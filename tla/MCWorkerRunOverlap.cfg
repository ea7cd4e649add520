SPECIFICATION MCSpec
CONSTANTS
    Processes = {old, new}
    Cadence = 2
    MaxAttempts = 2
    AlertAfter = 2
    Horizon = 7
    Deaths = TRUE
SYMMETRY ProcessSymmetry
INVARIANT TypeOK
INVARIANT OneOwner
INVARIANT StatusIsNewest
INVARIANT StatusMatchesRun
INVARIANT SingleFailureStreak
INVARIANT SingleAlertsAreEarned
PROPERTY OutcomeIsFinal
