SPECIFICATION rwSpec
CONSTANTS
    RatingRows <- MCStaggeredRows
    CloseSets <- MCCloseSets
    MinTeamGames = 1
    MinTraining = 2
    MinEvaluated = 2
    GameLength = 2
    ScoreGaps <- MCScoreGaps
    MaxSettled = 5
INVARIANT UsesFinishedGames
CHECK_DEADLOCK FALSE
