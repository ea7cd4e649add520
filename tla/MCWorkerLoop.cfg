SPECIFICATION LoopSpec
CONSTANTS
    CadenceSeconds = 300
    InitialBackoff = 2
    PoolReset = 3
    BackoffSteps = 20
    CrashBound = 21
INVARIANT LoopTypeOK
PROPERTY RecoversWithDatabase
PROPERTY StopsWhenAsked
PROPERTY BacksOff
