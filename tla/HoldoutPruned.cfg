SPECIFICATION FairSpec
CONSTANTS
    NumWaves = 2
    Waves <- ShortWaves
    Marines = {m1, m2}
    StartDelay = 3
    AnnounceTime = 5
    ScoreTime = 5
    ResupplyTime = 20
    KillDelay = 2
    RetryDelay = 1
    Pruning = TRUE
    MaxFailures = 0
    MaxUnlocks = 0
    MaxConsoleStarts = 0
PROPERTY
    ClearedWaveIsScored
CHECK_DEADLOCK FALSE
