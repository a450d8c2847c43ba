SPECIFICATION PlayedSpec
CONSTANTS
    NumWaves = 3
    Waves <- SoundWaves
    Marines = {m1, m2}
    StartDelay = 3
    AnnounceTime = 5
    ScoreTime = 5
    ResupplyTime = 20
    KillDelay = 2
    RetryDelay = 1
    Pruning = FALSE
    MaxFailures = 2
    MaxUnlocks = 1
    MaxConsoleStarts = 0
INVARIANT
    NoAlienForgotten
PROPERTIES
    FollowsCycle
    ClearedWaveIsScored
    HoldoutCompletes
\* COMPLETE is the last state of a holdout: nothing follows it.
CHECK_DEADLOCK FALSE
