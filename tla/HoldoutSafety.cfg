SPECIFICATION Spec
CONSTANTS
    NumWaves = 2
    Waves <- FaultyWaves
    Marines = {m1, m2}
    StartDelay = 3
    AnnounceTime = 5
    ScoreTime = 5
    ResupplyTime = 20
    KillDelay = 2
    RetryDelay = 1
    Pruning = TRUE
    MaxFailures = 1
    MaxUnlocks = 1
    MaxConsoleStarts = 1
INVARIANTS
    KillsAccountedFor
    OneStateChange
    ScoreOnlyWhenCleared
PROPERTY
    ResurrectionOutsideCombat
\* A wave that is started out of range, or an alien of which cannot be killed, never ends.
CHECK_DEADLOCK FALSE
