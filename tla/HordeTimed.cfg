SPECIFICATION Spec
CONSTANTS
    NumKinds = 4
    Allowed = {1, 2, 3, 4}
    SizeMin <- MCSizeMin
    SizeMax <- MCSizeMax
    Beta = {3}
    BetaCvar <- MCBetaCvar
    HealthCvar <- MCHealthCvar
    GivenModels = {"off", "mixed"}
    UpdateMode = "timed"
    Mode = 1
    DefaultMin = 2
    DefaultMax = 2
    BatchMax = 1
    WandererMax = 0
INVARIANT
    TimedHordeWithinLimit
