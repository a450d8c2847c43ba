CONSTANTS
    left_ = left_
    right_ = right_
    Doors <- MCDoors
    Master <- MCMaster
    AreaDoor <- MCMaster
    Addressed <- MCDoors
    Breakable <- MCDoors
    AutoReturn <- MCMasterOnly
    UseCloses = TRUE
    CanCloseToWeld = TRUE
    Strength = 4
    NeededFlipDamage = 2
    Blows = {1}
    SealTotal = 2
    Disturbances = 2
SPECIFICATION MCSpec
PROPERTIES DentedStaysShut KickNeverFells WeldsOnlyShut CutOpensAutoDoor ArrivesOnce ResumesOnlyPaused
