CONSTANTS
    left_ = left_
    right_ = right_
    Doors <- MCDoors
    Master <- MCMaster
    AreaDoor <- MCMaster
    Addressed <- MCMasterOnly
    Breakable <- MCSlaveOnly
    AutoReturn <- MCMasterOnly
    UseCloses = TRUE
    CanCloseToWeld = TRUE
    Strength = 4
    NeededFlipDamage = 2
    Blows = {1}
    SealTotal = 2
    Disturbances = 2
SPECIFICATION MCSpec
PROPERTIES FallsAsAnimated ComesToRest OneSidedAttackFells SealGetsDone
