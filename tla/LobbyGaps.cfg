SPECIFICATION Spec
CONSTANTS
    MaxClients = 3
    Persons = {"ann", "bob", "cho"}
    Seats <- MCSeats
    NumProfiles = 3
    MaxResources = 3
    SquadSize = 2
    PlayerStarts = 3
    FairRules = TRUE
    Fallen = {}
    LastCommander <- MCLastCommander
    LastSlot <- MCLastSlot
    Primary = {2, 3}
    EmptySlotsPreferred = TRUE
    AllReady = FALSE
INVARIANT
    LimitKept
CHECK_DEADLOCK FALSE
