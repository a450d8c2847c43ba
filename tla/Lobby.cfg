SPECIFICATION Spec
CONSTANTS
    MaxClients = 3
    Persons = {"ann", "bob", "cho"}
    Seats <- MCSeats
    NumProfiles = 3
    MaxResources = 3
    SquadSize = 2
    PlayerStarts = 3
    FairRules = TRUE
    Fallen = {}
    LastCommander <- MCLastCommander
    LastSlot <- MCLastSlot
    Primary = {2, 3}
    EmptySlotsPreferred = FALSE
    AllReady = FALSE
INVARIANTS
    RosterMatchesSlots
    LimitKept
    EveryMarineLands
PROPERTIES
    ReservationHonoured
    FollowsCommand
\* An empty server with its mission under way waits for players.
CHECK_DEADLOCK FALSE
