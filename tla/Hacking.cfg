CONSTANTS
    crash = crash
    sarge = sarge
    vegas = vegas
    files = files
    door = door
    None = None
    Players = {1, 2}
    Full = 2
    Marines <- MCMarines
    Techs <- MCTechs
    Commander <- MCCommander
    Computers <- MCComputers
    Panels <- MCPanels
    Download <- MCComputers
    Turrets <- MCComputers
    Levels <- Apart
SPECIFICATION Spec
INVARIANTS HandlesAgree LockHolds
PROPERTIES TechFinishes
\* Everybody may be dead.
CHECK_DEADLOCK FALSE
