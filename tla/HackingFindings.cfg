CONSTANTS
    crash = crash
    sarge = sarge
    vegas = vegas
    files = files
    door = door
    None = None
    Players = {1, 2}
    Full = 2
    Marines <- MCMarines
    Techs <- MCTechs
    Commander <- MCCommander
    Computers <- MCComputers
    Panels <- MCPanels
    Download <- MCComputers
    Turrets <- MCComputers
    Levels <- Apart
SPECIFICATION Spec
PROPERTIES DoneStaysDone TechLeaves
CHECK_DEADLOCK FALSE
