SPECIFICATION FairSpec
CONSTANTS
    m1 = m1
    m2 = m2
    plain = plain
    escape = escape
    survive = survive
    bomb = bomb
    Marines = {m1, m2}
    Techs = {m1}
    RequiresTech = TRUE
    Objectives = {plain, escape, bomb}
    Kind <- KindNoSurvival
    Optional = {}
    Campaign = TRUE
    InstantRestart = FALSE
    LaunchDeaths = FALSE
PROPERTIES SuccessEarned FailureHasCause FollowsPhases LostMissionEnds TechLossEnds
