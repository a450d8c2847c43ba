SPECIFICATION Spec
CONSTANTS
    m1 = m1
    p1 = p1
    p2 = p2
    NumMissions = 3
    Links <- CampaignLinks
    Marines <- CampaignMarines
    Players <- CampaignPlayers
    SkillCap = 2
    PointsPerMission = 1
    MaxSpare = 7
    bReadyclicked = TRUE
    asw_campaign_death = TRUE
INVARIANTS
    FinaleEarned
    ProgressOnDisk
PROPERTIES
    RecordedWasPlayed
    WalkEnds
