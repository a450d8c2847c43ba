SPECIFICATION FairSpec
CONSTANTS
    Persons = {p1, p2}
    FractionNum = 3
    FractionDen = 5
    VoteDuration = 2
    LateValidation = FALSE
    SaveOutcomes = {FALSE}
PROPERTIES
    EveryVoteEnds
