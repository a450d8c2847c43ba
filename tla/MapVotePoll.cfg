SPECIFICATION FairSpec
CONSTANTS
    Persons = {p1, p2, p3}
    FractionNum = 3
    FractionDen = 5
    VoteDuration = 2
    LateValidation = TRUE
    SaveOutcomes = {TRUE, FALSE}
INVARIANTS
    TallyMatchesVotes
PROPERTIES
    EnoughVoters
    RejectedOnlyWhenHopeless
    EveryVoteIsDecided
