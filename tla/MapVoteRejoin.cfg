SPECIFICATION Spec
CONSTANTS
    Persons = {p1, p2}
    FractionNum = 3
    FractionDen = 5
    VoteDuration = 2
    LateValidation = FALSE
    SaveOutcomes = {TRUE}
INVARIANTS
    OnlyVotersTurnedAway
