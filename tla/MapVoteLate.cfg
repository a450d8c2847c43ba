SPECIFICATION Spec
CONSTANTS
    Persons = {p1, p2, p3}
    FractionNum = 3
    FractionDen = 5
    VoteDuration = 2
    LateValidation = TRUE
    SaveOutcomes = {TRUE}
INVARIANTS
    OneVoteEach
