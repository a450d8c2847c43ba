SPECIFICATION Spec
CONSTANTS
    MaxClients = 2
    MaxReady = 3
    FractionNum = 3
    FractionDen = 5
    PollsAtOnce = 2
    StraysAtOnce = 2
    KicksAtOnce = 2
INVARIANTS
    TypeOK
    TallyMatchesVotes
PROPERTIES
    NewcomerIsNotAccused
