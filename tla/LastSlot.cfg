SPECIFICATION Spec
CONSTANTS
    MaxClients = 2
    MaxReady = 2
    FractionNum = 3
    FractionDen = 5
    PollsAtOnce = 2
    StraysAtOnce = 2
    KicksAtOnce = 2
INVARIANTS
    TallyMatchesVotes
PROPERTIES
    NewcomerIsNotAccused
