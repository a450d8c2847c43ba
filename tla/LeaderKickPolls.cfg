SPECIFICATION Spec
CONSTANTS
    MaxClients = 3
    MaxReady = 4
    FractionNum = 3
    FractionDen = 4
    PollsAtOnce = 1
    StraysAtOnce = 1
    KicksAtOnce = 1
INVARIANTS
    LeaderIsAPlayer
    TallyMatchesVotes
PROPERTIES
    NewcomerIsNotAccused
    KickedByEnough
