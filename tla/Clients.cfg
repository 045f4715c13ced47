SPECIFICATION Spec
CONSTANTS
    Kinds = {"hftclient2026", "client", "client_naive"}
    Challenges <- Rounds999
    MaxChallenges = 3
    M = 2
    Cap = 40
    Bufcap = 23
INVARIANTS
    NoReadPastEnd
PROPERTIES
    AnswersEachInOrder
    AllAnswered
CHECK_DEADLOCK FALSE
