SPECIFICATION Spec
CONSTANTS
    MaxConns = 2
    MaxLeaves = 0
    MaxChallenges = 2
    MaxClock = 2
    Window = 2
    TeamOf <- OwnTeams
    Checksums = {0, 1}
    Tagged = TRUE
INVARIANT EachChallengeOnce
PROPERTY IsFairContest
CHECK_DEADLOCK FALSE
