SPECIFICATION FairServer
CONSTANTS
    MaxConns = 1
    MaxLeaves = 0
    MaxChallenges = 2
    MaxClock = 0
    Window = 1
    TeamOf <- OwnTeams
    Checksums = {0, 1}
    Tagged = TRUE
PROPERTIES RoundCompletes
CHECK_DEADLOCK FALSE
