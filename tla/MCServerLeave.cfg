SPECIFICATION FairSpec
CONSTANTS
    MaxConns = 2
    MaxLeaves = 1
    MaxChallenges = 2
    MaxClock = 1
    Window = 1
    TeamOf <- OwnTeams
    Checksums = {0}
    Tagged = TRUE
PROPERTY RoundCompletes
CHECK_DEADLOCK FALSE
