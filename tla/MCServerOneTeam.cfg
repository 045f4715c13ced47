SPECIFICATION Spec
CONSTANTS
    MaxConns = 2
    MaxLeaves = 0
    MaxChallenges = 1
    MaxClock = 1
    Window = 1
    TeamOf <- OneTeam
    Checksums = {0, 1}
    Tagged = TRUE
INVARIANTS FastestCorrectWins
CHECK_DEADLOCK FALSE
