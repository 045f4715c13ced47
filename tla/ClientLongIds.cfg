SPECIFICATION Spec
CONSTANTS
    Kinds = {"client"}
    Challenges <- Rounds1000
    MaxChallenges = 3
    M = 2
    Cap = 40
    Bufcap = 23
PROPERTY AnswersEachInOrder
CHECK_DEADLOCK FALSE
