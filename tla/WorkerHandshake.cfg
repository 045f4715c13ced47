CONSTANTS
    MaxChallenges = 3
    Rows = 3
SPECIFICATION FairSpec
INVARIANTS
    NoDataRace
    AnswersOwnChallenge
    ParsesOnlyWhatIsAwaited
PROPERTIES
    EveryPayloadAnswered
    ShutdownCompletes
