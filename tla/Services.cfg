SPECIFICATION Spec
CONSTANTS
    c1 = c1
    c2 = c2
    MaxConns = 2
    MaxPrices = 4
    MaxLeaves <- Leaves
    Values = {1, 2, 3}
    Readers = {r1}
    MaxRounds = 3
    MaxCrashes = 2
    Absent = Absent
    Prices = {15, 16, 20, 21}
    SellThreshold = 20
    BuyThreshold = 16
    OrderQty = 2
    Fills = {1, 2, 3}
    MaxOrders = 4
    Error = Error
    LBracket = LBracket
    RBracket = RBracket
    Clients <- TwoClients
    NoAnswer = NoAnswer
    MaxChallenges = 2
    MaxConnects <- Connections
    MaxClock <- Ticks
    BlastClients = {1, 2}
    TaggingClients = {1}
    TeamOf <- OwnNames
    BurstEvery = 1
    BurstSize = 1
    MaxIds = 3
    MaxTime = 1
INVARIANTS
    OrdersAreDecided
    MomentumIsReal
    FileKeepsResults
    
    CreditsAreAnswers
PROPERTIES
    QuotesEachGoodPriceOnce
    IsFairContest
CHECK_DEADLOCK FALSE
