SPECIFICATION Spec
CONSTANTS
    Prices = {1, 2, 3}
    MaxPushes = 6
    Handles = {h1, h2, h3, h4}
    Blocks = {b1, b2, b3}
    Null = Null
    Places = {h1, h2, h3, h4}
    Trades = {t1, t2, t3}
    NoTrade = NoTrade
    Cap = 4
    Nil = Nil
    Object = Object
    Rounds = 4
    Mod = 3
    HalfRange = 65
    CpuNumbers = {0, 1, 2, 3}
    Sockets = {0, 1}
    Cores = {0, 1}
    k1 = k1  k2 = k2  k3 = k3  k4 = k4  k5 = k5  k6 = k6
    Keys = {k1, k2, k3, k4, k5, k6}
    Hash <- Hashes
    Absent = Absent
    MinCapacity = 8
    MapValues = {v1, v2}
    Orders = {1, 2, 3, 4}
    VectorPrices = {1, 2, 3}
    Few = {o1, o2, o3}
    MapPrices = {1, 2}
    MapQuantities = {1, 2}
    Size = 2
    SumMod = 4
    TraceMod = 3
    Traded = 2
    TickPrices = {100, 150, 152, 160}
    Low = 105
    High = 195
    Window = 3
    Enough = 2
    MaxTicks = 7
INVARIANTS
    NoSlotLost
    LiveIffOwned
    LaneIsExact
    OneOwner
    OnePassAgrees
    WorkerIsWellPlaced
PROPERTIES
    IsPriorityQueue
    BooksAgree
    IsAMap
CHECK_DEADLOCK FALSE
