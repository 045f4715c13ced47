CONSTANTS
    MaxOrders = 4
    MaxQty = 2
    Prices = {1, 2}
SPECIFICATION Spec
INVARIANTS
    LiveOrdersRest
    NeverCrossed
    StateMatchesFill
    TapeConservesFills
PROPERTIES
    PriceTimePriority
    DeadIsFinal
