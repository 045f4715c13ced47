SPECIFICATION Spec
CONSTANTS
    Ids = {a, b, c, d}
    Prices = {10, 11, 12}
    Quantities = {5, 7}
    Capacity = 3
    Null = Null
    Destroyed = Destroyed
SYMMETRY IdSymmetry
INVARIANTS
    PoolPartition
    ListsInArrivalOrder
PROPERTY
    ImplementsBaseline
