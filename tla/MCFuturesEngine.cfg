CONSTANTS
    Orders = {o1, o2, o3}
    Holders = {long, short}
    Prices <- FuturesPrices
    Quantities = {1, 2}
    NoOrder = NoOrder
    OrderCap = 1
    TradeCap = 1
SYMMETRY Symmetry
SPECIFICATION Spec
INVARIANTS
    FInv
    PricePriority
    NeverCrossed
    PositionsAddUp
PROPERTIES
    KeepsPromise
CHECK_DEADLOCK FALSE
