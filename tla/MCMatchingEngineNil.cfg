CONSTANTS
    Orders = {o1, o2}
    Symbols = {btc}
    Prices = {1}
    Quantities = {1}
    Epsilon = 0
    NoOrder = NoOrder
    OrderCap = 1
    TradeCap = 1
    MaxNils = 1
SYMMETRY OrderSymmetry
SPECIFICATION EngineSpec
INVARIANTS
    OnlyTradesReceived
CHECK_DEADLOCK FALSE
