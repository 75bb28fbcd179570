CONSTANTS
    Orders = {o1, o2, o3}
    Symbols = {btc, eth}
    Prices = {1, 2}
    Quantities = {1}
    Epsilon = 0
    NoOrder = NoOrder
SYMMETRY OrderSymmetry
SPECIFICATION Spec
INVARIANTS
    LevelIsOfOneSymbol
CHECK_DEADLOCK FALSE
