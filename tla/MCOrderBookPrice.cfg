CONSTANTS
    Orders = {o1, o2, o3}
    Symbols = {btc}
    Prices = {1, 2}
    Quantities = {1}
    Epsilon = 0
    NoOrder = NoOrder
SYMMETRY OrderSymmetry
SPECIFICATION Spec
INVARIANTS
    PricePriority
CHECK_DEADLOCK FALSE
