CONSTANTS
    Orders = {o1, o2, o3, o4}
    Symbols = {btc}
    Prices = {1, 2, 3}
    Quantities = {1, 2}
    Epsilon = 1
    NoOrder = NoOrder
SYMMETRY OrderSymmetry
SPECIFICATION Spec
INVARIANTS
    FillsMatchTape
    TradesAreSound
    OpenOrdersRest
    TimePriority
    DepthAccounting
    NoDeadLevel
    RefInv
PROPERTIES
    SettledIsFinal
    MatchAdvances
    KeepsPromise
CHECK_DEADLOCK FALSE
