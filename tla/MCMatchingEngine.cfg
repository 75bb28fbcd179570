CONSTANTS
    Orders = {o1, o2, o3}
    Symbols = {btc}
    Prices = {1}
    Quantities = {1, 2}
    Epsilon = 0
    NoOrder = NoOrder
    OrderCap = 2
    TradeCap = 1
    MaxNils = 1
SPECIFICATION LiveSpec
INVARIANTS
    EngineTypeOK
    AcceptedOrdersInTurn
    TradesPublishedInTurn
    NoSendOnClosedTrades
PROPERTIES
    AcceptedIsDealtWith
    StopReturns
    MatchEnds
CHECK_DEADLOCK FALSE
