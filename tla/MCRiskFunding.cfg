CONSTANTS
    Positions = {p1}
    Users = {alice}
    Prices = {200}
    Quotes = {220}
    Deals = {200}
    Quantities = {1}
    Leverages = {10}
    NoPosition = NoPosition
    MaxTicks = 2
    MaxSettlements = 1
SPECIFICATION Spec
PROPERTIES
    LongsPayShorts
CHECK_DEADLOCK FALSE
