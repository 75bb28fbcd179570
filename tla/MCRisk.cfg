CONSTANTS
    Positions = {p1, p2}
    Users = {alice}
    Prices = {160, 200}
    Quotes = {180}
    Deals = {200}
    Quantities = {1}
    Leverages = {10}
    NoPosition = NoPosition
    MaxTicks = 2
    MaxSettlements = 1
SYMMETRY Symmetry
SPECIFICATION LosingSpec
INVARIANTS
    TypeOK
    EndsOnce
    LossUsesUpMargin
    OpenPnlIsCurrent
CHECK_DEADLOCK FALSE
