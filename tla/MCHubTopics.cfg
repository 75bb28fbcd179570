CONSTANTS
    Clients = {c1}
    Kinds = {trade}
    Symbols = {btc}
    NoSymbol = NoSymbol
    TopicSets <- AllTopicSets
    BroadcastCap = 1
    SendCap = 1
    MaxMessages = 1
    MaxRequests = 1
SPECIFICATION Spec
INVARIANTS
    SubscriptionIsServed
CHECK_DEADLOCK FALSE
