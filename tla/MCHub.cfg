CONSTANTS
    Clients = {c1}
    Kinds = {trade}
    Symbols = {btc}
    NoSymbol = NoSymbol
    TopicSets <- AllTopicSets
    BroadcastCap = 1
    SendCap = 1
    MaxMessages = 2
    MaxRequests = 2
SPECIFICATION FairSpec
INVARIANTS
    TypeOK
    NoSendOnClosed
    BatchIsThere
    InOrder
    AnsweredIsServed
PROPERTIES
    DeadIsLetGo
    BroadcastDrains
CHECK_DEADLOCK FALSE
