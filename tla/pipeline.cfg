SPECIFICATION FairSpec
CONSTANTS
    Symbols = {s1}
    QueueCapacity = 2
    ProducerRetries = TRUE
    MaxTrades = 2
    MaxLog = 4
    MaxEngineRestarts = 1
    MaxCrashes = 1
INVARIANTS
    TypeOK
    CommittedKeysStored
    TableFollowsLog
PROPERTIES
    LoggedTradesReachTable
