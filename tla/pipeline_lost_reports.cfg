SPECIFICATION Spec
CONSTANTS
    Symbols = {s1}
    QueueCapacity = 2
    ProducerRetries = FALSE
    MaxTrades = 1
    MaxLog = 2
    MaxEngineRestarts = 1
    MaxCrashes = 0
INVARIANT
    ReportedTradesSurvive
