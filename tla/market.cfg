SPECIFICATION FairSpec
CONSTANTS
    Symbols = {s1, s2}
    HighWaterMark = 2
    NONE = NONE
    MaxTrades = 4
INVARIANTS
    TypeOK
    TapeInOrder
    OneWriterAtATime
PROPERTIES
    StopReturns
    TradesReachConsole
