SPECIFICATION FairSpec
CONSTANTS
    Ids = {i1, i2, i3}
    Prices = {1, 2}
    Quantities = {0, 1, 2}
    NONE = NONE
    MaxNodes = 3
    IdsOfRestingFresh = TRUE
    FreedMemoryIntact = TRUE
INVARIANTS
    TypeOK
    IndexNeverDangles
    EveryOrderIndexed
    LevelsMatchOrders
    BookNotCrossed
    CursorAtTop
    QuantityConserved
PROPERTIES
    PriceTimePriority
    ImplementsPriceTimeBook
    MatchingTerminates
