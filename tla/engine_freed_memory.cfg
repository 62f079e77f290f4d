SPECIFICATION Spec
CONSTANTS
    Ids = {i1, i2}
    Prices = {1}
    Quantities = {1}
    NONE = NONE
    MaxNodes = 2
    IdsOfRestingFresh = TRUE
    FreedMemoryIntact = FALSE
INVARIANT
    IndexNeverDangles
