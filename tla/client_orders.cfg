SPECIFICATION ClientSpec
CONSTANTS
    Symbols = {s1, s2}
    Ids = {1, 2, 3}
    Prices = {1, 2}
    Quantities = {1, 2}
    BuyingPower = 3
    MaxOrderQuantity = 2
    Width = 4
    MaxRequests = 5
    Processes = {p1}
    AtATime = 1
    NONE = NONE
SYMMETRY SymbolSymmetry
CHECK_DEADLOCK FALSE
INVARIANTS
    ClientTypeOK
    ExposureCovered
    BookReplySound
    SoundOrdersOnlyTake
    IdsTellOrdersApart
PROPERTIES
    ChangesReachOwnOrder
