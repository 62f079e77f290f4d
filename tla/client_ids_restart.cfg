SPECIFICATION ClientSpec
CONSTANTS
    Symbols = {s1, s2}
    Ids = {1, 2}
    Prices = {1}
    Quantities = {1}
    BuyingPower = 5
    MaxOrderQuantity = 2
    Width = 8
    MaxRequests = 3
    Processes = {p1, p2}
    AtATime = 1
    NONE = NONE
CHECK_DEADLOCK FALSE
PROPERTIES
    ChangesReachOwnOrder
