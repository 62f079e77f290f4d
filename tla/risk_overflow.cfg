SPECIFICATION Spec
CONSTANTS
    Symbols = {s1}
    Ids = {i1}
    Prices = {1, 10}
    Quantities = {1, 2}
    BuyingPower = 3
    MaxOrderQuantity = 2
    Width = 5
    MaxRequests = 2
PROPERTIES
    BuyingPowerNeverGrows
CHECK_DEADLOCK FALSE
