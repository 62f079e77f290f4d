SPECIFICATION FairSpec
CONSTANTS
    Clients = {c1, c2}
    Costs = {0, 1, 2}
    BuyingPower = 2
    NONE = NONE
    MaxCalls = 2
    MaxKills = 2
INVARIANTS
    TypeOK
    AnswersMatchCalls
    ExecutedAtMostOnce
    ToldTheTruth
    SpentWithinBuyingPower
PROPERTIES
    CallsReturn
