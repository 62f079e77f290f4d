SPECIFICATION FairSpec
CONSTANTS
    Base = 16
    LenBytes = 2
    IntBytes = 2
    NONE = NONE
    Requests <- MCRequests
    Replies <- MCReplies
    Malformed <- MCMalformed
INVARIANTS
    TypeOK
    WritesDoNotOverlap
    PayloadsExact
PROPERTIES
    ImplementsRequestReply
    CallReturns
CHECK_DEADLOCK FALSE
