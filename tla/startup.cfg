SPECIFICATION FairSpec
CONSTANTS
    Attempts = 10
    MaxDelay = 10
INVARIANTS
    TypeOK
    DelaysBridged
PROPERTIES
    StartupSettles
CHECK_DEADLOCK FALSE
