SPECIFICATION FairSpec
CONSTANTS
    Interval = 3
    LogCap = 2
    MaxQueue = 3
INVARIANTS
    TypeOK
    StaleIsPending
    StalenessBounded
PROPERTIES
    DrawsAreThrottled
    ChangeIsDrawn
    QuitIsHeard
CHECK_DEADLOCK FALSE
