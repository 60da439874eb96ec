SPECIFICATION FairSpec
CONSTANTS
    HostId = {h1}
    JobId = {}
    NoHost = NoHost
    Name = {n1}
    NoName = NoName
    Scheduler = {s1}
    NoScheduler = NoScheduler
    Absent = Absent
    U8 = 1
    U32 = 1
    U64 = 1
    HalfOpen = FALSE
    MaxInFlight = 2
    Interval = 1
    LogCap = 1
    MaxTyped = 1
INVARIANTS
    TypeOK
    UndrawnIsDue
    ScreenIsExact
    ScreenNeedsConnection
PROPERTIES
    ImplementsMonitor
    ScreenSettles
    QuitGivesTerminalBack
CHECK_DEADLOCK FALSE
