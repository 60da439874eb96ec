SPECIFICATION FairSpec
CONSTANTS
    HostId = {h1}
    JobId = {j1}
    NoHost = NoHost
    Name = {n1}
    NoName = NoName
    Scheduler = {s1}
    NoScheduler = NoScheduler
    Absent = Absent
    U8 = 1
    U32 = 1
    U64 = 1
    HalfOpen = FALSE
    MaxInFlight = 2
PROPERTIES
    EndIsShown
    Reconnects
