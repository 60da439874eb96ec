SPECIFICATION Spec
CONSTANTS
    HostId = {h1, h2}
    JobId = {j1}
    NoHost = NoHost
    Name = {n1}
    NoName = NoName
    Scheduler = {s1}
    NoScheduler = NoScheduler
    Absent = Absent
    U8 = 1
    U32 = 1
    U64 = 1
    HalfOpen = TRUE
    MaxInFlight = 3
SYMMETRY Symmetry
INVARIANTS
    TypeOK
    NothingWithoutConnection
    PictureIsExact
PROPERTIES
    OneSessionAtATime
    ImplementsEventFeed
