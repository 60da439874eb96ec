SPECIFICATION Spec
CONSTANTS
    HostId = {h1, h2}
    JobId = {j1, j2}
    NoHost = NoHost
    Name = {n1}
    NoName = NoName
    Scheduler = {s1}
    NoScheduler = NoScheduler
    Absent = Absent
    U8 = 1
    U32 = 5
    U64 = 6
    PaletteSize = 1
    MaxStarts = 3
    MaxRegistrations = 3
SYMMETRY Symmetry
INVARIANTS
    TypeOK
    BooksBalance
    RunningIsCounted
    HeaderAddsUp
    JobShape
PROPERTIES
    HostKeepsHistory
