SPECIFICATION Spec
CONSTANTS
    HostId = {h1, h2, h3}
    JobId = {j1}
    NoHost = NoHost
    Name = {n1}
    NoName = NoName
    Scheduler = {s1}
    NoScheduler = NoScheduler
    Absent = Absent
    U8 = 4
    U32 = 2
    U64 = 2
    PaletteSize = 2
    MaxStarts = 1
    MaxRegistrations = 7
SYMMETRY Symmetry
INVARIANTS
    NeighboursDiffer
