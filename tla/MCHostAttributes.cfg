SPECIFICATION Spec
CONSTANTS
    HostId = {h1}
    Part <- MCPart
    Report <- MCReport
    U32 = 1000
    IntOf <- MCIntOf
    FloatOf <- MCFloatOf
    Absent = Absent
INVARIANTS
    TypeOK
    RowIsLatestWord
    DetailsExplainRow
PROPERTIES
    LogTellsWhoIsGone
