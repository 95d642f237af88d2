SPECIFICATION FilesSpec
CONSTANTS
    p1 = p1
    p2 = p2
    c1 = c1
    c2 = c2
    m1 = m1
    m2 = m2
    id1 = id1
    id2 = id2
    NoServerID = NoServerID
    Process = {p1}
    ChannelID = {c1, c2}
    Hidden = {}
    Message = {m1, m2}
    ServerID = {id1, id2}
    MaxFiles = 3
    MaxAcked = 5
    Faults = {"crash", "write_error", "read_error"}
    VarintBase = 2
    Newline = 1
    ByteOrderMarks <- MCMarks
    Text <- MCText
    Count = {0, 3}
    BufferSize = 3
    MaxAllocation = 4
    MaxBytes = 4
    MaxOffset = 5
INVARIANTS
    AckedServed
    OffsetsIncrease
    RecordsReadBack
PROPERTY
    ImplementsByteStream
