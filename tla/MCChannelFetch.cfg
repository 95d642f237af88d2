SPECIFICATION FetchSpec
CONSTANTS
    VarintBase = 4
    Message <- TwoMessages
    kMaxSegmentSize = 2
    MaxOffset = 9
    MaxAcked = 2
    Faults = {"header_error"}
    kBufSize = 3
    BatchSizes = {0, 2}
    StrayOffsets = {}
INVARIANTS
    FetchedAdjacent
    FetchedAgrees
    FetchedAll
    FetchSucceeds
PROPERTY
    FetchTerminates
