SPECIFICATION FetchSpec
CONSTANTS
    VarintBase = 4
    Message <- TwoMessages
    kMaxSegmentSize = 1
    MaxOffset = 9
    MaxAcked = 3
    Faults = {"crash"}
    kBufSize = 3
    BatchSizes = {0}
    StrayOffsets = {}
INVARIANT
    FetchedAll
