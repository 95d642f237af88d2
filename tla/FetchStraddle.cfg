SPECIFICATION FetchSpec
CONSTANTS
    VarintBase = 2
    Message <- LongMessage
    kMaxSegmentSize = 3
    MaxOffset = 6
    MaxAcked = 3
    Faults = {}
    kBufSize = 3
    BatchSizes = {2}
    StrayOffsets = {}
INVARIANT
    FetchSucceeds
