SPECIFICATION Spec
CONSTANTS
    VarintBase = 2
    Message <- ShortMessage
    kMaxSegmentSize = 1
    MaxOffset = 3
    MaxAcked = 2
    Faults = {"crash", "power_loss", "short_write", "header_error"}
INVARIANT
    CommittedBytesStable
