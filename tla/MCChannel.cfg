SPECIFICATION Spec
CONSTANTS
    VarintBase = 2
    Message <- MCMessage
    kMaxSegmentSize = 3
    MaxOffset = 7
    MaxAcked = 5
    Faults <- ProcessFaults
INVARIANTS
    TypeOK
    CommitNotForgotten
    Contiguous
    MemoryMatchesDisk
    AckedReadable
    AckedInOrder
    AckedInLog
PROPERTIES
    CommittedImmutable
    ImplementsMessageLog
