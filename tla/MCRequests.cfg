SPECIFICATION RequestSpec
CONSTANTS
    FlagName = {"--datadir", "--pidfile", "--daemonize", "--version"}
    Symbols <- RequestSymbols
    MaxLength <- RequestMaxLength
    p1 = p1
    c1 = c1
    Producer = {p1}
    Consumer = {c1}
    MaxMessages = 2
    Batches = {1, 7}
    StrayRequests <- MCStrayRequests
    IntRange = 8
    MaxBacklog = 2
    MaxLog = 3
    Faults = {"crash", "drop", "write_error", "sync_error", "read_error"}
CHECK_DEADLOCK FALSE
INVARIANTS
    UriParts
    ParamsSurvive
    JsonSurvives
    MessagesSurvive
    EventsSurvive
    FlagsAgree
    TypeOK
    AckedStored
    SendOrder
    ConsumedInOrder
