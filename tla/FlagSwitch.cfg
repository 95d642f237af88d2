SPECIFICATION CodecSpec
CONSTANTS
    FlagName = {"--datadir", "--pidfile", "--daemonize", "--version"}
    Symbols <- ArgSymbols
    MaxLength <- ArgMaxLength
CHECK_DEADLOCK FALSE
INVARIANT
    SwitchesAccepted
