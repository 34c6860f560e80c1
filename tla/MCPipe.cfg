SPECIFICATION FairSpec
CONSTANTS
    Envs = {a, b}
    MAXFD = 2
    NCPU = 1
    PIPEBUFSIZ = 2
    MaxBytes = 3
    Reader = a
    Writer = b
INVARIANTS
    TypeOK
    NoFalseEof
    FdBacked
PROPERTIES
    ChannelSpec
    ReleasedInTime
CHECK_DEADLOCK FALSE
