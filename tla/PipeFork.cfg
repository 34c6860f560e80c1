SPECIFICATION ForkSpec
CONSTANTS
    Envs = {a, b, c}
    MAXFD = 2
    NCPU = 1
    PIPEBUFSIZ = 1
    MaxBytes = 2
    Reader = a
    Writer = b
INVARIANTS
    NoFalseEof
CHECK_DEADLOCK FALSE
