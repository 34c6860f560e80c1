SPECIFICATION Spec
CONSTANTS
    Envs = {a, b}
    MAXFD = 2
    NCPU = 1
    PIPEBUFSIZ = 2
    MaxBytes = 2
    Reader = a
    Writer = b
INVARIANTS
    EofComplete
CHECK_DEADLOCK FALSE
