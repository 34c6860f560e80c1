SPECIFICATION Spec
CONSTANTS
    Clients = {a, b}
    Files = {f}
    Modes <- OpenModes
    MAXOPEN = 2
    MAXFD = 2
    Generations = 2
    Capacity = 1
    Seeks = {0}
    Absent = Absent
    None = None
INVARIANTS
    TypeOK
    EntryHeld
    Attended
PROPERTIES
    OpenFilesSpec
SYMMETRY Alike
CHECK_DEADLOCK FALSE
