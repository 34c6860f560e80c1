SPECIFICATION Spec
CONSTANTS
    Envs = {1, 2}
    Root = 1
    Written = {w}
    Zero = Zero
    Image = Image
INVARIANTS
    TypeOK
    Isolated
    TlbCurrent
    StoresSucceed
PROPERTIES
    MemoriesSpec
    FaultResolved
CHECK_DEADLOCK FALSE
