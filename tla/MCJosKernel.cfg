SPECIFICATION Spec
CONSTANTS
    NCPU = 3
    NENV = 3
    MaxGen = 1
INVARIANTS
    TypeOK
    LockDiscipline
    NeverOnTwoCpus
    ExecutesItsOwn
    RunningSomewhere
    AddressSpaceAlive
    FreeListExact
    MonitorQuiescent
    OwnBootStack
    ReceiverBlocked
PROPERTIES
    ZombieOnlyDies
