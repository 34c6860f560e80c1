SPECIFICATION FiniteForksSpec
CONSTANTS
    NCPU = 2
    NENV = 3
    MaxGen = 1
PROPERTIES
    NoStarvation
    ZombieCollected
