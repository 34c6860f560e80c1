SPECIFICATION LiveSpec
CONSTANTS
    NCPU = 1
    NENV = 3
    MaxGen = 1
PROPERTIES
    NoStarvation
