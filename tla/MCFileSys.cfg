SPECIFICATION Spec
CONSTANTS
    NBLOCKS = 6
    BLKSIZE = 1
    NDIRECT = 1
    NINDIRECT = 2
    BLKFILES = 2
    Names = {a, b}
    NoName = NoName
    JunkName = JunkName
    JunkFiles <- Stale
    Unset = Unset
    MaxSize = 3
    MaxCount = 1
    Written = {1}
INVARIANTS
    TypeOK
    BitmapExact
    DiskSound
    Durable
PROPERTIES
    FilesSpec
SYMMETRY SymmetricNames
CHECK_DEADLOCK FALSE
