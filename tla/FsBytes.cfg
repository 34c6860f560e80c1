SPECIFICATION Spec
CONSTANTS
    NBLOCKS = 6
    BLKSIZE = 2
    NDIRECT = 1
    NINDIRECT = 2
    BLKFILES = 2
    Names = {a}
    NoName = NoName
    JunkName = JunkName
    JunkFiles <- Stale
    Unset = Unset
    MaxSize = 7
    MaxCount = 3
    Written = {1}
INVARIANTS
    BitmapExact
PROPERTIES
    FilesSpec
CHECK_DEADLOCK FALSE
