SPECIFICATION Spec
CONSTANTS
    NBLOCKS = 6
    BLKSIZE = 1
    NDIRECT = 2
    NINDIRECT = 1
    BLKFILES = 1
    Names = {a, b}
    NoName = NoName
    JunkName = JunkName
    JunkFiles <- Stale
    Unset = Unset
    MaxSize = 2
    MaxCount = 1
    Written = {1}
PROPERTIES
    CreatedEmpty
CHECK_DEADLOCK FALSE
