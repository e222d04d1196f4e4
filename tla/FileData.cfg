SPECIFICATION Spec
CONSTANTS
    Inodes = {1, 2, 3}
    Handles = {1, 2}
    InodeOf <- MCInodeOf
    Writes <- MCWrites
    BSIZE = 2
    NDIRECT = 2
    FSSIZE = 8
    nmeta = 1
    BPB = 1
    MAXOPBLOCKS = 10
    MaxOps = 4
    UINT = 11
    MkfsContents <- MCContents
INVARIANTS
    BlocksOwned
    ReadMatches
    WriteFitsReservation

    
CHECK_DEADLOCK FALSE
