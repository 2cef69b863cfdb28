SPECIFICATION BDeltaSpec
CONSTANTS
    Byte <- Bits
    OldFiles <- UpToFour
    NewFiles <- UpToFive
    Bases <- SomeBases
    BlockSize = 2
    MaxLit = 2
    Slots = 4
    BlockHash <- Fnv
    Free = Free
    NoBase = NoBase
CHECK_DEADLOCK FALSE
INVARIANT SizeVerified
