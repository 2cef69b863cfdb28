SPECIFICATION Spec
CONSTANTS
    Word32 = 8
    Roots <- TwoRoots
    Paths <- TwoPaths
    MaxSize = 1
    MaxChanges = 0
    MayShrink = FALSE
    BufCap = 2
    SlotCap = 2
    Missing = Missing
    NoFile = NoFile
    Lost = Lost
CHECK_DEADLOCK FALSE
INVARIANT AllArchived
