SPECIFICATION Spec
CONSTANTS
    Word32 = 8
    Roots <- OneRoot
    Paths <- TwoPaths
    MaxSize = 2
    MaxChanges = 1
    MayShrink = TRUE
    BufCap = 2
    SlotCap = 2
    Missing = Missing
    NoFile = NoFile
    Lost = Lost
CHECK_DEADLOCK FALSE
INVARIANT IndexFound
