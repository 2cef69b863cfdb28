SPECIFICATION Spec
CONSTANTS
    Word32 = 8
    Roots <- OneRoot
    Paths <- ThreePaths
    MaxSize = 4
    MaxChanges = 1
    MayShrink = FALSE
    BufCap = 3
    SlotCap = 2
    Missing = Missing
    NoFile = NoFile
    Lost = Lost
CHECK_DEADLOCK FALSE
INVARIANTS
    LogKept
    ArchiveFaithful
    ReadersAgree
    AllArchived
PROPERTY ImplementsArchiveLog
