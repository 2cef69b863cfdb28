SPECIFICATION PageSpec
CONSTANTS
    ArchiveFiles <- OnlyLibpaf
    Hash <- Bytes
    HeaderSize = 1
    Selections <- Picks
    None = None
    Created <- PackedName
    Archived <- ArchiveOf
    Sessions <- OneVerification
    MaxRuns = 1
CHECK_DEADLOCK FALSE
INVARIANTS
    IntactVerifies
