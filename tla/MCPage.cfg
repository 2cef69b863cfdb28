SPECIFICATION PageSpec
CONSTANTS
    ArchiveFiles <- Spelled
    Hash <- Bytes
    HeaderSize = 1
    Selections <- Picks
    None = None
    Created <- PackedName
    Archived <- ArchiveOf
    Sessions <- Visits
    MaxRuns = 2
CHECK_DEADLOCK FALSE
INVARIANTS
    VerifiedMeansIntact
    ExtractsShown
    PacksSelected
