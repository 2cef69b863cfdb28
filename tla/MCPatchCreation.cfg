SPECIFICATION FairSpec
CONSTANTS
    Word32 = 64
    Order <- ThreePaths
    Path <- PathSet
    PathHash <- Collisions
    Contents <- TwoContents
    Hash <- Hashes
    TooBig <- OnlyLong
    Unreadable <- OldDLocked
    Refused <- TwoDots
    MaxChanges = 1
    NoHash = NoHash
    Absent = Absent
    NoFile = NoFile
CHECK_DEADLOCK FALSE
INVARIANTS
    DeltaExact
    PatchFaithful
    ApplySafe
    PatchTransforms
PROPERTY Returns
