SPECIFICATION Spec
CONSTANTS
    Word32 = 64
    Order <- ThreePaths
    Path <- PathSet
    PathHash <- Collisions
    Contents <- TwoContents
    Hash <- Hashes
    TooBig <- OnlyLong
    Unreadable <- NewALocked
    Refused <- TwoDots
    MaxChanges = 0
    NoHash = NoHash
    Absent = Absent
    NoFile = NoFile
CHECK_DEADLOCK FALSE
INVARIANT DeletedIsGone
