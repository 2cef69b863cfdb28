SPECIFICATION FairSpec
CONSTANTS
    Names <- FlatNames
    Anc <- FlatAnc
    Files <- FlatFiles
    Stage <- FlatStage
    Content <- FlatContent
    Old <- FlatOld
    New <- FlatNew
    Patch <- FlatPatch
    EmptyOld <- FlatEmpty
    RefusedPaths <- FlatRefused
    Absent = Absent
    Dir = Dir
    Torn = Torn
    RenameReplaces = TRUE
    MaxRuns = 3
    MaxFaults = 3
INVARIANTS
    TypeOK
    OldOrNew
    CleanRunInstalls
    CleanRunSweeps
    MissingAreCounted
PROPERTIES
    ImplementsAtomicUpdate
    RunEnds
CHECK_DEADLOCK FALSE
