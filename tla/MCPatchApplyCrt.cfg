SPECIFICATION Spec
CONSTANTS
    Names <- FlatNames
    Anc <- FlatAnc
    Files <- FlatFiles
    Stage <- FlatStage
    Content <- FlatContent
    Old <- FlatOld
    New <- FlatNew
    Patch <- FlatPatch
    EmptyOld <- FlatEmpty
    RefusedPaths <- NoFiles
    Absent = Absent
    Dir = Dir
    Torn = Torn
    RenameReplaces = FALSE
    MaxRuns = 1
    MaxFaults = 0
INVARIANTS
    CleanRunInstalls
CHECK_DEADLOCK FALSE
