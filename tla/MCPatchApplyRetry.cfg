SPECIFICATION Spec
CONSTANTS
    Names <- FlatNames
    Anc <- FlatAnc
    Files <- FlatFiles
    Stage <- FlatStage
    Content <- FlatContent
    Old <- FlatOld
    New <- FlatNew
    Patch <- FlatPatch
    EmptyOld <- FlatEmpty
    RefusedPaths <- NoFiles
    Absent = Absent
    Dir = Dir
    Torn = Torn
    RenameReplaces = TRUE
    MaxRuns = 2
    MaxFaults = 1
INVARIANTS
    FailureMeansMissing
CHECK_DEADLOCK FALSE
