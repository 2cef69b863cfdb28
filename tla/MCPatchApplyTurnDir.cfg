SPECIFICATION Spec
CONSTANTS
    Names <- TurnNames
    Anc <- TurnAnc
    Files <- TurnFiles
    Stage <- TurnStage
    Content <- FlatContent
    Old <- TurnOld
    New <- TurnNew
    Patch <- TurnPatch
    EmptyOld <- NoFiles
    RefusedPaths <- NoFiles
    Absent = Absent
    Dir = Dir
    Torn = Torn
    RenameReplaces = TRUE
    MaxRuns = 1
    MaxFaults = 0
INVARIANTS
    CleanRunInstalls
CHECK_DEADLOCK FALSE
