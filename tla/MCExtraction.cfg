SPECIFICATION FairSpec
CONSTANTS
    Paths <- AllPaths
    Unsafe <- UnsafePaths
    Archives <- TwoArchives
    Absent = Absent
    MaxCpu = 3
    MaxCalls = 2
    MaxFaults = 1
CHECK_DEADLOCK FALSE
INVARIANTS
    OneWriter
    ExtractedWhole
    ExistingKept
    NoneRunsOn
PROPERTY CallsReturn
