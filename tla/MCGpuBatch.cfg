SPECIFICATION FairSpec
CONSTANTS
    Archives <- ThreeArchives
    Absent = Absent
    Torn = Torn
    Foreign = Foreign
    Junk = Junk
    Empty = "empty"
    Vrams <- CardSizes
    Reserve = 1
    PerFile = 1
    Word32 = 8
    MaxCpu = 2
    MaxFaults = 2
CHECK_DEADLOCK FALSE
INVARIANTS
    WrittenVerified
    MissingAreCounted
    CleanRunDelivers
    CudaFits
PROPERTY Returns
