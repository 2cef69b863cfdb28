SPECIFICATION FairSpec
CONSTANTS
    Archives <- TwoArchives
    Fold <- CaseFold
    InCwd <- CwdFiles
    e1 = e1
    e2 = e2
    e3 = e3
    r1 = r1
    r2 = r2
    Workloads <- Loads
    Enums = {e1, e2, e3}
    Slots <- TwoSlots
    Readers = {r1, r2}
    Filters <- AllFilters
    All = "*"
    FileNameMatch <- Match
    Requests <- TwoRequests
    Free = Free
    LongMax = 2
    Other = 7
CHECK_DEADLOCK FALSE
INVARIANTS
    TreeFaithful
    DataServed
PROPERTIES
    ImplementsListing
    CallbacksReturn
