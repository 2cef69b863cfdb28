SPECIFICATION Spec
CONSTANTS
    Calls <- AllCalls
    Capacity = 4
    BufferSize = 3
    Word32 = 4
    MaxCalls = 3
    MaxFaults = 2
    MaxTimeouts = 1
    None = None
CHECK_DEADLOCK FALSE
INVARIANTS
    LoadedOrFlagged
    PatchDelivered
PROPERTIES
    CallsReturn
