SPECIFICATION Spec
CONSTANTS
    MaxAddr <- SmallMaxAddr
    MaxBits <- SmallMaxBits
    Width <- SmallWidth
    First <- SmallFirst
    Last <- SmallLast
    Names <- MCNames
    Fold <- MCFold
    Calls = {c1}
    Requests <- AdminRequests
    Guards <- AdminGuards
    Inventories <- AdminInventories
    NetIds = {1}
    AddrIds = {1}
    MaxInFlight = 1
    OutOfBand = TRUE
CHECK_DEADLOCK FALSE
PROPERTIES
    ProtectedUntouched
    ReadOnlyFreezes
