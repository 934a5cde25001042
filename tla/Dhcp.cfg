SPECIFICATION CallsSpec
CONSTANTS
    MaxAddr <- MCMaxAddr
    MaxBits = 2
    Width <- MCWidth
    First <- MCFirst
    Last <- MCLast
    Names <- MCNames
    Fold <- MCFold
    MaxIPv4 = 3
    Wrap = 16
    MaskBits = 2
    BlockSize <- MCBlockSize
    Servers = {"east", "west"}
    Calls = {c1, c2}
    Requests <- CallRequests
    Guards <- FencingOnly
    Deployments <- BothServers
    Placeable <- Nothing
    maxListLimit = 2
    PageCap = 3
    MaxInFlight = 1
SYMMETRY MCSymmetry
INVARIANTS
    Inv
PROPERTIES
    ProtectedUntouched
