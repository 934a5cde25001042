SPECIFICATION Spec
CONSTANTS
    MaxAddr <- MCMaxAddr
    MaxBits <- MCMaxBits
    Width <- MCWidth
    First <- MCFirst
    Last <- MCLast
    Names <- MCNames
    Fold <- MCFold
    Calls = {c1, c2}
    Requests <- CallRequests
    Guards <- CallGuards
    Inventories <- CallInventories
    NetIds = {1, 2, 3}
    AddrIds = {1, 2}
    MaxInFlight = 1
    OutOfBand = FALSE
SYMMETRY MCSymmetry
INVARIANTS
    FencedNetworksKept
