SPECIFICATION ServerSpec
CONSTANTS
    MaxAddr <- MCMaxAddr
    MaxBits = 2
    Width <- MCWidth
    First <- MCFirst
    Last <- MCLast
    Names <- MCNames
    Fold <- MCFold
    MaxIPv4 = 3
    Wrap = 16
    MaskBits = 2
    BlockSize <- MCBlockSize
    Servers = {"west"}
    Calls = {c1}
    Requests <- MCRequests
    Guards <- MCGuards
    Deployments <- MCDeployments
    Placeable <- MCPlaceable
    maxListLimit = 2
    PageCap = 3
    MaxInFlight = 1
    ZoneNames <- MCZoneNames
    FoldZone <- MCFoldZone
    Views = {"in"}
    Labels = {"www"}
    RrIds = {1}
    ZoneRequests <- MCZoneRequests
    ZoneDeployments <- MCZoneDeployments
    VlanNames = {"v"}
    VlanIds = {1, 2}
    MaxVlanId = 1
INVARIANTS
    ServerInv
PROPERTIES
    GuardsHold
