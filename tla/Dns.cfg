SPECIFICATION CallsSpec
CONSTANTS
    Names <- MCNames
    Fold <- MCFold
    Views = {"in", "out"}
    Labels = {"www"}
    RrIds = {1, 2, 3}
    Calls = {c1, c2}
    Requests <- MCRequests
    Guards <- FencingOnly
    Deployments <- MCDeployments
    MaxInFlight = 1
SYMMETRY MCSymmetry
INVARIANTS
    Inv
PROPERTIES
    ProtectedUntouched
    KeepsPromise
