SPECIFICATION ConvertSpec
CONSTANTS
    MaxItems = 3
    MaxGroups = 2
    Namespaces = {"default"}
INVARIANTS
    NamesDistinct
    ComputeFirst
    MountsResolve
    ComputeFindsItsFiles
    InitsInOrder
    NothingLost
    ProxiesReachGuest
    FilesDistinct
    ReferencesExist
    ScratchIsAnchored
    PatchedPasstIsFound
    HealthChecksGuest
    GraphIsPodUnits
