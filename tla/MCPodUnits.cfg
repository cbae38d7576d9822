SPECIFICATION FairSpec
CONSTANTS
    NInits = 3
    NContainers = 2
    NStale = 2
    Knows <- MCKnows
    MaxFaults = 3
INVARIANTS
    IInv
    ComputeIsPrepared
    InitsRunAlone
PROPERTIES
    VolumesOutliveUsers
    InitsRunOncePerPod
    PowerOffStays
    ComputeComesBack
