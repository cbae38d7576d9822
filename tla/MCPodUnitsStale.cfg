SPECIFICATION FairSpec
CONSTANTS
    NInits = 1
    NContainers = 1
    NStale = 1
    Knows <- MCKnowsOnly
    MaxFaults = 0
INVARIANT
    ComputeWaitsForAllInits
