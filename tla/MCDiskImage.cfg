SPECIFICATION FairSpec
CONSTANTS
    Sizes <- MCSizes
    ImageSizes <- MCImageSizes
    TornScripts = TRUE
INVARIANTS
    IInv
    DiskWhole
    DoneHasDisk
    PublishesOwnWork
PROPERTIES
    DiskOnlyGrows
    OnlyGuestWritesInUse
    ImplementsPersistentDisk
    RunEnds
