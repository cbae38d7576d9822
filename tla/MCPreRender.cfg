SPECIFICATION PSpec
CONSTANTS
    Names = {"red", "blue"}
    MaxNetworks = 2
    MaxInterfaces = 3
    MultusDefault = FALSE
    Claims = {"a"}
    MaxVolumes = 2
INVARIANTS
    IInv InterfacesOnPod NetworkNamesDistinct GivenNetworksKept
     RenderedIsWhole StatusMatchesInterfaces DomainIsFound
