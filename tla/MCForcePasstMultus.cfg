SPECIFICATION Spec
CONSTANTS
    Names = {}
    MaxNetworks = 2
    MaxInterfaces = 1
    MultusDefault = TRUE
INVARIANT InterfacesOnPod
