SPECIFICATION Spec
CONSTANTS
    MaxItems = 0
    MaxGroups = 0
    Namespaces = {"default", "prod"}
INVARIANT ProxiesReachGuest
