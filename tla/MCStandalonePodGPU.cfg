SPECIFICATION Spec
CONSTANTS
    MaxItems = 2
    MaxGroups = 0
    Namespaces = {"default"}
INVARIANT NvidiaHasControls
