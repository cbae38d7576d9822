SPECIFICATION ConvertSpec
CONSTANTS
    MaxItems = 0
    MaxGroups = 0
    Namespaces = {"default"}
INVARIANT ComputeGetsGrace
