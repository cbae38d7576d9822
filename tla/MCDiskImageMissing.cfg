SPECIFICATION Spec
CONSTANTS
    Sizes <- MCFewSizes
    ImageSizes <- MCFewImageSizes
    TornScripts = TRUE
INVARIANT
    VMHasDisk
