SPECIFICATION Spec
CONSTANTS
    MaxDisks = 2
    MaxConversions = 3
INVARIANTS SuccessIsWhole ComputeHasItsInits CompletedNeverDangles MixtureIsPodUnits
