SPECIFICATION Spec
CONSTANT
    MaxTroubles = 1
INVARIANT
    NothingMissing
