SPECIFICATION Spec
CONSTANT
    MaxTroubles = 4
INVARIANTS
    SeedTypeOK
    MissingOnlyIfTaken
PROPERTY
    SeedsOnce
