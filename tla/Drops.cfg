SPECIFICATION Spec
CONSTANTS
    Drops <- TwoDrops
    Needed <- TwoNeeded
    Preconditions <- NoPreconditions
    Listed <- TwoListed
    MaxExtra = 1
    MaxFetches = 2
    MaxMail = 1
INVARIANTS
    ClaimedOnce
PROPERTIES
    NeverTakesBack
    NoEstimateOverNews
CHECK_DEADLOCK FALSE
