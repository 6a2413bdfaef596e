SPECIFICATION Spec
CONSTANTS
    Drops <- TwoDrops
    Needed <- TwoNeeded
    Preconditions <- NoPreconditions
    Listed <- TwoListed
    MaxExtra = 1
    MaxFetches = 1
    MaxMail = 1
PROPERTY AllAreBumped
CHECK_DEADLOCK FALSE
