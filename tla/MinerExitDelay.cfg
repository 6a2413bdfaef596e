SPECIFICATION FairSpec
CONSTANTS
    c1 = c1
    c2 = c2
    c3 = c3
    NoChannel = NoChannel
    Channel = {c1}
    Id <- MCId
    Rank <- MCRank
    Game <- OneGame
    RandomDelay = TRUE
    FastToggle = FALSE
    Events = {"select", "close"}
PROPERTY ExitCompletes
CHECK_DEADLOCK FALSE
