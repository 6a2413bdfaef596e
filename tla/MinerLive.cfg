SPECIFICATION FairSpec
CONSTANTS
    c1 = c1
    c2 = c2
    c3 = c3
    NoChannel = NoChannel
    Channel = {c1}
    Id <- MCId
    Rank <- MCRank
    Game <- OneGame
    RandomDelay = FALSE
    FastToggle = FALSE
    Events = {"settings", "reload", "select", "stream", "pause", "maintenance", "auth", "close"}
PROPERTY ExitCompletes
PROPERTY RefreshServed
PROPERTY ReopeningFetches
CHECK_DEADLOCK FALSE
