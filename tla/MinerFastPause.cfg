SPECIFICATION Spec
CONSTANTS
    c1 = c1
    c2 = c2
    c3 = c3
    NoChannel = NoChannel
    Channel = {c1}
    Id <- MCId
    Rank <- MCRank
    Game <- OneGame
    RandomDelay = FALSE
    FastToggle = TRUE
    Events = {"pause"}
INVARIANT RequestsServed
CHECK_DEADLOCK FALSE
