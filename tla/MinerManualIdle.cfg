SPECIFICATION Spec
CONSTANTS
    c1 = c1
    c2 = c2
    c3 = c3
    NoChannel = NoChannel
    Channel = {c1, c2}
    Id <- MCId
    Rank <- MCRank
    Game <- TwoGames
    RandomDelay = FALSE
    FastToggle = FALSE
    Events = {"select","stream"}
INVARIANT NothingLeftUnwatched
CHECK_DEADLOCK FALSE
