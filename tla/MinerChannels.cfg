SPECIFICATION Spec
CONSTANTS
    c1 = c1
    c2 = c2
    c3 = c3
    NoChannel = NoChannel
    Channel = {c1, c2, c3}
    Id <- MCId
    Rank <- MCRank
    Game <- OneGame
    RandomDelay = FALSE
    FastToggle = FALSE
    Events = {"select", "stream", "estimate", "pause"}
SYMMETRY Twins
INVARIANT WatchedIsReady
INVARIANT NothingLeftUnwatched
CHECK_DEADLOCK FALSE
