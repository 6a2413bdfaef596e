SPECIFICATION Spec
CONSTANTS
    c1 = c1
    c2 = c2
    c3 = c3
    NoChannel = NoChannel
    Channel = {c1}
    Id <- MCId
    Rank <- MCRank
    Game <- OneGame
    RandomDelay = TRUE
    FastToggle = FALSE
    Events = {"select", "settings", "reload", "clear", "pause", "window", "stream", "claim", "estimate", "maintenance", "auth", "fail", "close"}
INVARIANT RequestsServed
INVARIANT MaintenanceAlive
INVARIANT ClosedStopsWatching
INVARIANT FreshRun
PROPERTY ImplementsService
CHECK_DEADLOCK FALSE
