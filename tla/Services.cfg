SPECIFICATION Spec
CONSTANTS
    MaxInstalls = 3
    Helpers = {h1, h2}
    NoHelper = NoHelper
    MaxAttempts = 4
    MaxPolls = 2
    MaxRuns = 2
    MaxCancels = 3
    Calls = {r1, r2}
    NoCall = NoCall
    Limit = 2
    Tokens = {t1, t2, t3}
    NoToken = NoToken
    Sockets = {k1, k2}
    NoSocket = NoSocket
    MaxSessions = 2
    Games = {g1}
    Hosts = {a1, a2}
    Passwords = {p1, p2}
    Bots = {bot}
    Mask = Mask
    Absent = Absent
    NoProxy = NoProxy
    NoFile = NoFile
    Torn = Torn
    MaxUpdates = 3
    Horizon = 5
    Hour = 4
    Intervals = {0, 3}
    Campaigns <- MCCampaigns
    MaxChanges = 2
    Tasks = {j1, j2, j3}
    Capacity = 2
    Addresses = {u1, u2}
    NoAddress = NoAddress
    Segments = {x1, x2}
    Kept = 1
    MaxBroadcasts = 2
    Channels = {c1, c2}
    NoChannel = NoChannel
    EndOfTime = 2
    MaxCommands = 4
    MaxWire = 1
    LIMIT = 1
    MaxEvents = 1
    Listable = {1, 2}
    Rewards = {"badge", "emote"}
    Offered <- MCOffered
    Lists <- MCLists
    Priorities <- MCPriorities
    MaxOffered = 2
INVARIANTS
    LoginOffered
    StatusIsTrue
    ReportsAreTrue
    NothingOutlivesTheRun
    ProofIsIssued
    OpenSocketsFollow
    SettingsInForce
    BoundariesAreServed
    MinesWhatLeadsToRewards
    NoPlaceIsWasted
    WatchingIsReal
    QueueIsMined
    AnswersAreTheirOwn
    BansHoldUntilTheyEnd
PROPERTIES
    ReplacedNeverInstalls
CHECK_DEADLOCK FALSE
