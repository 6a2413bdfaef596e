----------------------------- MODULE MCServices -----------------------------
(* The modules that are small enough to be checked in one run.  They share no *)
(* state, so a behaviour is that of one of them, chosen at the start: which     *)
(* names it, and its variables are the first of the slots, in their order.      *)
EXTENDS Naturals, FiniteSets, TLC

CONSTANTS
    MaxInstalls,                       \* Logins
    Helpers, NoHelper,                 \* HelperDelivery
    MaxAttempts, MaxPolls,
    MaxRuns, MaxCancels,               \* LoginBrowser
    Calls, NoCall, Limit,              \* Issuance
    Tokens, NoToken,                   \* WebAuth, and SettingsManager's tokens
    Sockets, NoSocket, MaxSessions,
    Games, Hosts, Passwords, Bots, Mask, Absent, NoProxy, NoFile, Torn, MaxUpdates,
    Horizon, Hour, Intervals,          \* Maintenance
    Campaigns, MaxChanges,             \* DropIgnoreCache
    Tasks, Capacity,                   \* Requests
    Addresses, NoAddress, Segments,    \* WatchRequest
    Kept, MaxBroadcasts,
    Channels, NoChannel, EndOfTime,    \* Bans
    MaxCommands, MaxWire,              \* DevTools
    LIMIT, MaxEvents,
    Listable, Rewards, Offered,        \* Selection: games, types and campaigns,
    Lists, Priorities, MaxOffered      \* what users enter, and the bound

\* What a fetch may find: a campaign that is on, and two, of which one comes later.
Inventories ==
    {{[starts |-> 0, ends |-> 2]}, {[starts |-> 1, ends |-> 5], [starts |-> 4, ends |-> 5]}}

\* Two drops that are watched for or not, have a reward or not and need each other or
\* one that is missing; and three that are watched for, have one and need each other.
Drop == [claimed : {FALSE}, watch : BOOLEAN, reward : BOOLEAN,
         pre : SUBSET {"a", "b", "c", "missing"}]
Plain(drop) == drop.watch /\ drop.reward /\ "missing" \notin drop.pre
MCCampaigns ==
    [{"a", "b"} -> {d \in Drop : "c" \notin d.pre}]
    \cup {graph \in [{"a", "b", "c"} -> {d \in Drop : Plain(d)}] : "a" \notin graph["a"].pre}

\* Selection: of the first game a badge, of the second a badge that ends before it, an
\* emote, and one that starts within the hour.
Campaign(game, type, ends, active) ==
    [game |-> game, type |-> type, ends |-> ends, active |-> active]
MCOffered ==
    {Campaign(1, "badge", 2, TRUE), Campaign(2, "badge", 1, TRUE),
     Campaign(2, "emote", 2, TRUE),
     Campaign(2, "emote", 1, FALSE)}
MCLists == {<<>>, <<1>>, <<2, 1>>}
MCPriorities == {<<>>, <<"emote", "badge">>}

VARIABLES which,
          s1, s2, s3, s4, s5, s6, s7, s8, s9, s10, s11, s12, s13

slots == <<s1, s2, s3, s4, s5, s6, s7, s8, s9, s10, s11, s12, s13>>
all == <<which, slots>>

L == INSTANCE Logins WITH ready <- s1, gen <- s2, asked <- s3, login <- s4, run <- s5, helper <- s6, accept <- s7, token <- s8, at <- s9,
     lock <- s10, stopped <- s11, void <- s12, installs <- s13
H == INSTANCE HelperDelivery WITH offer <- s1, admission <- s2, helpers <- s3,
     upload <- s4, installed <- s5
B == INSTANCE LoginBrowser WITH stage <- s1, cut <- s2, up <- s3, dirs <- s4,
     cleanup <- s5, kept <- s6, runs <- s7, cancels <- s8
I == INSTANCE Issuance WITH page <- s1, shown <- s2, fetched <- s3, wire <- s4,
     requests <- s5, events <- s6, open <- s7, exchange <- s8, acquire <- s9, result
     <- s10
W == INSTANCE WebAuth WITH memory <- s1, disk <- s2, expired <- s3, used <- s4,
     sockets <- s5, timers <- s6, request <- s7
S == INSTANCE SettingsManager WITH Tokens <- Bots, memory <- s1, disk <- s2, program
     <- s3, pending <- s4, computing <- s5, used <- s6, typed <- s7, updates <- s8
M == INSTANCE Maintenance WITH minute <- s1, auto <- s2, interval <- s3, reloaded <-
     s4, triggers <- s5, task <- s6, woken <- s7, fetch <- s8, asked <- s9,
     campaigns <- s10, served <- s11, interrupted <- s12, hour <- s13
D == INSTANCE DropIgnoreCache WITH graph <- s1, matching <- s2, cache <- s3, asked
     <- s4, changes <- s5
Q == INSTANCE Requests WITH total <- s1, concurrent <- s2, resetting <- s3, queue <-
     s4, pc <- s5, retried <- s6, exit <- s7
V == INSTANCE WatchRequest WITH stream <- s1, wanted <- s2, held <- s3, pc <- s4,
     list <- s5, todo <- s6, ok <- s7, seen <- s8, seenOf <- s9, told <- s10, loaded
     <- s11, rejected <- s12, again <- s13
E == INSTANCE Selection WITH Games <- Listable, Types <- Rewards, Campaigns <- Offered,
     MaxCampaigns <- MaxOffered, settings <- s1, order <- s2, inventory <- s3, wanted
     <- s4
N == INSTANCE NativeBrowser WITH stage <- s1, cut <- s2, live <- s3, process <- s4,
     clean <- s5, profile <- s6, port <- s7, closing <- s8, failure <- s9, unclean
     <- s10, sent <- s11, said <- s12, interrupts <- s13
T == INSTANCE DevTools WITH asked <- s1, page <- s2, wire <- s3, pipe <- s4,
     registered <- s5, queue <- s6, reader <- s7, commands <- s8, events <- s9,
     heard <- s10, target <- s11
A == INSTANCE Bans WITH time <- s1, search <- s2, found <- s3, left <- s4, watched
     <- s5, kept <- s6, bans <- s7, timer <- s8, requested <- s9, tracked <- s10,
     refused <- s11, told <- s12

ASSUME ServicesAssumption ==
    /\ L!ConstantsOK
    /\ H!ConstantsOK
    /\ B!ConstantsOK
    /\ I!ConstantsOK
    /\ W!ConstantsOK
    /\ S!ConstantsOK
    /\ M!ConstantsOK
    /\ D!ConstantsOK
    /\ Q!ConstantsOK
    /\ V!ConstantsOK
    /\ E!ConstantsOK
    /\ T!ConstantsOK
    /\ A!ConstantsOK

Init ==
    \/ which = "logins" /\ L!Init
    \/ which = "helper" /\ H!Init /\ s6 = "-" /\ s7 = "-" /\ s8 = "-" /\ s9 = "-"
       /\ s10 = "-" /\ s11 = "-" /\ s12 = "-" /\ s13 = "-"
    \/ which = "browser" /\ B!Init /\ s9 = "-" /\ s10 = "-" /\ s11 = "-"
       /\ s12 = "-" /\ s13 = "-"
    \/ which = "issuance" /\ I!Init /\ s11 = "-" /\ s12 = "-" /\ s13 = "-"
    \/ which = "dashboard" /\ W!Init /\ s8 = "-" /\ s9 = "-" /\ s10 = "-"
       /\ s11 = "-" /\ s12 = "-" /\ s13 = "-"
    \/ which = "settings" /\ S!Init /\ s9 = "-" /\ s10 = "-" /\ s11 = "-" /\ s12 = "-"
       /\ s13 = "-"
    \/ which = "maintenance" /\ M!Init
    \/ which = "ignored" /\ D!Init /\ s6 = "-" /\ s7 = "-" /\ s8 = "-" /\ s9 = "-"
       /\ s10 = "-" /\ s11 = "-" /\ s12 = "-" /\ s13 = "-"
    \/ which = "requests" /\ Q!Init /\ s8 = "-" /\ s9 = "-" /\ s10 = "-"
       /\ s11 = "-" /\ s12 = "-" /\ s13 = "-"
    \/ which = "watching" /\ V!Init
    \/ which = "selection" /\ E!Init /\ s5 = "-" /\ s6 = "-" /\ s7 = "-" /\ s8 = "-"
       /\ s9 = "-" /\ s10 = "-" /\ s11 = "-" /\ s12 = "-" /\ s13 = "-"
    \/ which = "native" /\ N!Init
    \/ which = "devtools" /\ T!Init /\ s12 = "-" /\ s13 = "-"
    \/ which = "bans" /\ A!Init /\ s13 = "-"

Next ==
    \/ which = "logins" /\ L!Next /\ UNCHANGED <<which>>
    \/ which = "helper" /\ H!Next /\ UNCHANGED <<which, s6, s7, s8, s9, s10, s11,
       s12, s13>>
    \/ which = "browser" /\ B!Next /\ UNCHANGED <<which, s9, s10, s11, s12, s13>>
    \/ which = "issuance" /\ I!Next /\ UNCHANGED <<which, s11, s12, s13>>
    \/ which = "dashboard" /\ W!Next /\ UNCHANGED <<which, s8, s9, s10, s11, s12,
       s13>>
    \/ which = "settings" /\ S!Next /\ UNCHANGED <<which, s9, s10, s11, s12, s13>>
    \/ which = "maintenance" /\ M!Next /\ UNCHANGED <<which>>
    \/ which = "ignored" /\ D!Next /\ UNCHANGED <<which, s6, s7, s8, s9, s10, s11,
       s12, s13>>
    \/ which = "requests" /\ Q!Next /\ UNCHANGED <<which, s8, s9, s10, s11, s12,
       s13>>
    \/ which = "watching" /\ V!Next /\ UNCHANGED <<which>>
    \/ which = "selection" /\ E!Next /\ UNCHANGED <<which, s5, s6, s7, s8, s9, s10,
       s11, s12, s13>>
    \/ which = "native" /\ N!Next /\ UNCHANGED <<which>>
    \/ which = "devtools" /\ T!Next /\ UNCHANGED <<which, s12, s13>>
    \/ which = "bans" /\ A!Next /\ UNCHANGED <<which, s13>>

Spec == Init /\ [][Next]_all

\* Logins: While there is no session and nobody is working on one, a login can be
\* asked for.
LoginOffered == which = "logins" => L!LoginOffered

\* Logins: What the dashboard shows of a container login is what the login does.
StatusIsTrue == which = "logins" => L!StatusIsTrue

\* Logins: A login that another one replaced never installs its session.
ReplacedNeverInstalls ==
    [][which = "logins" => L!OnlyTheLatestInstalls]_all

\* HelperDelivery: A helper only reports a session installed that was, and one
\* failed that was not.
ReportsAreTrue == which = "helper" => H!ReportsAreTrue

\* LoginBrowser: A login that is over, of the miner or of the helper, leaves no
\* process, display or directory behind.
NothingOutlivesTheRun ==
    /\ which = "browser" => B!NothingOutlivesTheRun
    /\ which = "native" => N!NothingOutlivesTheHelper

\* Issuance: What is taken as proof was issued by Twitch to this page, and is still
\* its proof.
ProofIsIssued == which = "issuance" => I!ProofIsIssued

\* WebAuth: An open socket of the dashboard is allowed by the policy that is in
\* force.
OpenSocketsFollow == which = "dashboard" => W!OpenSocketsFollow

\* SettingsManager: What the program runs with is what the settings say, in memory
\* and on disk.
SettingsInForce == which = "settings" => S!SettingsInForce

\* Maintenance: A campaign that starts or ends is followed by a reload or a cleanup.
BoundariesAreServed == which = "maintenance" => M!BoundariesAreServed

\* Maintenance: The same of every start within an hour of the fetch.  It does not hold.
TheWholeHourIsServed == which = "maintenance" => M!TheWholeHourIsServed

\* DropIgnoreCache: A drop is mined when it leads to a reward that is not ignored.
MinesWhatLeadsToRewards == which = "ignored" => D!MinesWhatLeadsToRewards

\* Requests: Nobody waits for a place of the limiter while one is free.
NoPlaceIsWasted == which = "requests" => Q!NoPlaceIsWasted

\* WatchRequest: A minute that counts as watched was asked of the broadcast that is
\* on.
WatchingIsReal == which = "watching" => V!WatchingIsReal

\* Selection: What the queue shows first is what is mined first.
QueueIsMined == which = "selection" => E!QueueIsMined

\* DevTools: A command is answered with its own answer, and the end of a connection
\* reaches everyone.
AnswersAreTheirOwn == which = "devtools" => T!AnswersAreTheirOwn

\* Bans: A ban holds for every object of its channel until it ends, which is
\* noticed.
BansHoldUntilTheyEnd == which = "bans" => A!BansHoldUntilTheyEnd
==============================================================================
