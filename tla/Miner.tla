------------------------------- MODULE Miner -------------------------------
(***************************************************************************)
(* The mining state machine of core/client.py: the `_run` loop and the     *)
(* requests that drive it, the `_mining_schedule_loop` that enforces pause *)
(* and mining hours, the part of the watch loop that stops watching, and   *)
(* the authentication change that cancels and restarts them all.           *)
(*                                                                         *)
(* Everything runs on one asyncio event loop.  A task runs from one await  *)
(* to the next without interruption, so an action of this module is (a     *)
(* piece of) such a segment, and while the `_run` task is inside a segment *)
(* of several pieces (Running) no other task moves.                        *)
(***************************************************************************)
EXTENDS Naturals, FiniteSets

CONSTANTS
    Channel,      \* the Channel objects
    Id,           \* their ids: two objects of one channel are equal (==)
    NoChannel,    \* "no channel": an AwaitableValue or attribute without value
    Rank,         \* mining priority of an object, lower is better
    Game,         \* the game its stream has
    RandomDelay,  \* is the randomized switch delay configured?
    FastToggle,   \* may pause or the window flip before the schedule loop ran?
    Events        \* the disturbances of this instance, a subset of EventKinds

EventKinds == {"select", "settings", "reload", "clear", "pause", "window",
               "stream", "claim", "estimate", "maintenance", "auth", "fail", "close"}

ASSUME ChannelAssumption == NoChannel \notin Channel
ASSUME IdAssumption      == /\ DOMAIN Id = Channel
                            /\ \A c \in Channel : Id[c] # NoChannel
ASSUME RankAssumption    == Rank \in [Channel -> Nat]
ASSUME GameAssumption    == DOMAIN Game = Channel
ASSUME FlagAssumption    == RandomDelay \in BOOLEAN /\ FastToggle \in BOOLEAN
ASSUME EventAssumption   == Events \subseteq EventKinds

States == {"IDLE", "INVENTORY_FETCH", "GAMES_UPDATE", "CHANNELS_CLEANUP",
           "CHANNELS_FETCH", "CHANNEL_SWITCH", "EXIT"}

MaybeChannel == Channel \cup {NoChannel}
MaybeId      == {Id[c] : c \in Channel} \cup {NoChannel}

VARIABLES
    state,       \* _state
    change,      \* _state_change.is_set()
    refresh,     \* _inventory_refresh_pending
    update,      \* _games_update_pending
    clearCache,  \* _clear_cache_pending
    loaded,      \* _inventory_loaded
    main,        \* where the _run task is
    target,      \* _run's new_watching while it sleeps the switch delay
    kept,        \* _run's new_channels while CHANNELS_FETCH gathers
    fullCleanup, \* _run's full_cleanup
    wanted,      \* is wanted_games not empty?
    mnt,         \* is the maintenance task alive?
    paused,      \* _paused
    inWindow,    \* is the wall clock inside the mining window?
    sched,       \* where the _mining_schedule_loop task is
    signal,      \* _schedule_changed.is_set()
    wasOpen,     \* the schedule loop's was_open
    watcher,     \* is there a _watching_task?
    watching,    \* watching_channel
    tracked,     \* the objects in the channels dict
    ready,       \* the objects WatchService.can_watch accepts
    checking,    \* the objects with an online check under way
    selection,   \* the id of the dashboard's selected channel
    manual,      \* _manual_target_channel
    changing     \* inside authentication_change?

control  == <<state, change, refresh, update, clearCache, loaded>>
locals   == <<target, kept, fullCleanup>>
clock    == <<paused, inWindow>>
schedule == <<sched, signal, wasOpen, watcher>>
channels == <<tracked, ready, checking>>
user     == <<selection, manual>>
vars == <<control, main, locals, wanted, mnt, clock, schedule, watching,
          channels, user, changing>>

-----------------------------------------------------------------------------
(* Where the tasks can be suspended, and the pieces of _run's segments.    *)

Awaits  == {"inventory", "claims", "gather"}
Sockets == {"connect", "reconnect"}    \* websocket.start(), which has no limit
Running == main \in {"head", "step", "tail"}
Ended   == main \in {"done", "stopped"}

MainPlaces  == Awaits \cup Sockets
                 \cup {"off", "start", "head", "step", "tail", "delay", "wait",
                       "done", "stopped"}
SchedPlaces == {"off", "first", "drain", "wait"}

(* is_mining_time *)
Open == ~paused /\ inWindow

(* Is c an object of the channel that is watched?  (==, that is, by id)    *)
SameChannel(c, d) == d # NoChannel /\ Id[c] = Id[d]

IsWatched(c) == SameChannel(c, watching)

(* can_watch and should_switch, once `ready` has the given value           *)
CanWatch(c, ok) == Open /\ c \in ok

ShouldSwitchByRank(c, ok) ==   \* mutant: forgets that the watched channel died
    watching = NoChannel \/ Rank[c] < Rank[watching]

ShouldSwitch(c, ok) ==
    \/ watching = NoChannel
    \/ ~CanWatch(watching, ok)
    \/ Rank[c] < Rank[watching]

(* watch: the channel watched once c is to be watched                      *)
WatchAnyway(c) == c            \* mutant: no look at the mining time

Watch(c) == IF Open THEN c ELSE watching

(* The schedule loop has seen the present mining time, or is not there.    *)
Settled == \/ sched = "off"
           \/ sched = "wait" /\ ~signal /\ wasOpen = Open

Quiet == ~Running /\ main # "stopped"

-----------------------------------------------------------------------------
(* Requests any task can make                                              *)

ChangeStateAlways(s) ==        \* mutant: EXIT can be overwritten
    state' = s /\ change' = TRUE

ChangeState(s) ==
    /\ state' = IF state = "EXIT" THEN state ELSE s
    /\ change' = TRUE

RequestGamesUpdate ==
    IF state = "EXIT"
    THEN UNCHANGED <<update, signal, change>>
    ELSE update' = TRUE /\ signal' = TRUE /\ change' = TRUE

RequestSilently(clear) ==      \* mutant: the loop is not woken
    IF state = "EXIT" THEN UNCHANGED <<refresh, clearCache, change>>
    ELSE refresh' = TRUE /\ clearCache' = (clearCache \/ clear) /\ UNCHANGED change

RequestInventoryRefresh(clear) ==
    IF state = "EXIT"
    THEN UNCHANGED <<refresh, clearCache, change>>
    ELSE /\ refresh' = TRUE
         /\ clearCache' = (clearCache \/ clear)
         /\ change' = TRUE

(* _activate_pending_inventory_refresh, then _activate_pending_games_update *)
ActivatedRefresh == refresh /\ state # "EXIT" /\ Open
ActivatedUpdate  == /\ update /\ loaded /\ Open
                    /\ ~ActivatedRefresh
                    /\ state \notin {"INVENTORY_FETCH", "EXIT"}
ActivatedState == IF ActivatedRefresh THEN "INVENTORY_FETCH"
                  ELSE IF ActivatedUpdate THEN "GAMES_UPDATE" ELSE state

NeverActivated == FALSE        \* mutant: activation does not set the event

Activated == ActivatedRefresh \/ ActivatedUpdate

-----------------------------------------------------------------------------
Init ==
    /\ state = "IDLE" /\ change = FALSE
    /\ refresh = FALSE /\ update = FALSE /\ clearCache = FALSE
    /\ loaded = FALSE
    /\ main = "off" /\ target = NoChannel /\ kept = {} /\ fullCleanup = FALSE
    /\ wanted = FALSE /\ mnt = FALSE
    /\ paused = FALSE /\ inWindow \in BOOLEAN
    /\ sched = "off" /\ signal = FALSE /\ wasOpen = FALSE /\ watcher = FALSE
    /\ watching = NoChannel
    /\ tracked = {} /\ ready = {} /\ checking = {}
    /\ selection = NoChannel /\ manual = NoChannel
    /\ changing = FALSE

-----------------------------------------------------------------------------
(* The _run task                                                           *)

(* run() leaves its wait on _resume_mining and creates the task, or leaves *)
(* its loop because the miner is exiting.                                  *)
RunBeginsEarly ==              \* mutant: does not wait for _resume_mining
    /\ main = "off"
    /\ main' = IF state = "EXIT" THEN "done" ELSE "start"
    /\ fullCleanup' = FALSE
    /\ UNCHANGED <<control, target, kept, wanted, mnt, clock, schedule,
                   watching, channels, user, changing>>

RunBegins ==
    /\ main = "off"
    /\ ~changing \/ state = "EXIT"
    /\ main' = IF state = "EXIT" THEN "done" ELSE "start"
    /\ fullCleanup' = FALSE
    /\ UNCHANGED <<control, target, kept, wanted, mnt, clock, schedule,
                   watching, channels, user, changing>>

(* Logged in: wait for the sockets of an earlier run to connect.           *)
RunAuthorized ==
    /\ main = "start"
    /\ main' = "connect"
    /\ UNCHANGED <<control, locals, wanted, mnt, clock, schedule, watching,
                   channels, user, changing>>

(* Connected: create the watch and schedule tasks and ask for the          *)
(* inventory.                                                              *)
RunStarted ==
    /\ main = "connect"
    /\ watcher' = Open
    /\ sched' = "first"
    /\ RequestInventoryRefresh(FALSE)
    /\ main' = "head"
    /\ UNCHANGED <<state, update, loaded, locals, wanted, mnt, clock, signal,
                   wasOpen, watching, channels, user, changing>>

(* Waiting for the login, or a request, raises ExitRequest on shutdown; a  *)
(* request that fails for good raises too and ends the program.            *)
RunRaises ==
    /\ main \in Awaits \cup {"start"}
    /\ state = "EXIT" \/ "fail" \in Events
    /\ main' = "done"
    /\ target' = NoChannel /\ kept' = {}
    /\ UNCHANGED <<control, fullCleanup, wanted, mnt, clock, schedule,
                   watching, channels, user, changing>>

(* The head of the loop: serve pending requests, and close if it is not    *)
(* mining time.                                                            *)
LoopHead ==
    /\ main = "head"
    /\ main' = "step"
    /\ LET closing == ActivatedState \notin {"EXIT", "IDLE"} /\ ~Open IN
       /\ state' = IF closing THEN "IDLE" ELSE ActivatedState
       /\ change' = (change \/ Activated \/ closing)
       /\ watching' = IF closing THEN NoChannel ELSE watching
    /\ UNCHANGED <<refresh, update, clearCache, loaded, locals, wanted, mnt,
                   clock, schedule, channels, user, changing>>

(* The foot of the loop: serve pending requests again, then wait for       *)
(* _state_change, which returns at once when it is set.                    *)
LoopTail ==
    /\ main = "tail"
    /\ state' = ActivatedState
    /\ change' = (change \/ Activated)
    /\ main' = IF change \/ Activated THEN "head" ELSE "wait"
    /\ UNCHANGED <<refresh, update, clearCache, loaded, locals, wanted, mnt,
                   clock, schedule, watching, channels, user, changing>>

LoopWakes ==
    /\ main = "wait"
    /\ change
    /\ main' = "head"
    /\ UNCHANGED <<control, locals, wanted, mnt, clock, schedule, watching,
                   channels, user, changing>>

StepIdle ==
    /\ main = "step" /\ state = "IDLE"
    /\ watching' = NoChannel
    /\ change' = FALSE
    /\ main' = "tail"
    /\ UNCHANGED <<state, refresh, update, clearCache, loaded, locals, wanted,
                   mnt, clock, schedule, channels, user, changing>>

(* INVENTORY_FETCH up to its first await, with clear_cached_state.         *)
StepInventoryFetch ==
    /\ main = "step" /\ state = "INVENTORY_FETCH"
    /\ refresh' = FALSE
    /\ clearCache' = FALSE
    /\ main' = "reconnect"
    /\ IF clearCache
       THEN /\ watching' = NoChannel
            /\ tracked' = {} /\ ready' = {}
            /\ selection' = NoChannel /\ manual' = NoChannel
            /\ wanted' = FALSE
            /\ mnt' = FALSE
       ELSE UNCHANGED <<watching, tracked, ready, user, wanted, mnt>>
    /\ UNCHANGED <<state, change, update, loaded, locals, clock, schedule,
                   checking, changing>>

(* All sockets are connected.                                              *)
SocketsReady ==
    /\ main = "reconnect"
    /\ main' = "inventory"
    /\ UNCHANGED <<control, locals, wanted, mnt, clock, schedule, watching,
                   channels, user, changing>>

InventoryFetchedOnly ==        \* mutant: does not restart maintenance
    /\ main = "inventory"
    /\ loaded' = TRUE
    /\ ChangeState("GAMES_UPDATE")
    /\ main' = "tail"
    /\ UNCHANGED <<refresh, update, clearCache, locals, wanted, mnt, clock,
                   schedule, watching, channels, user, changing>>

InventoryFetched ==
    /\ main = "inventory"
    /\ mnt' = TRUE
    /\ loaded' = TRUE
    /\ ChangeState("GAMES_UPDATE")
    /\ main' = "tail"
    /\ UNCHANGED <<refresh, update, clearCache, locals, wanted, clock,
                   schedule, watching, channels, user, changing>>

(* GAMES_UPDATE up to the claims of earned drops.                          *)
StepGamesUpdate ==
    /\ main = "step" /\ state = "GAMES_UPDATE"
    /\ update' = FALSE
    /\ main' = "claims"
    /\ UNCHANGED <<state, change, refresh, clearCache, loaded, locals, wanted,
                   mnt, clock, schedule, watching, channels, user, changing>>

(* The rest of GAMES_UPDATE: the inventory decides which games are wanted, *)
(* hence which channels can be watched, and whether manual mode goes on.   *)
GamesUpdated ==
    /\ main = "claims"
    /\ wanted' \in BOOLEAN
    /\ ready' \in IF wanted' THEN SUBSET Channel ELSE {{}}
    /\ manual' \in {manual, NoChannel}
    /\ fullCleanup' = TRUE
    /\ ChangeState("CHANNELS_CLEANUP")
    /\ main' = "tail"
    /\ UNCHANGED <<refresh, update, clearCache, loaded, target, kept, mnt,
                   clock, schedule, watching, tracked, checking, selection,
                   changing>>

(* CHANNELS_CLEANUP drops everything after GAMES_UPDATE; otherwise it drops *)
(* channels that are offline or stream an unwanted game.                   *)
StepChannelsCleanup ==
    /\ main = "step" /\ state = "CHANNELS_CLEANUP"
    /\ IF fullCleanup \/ ~wanted
       THEN tracked' = {}
       ELSE \E removed \in SUBSET (tracked \ ready) :
                tracked' = tracked \ removed
    /\ fullCleanup' = FALSE
    /\ ChangeState(IF wanted THEN "CHANNELS_FETCH" ELSE "IDLE")
    /\ main' = "tail"
    /\ UNCHANGED <<refresh, update, clearCache, loaded, target, kept, wanted,
                   mnt, clock, schedule, watching, ready, checking, user,
                   changing>>

(* CHANNELS_FETCH up to its awaits: the dict is emptied first.             *)
StepChannelsFetch ==
    /\ main = "step" /\ state = "CHANNELS_FETCH"
    /\ kept' = tracked
    /\ tracked' = {}
    /\ main' = "gather"
    /\ UNCHANGED <<control, target, fullCleanup, wanted, mnt, clock, schedule,
                   watching, ready, checking, user, changing>>

(* What Twitch may list: objects made for this fetch, or by the campaigns  *)
(* for their own channels, which live as long as the inventory, one for    *)
(* each channel; an object that was kept stays instead.                    *)
Listings ==
    {listed \in SUBSET (Channel \ kept) :
        \A c \in listed, d \in listed \cup kept : Id[c] = Id[d] => c = d}

(* The watched object is replaced by the tracked one of its channel only   *)
(* if that can be watched; otherwise the object watched before stays.      *)
Relinked(there, ok) ==
    LET able == {c \in there : IsWatched(c) /\ CanWatch(c, ok)} IN
    IF able = {} THEN {watching} ELSE able

(* Besides those listed and kept, Twitch is asked about the watched and    *)
(* the manual one.  Those banned are taken out, with their checks if still *)
(* in the delay; `live` can be watched now.                                *)
ChannelsFetched ==
    /\ main = "gather"
    /\ \E listed \in Listings :
          LET retained == {watching, manual} \ {NoChannel} IN
          \E live \in SUBSET (listed \cup retained),
             banned \in SUBSET (kept \cup listed \cup retained) :
             /\ tracked' = (kept \cup listed) \ banned
             /\ ready' = ((ready \ listed) \cup live) \ banned
             /\ \E cancelled \in SUBSET (checking \cap banned) :
                   checking' = checking \ cancelled
    /\ watching' \in Relinked(tracked', ready')
    /\ kept' = {}
    /\ ChangeState("CHANNEL_SWITCH")
    /\ main' = "tail"
    /\ UNCHANGED <<refresh, update, clearCache, loaded, target, fullCleanup,
                   wanted, mnt, clock, schedule, user, changing>>

-----------------------------------------------------------------------------
(* CHANNEL_SWITCH.  get_selection looks the selected id up among the       *)
(* tracked channels and clears it.                                         *)

SameGame(c, d) == Game[c] = Game[d]

Selected == {c \in tracked : Id[c] = selection /\ CanWatch(c, ready)}

(* Watch c: at once, or after the random delay with _state_change as it is. *)
SwitchTo(c) ==
    /\ IF RandomDelay /\ ~IsWatched(c)
       THEN /\ main' = "delay"
            /\ target' = c
            /\ UNCHANGED <<watching, change>>
       ELSE /\ main' = "tail"
            /\ watching' = Watch(c)
            /\ change' = FALSE
            /\ UNCHANGED target
    /\ UNCHANGED state

(* No channel was picked: keep the present one, or nothing can be watched. *)
KeepOrIdle ==
    /\ main' = "tail"
    /\ IF watching # NoChannel /\ CanWatch(watching, ready)
       THEN change' = FALSE /\ UNCHANGED state
       ELSE ChangeState("IDLE")
    /\ UNCHANGED <<watching, target>>

(* The user's selection enters manual mode when it changes the game; a     *)
(* channel that went offline has no game.                                  *)
SwitchToSelected ==
    \E c \in Selected :
        /\ manual' \in
             IF watching = NoChannel THEN {manual}
             ELSE IF ~SameGame(c, watching) THEN {c}
             ELSE IF watching \in ready THEN {manual}
             ELSE {manual, c}
        /\ SwitchTo(c)

(* Manual mode stays on its channel, else on another one of the same game. *)
SwitchInManualMode ==
    /\ Selected = {}
    /\ manual # NoChannel
    /\ \E c \in IF CanWatch(manual, ready) THEN {manual}
                ELSE {d \in tracked : SameGame(d, manual) /\ CanWatch(d, ready)} :
          manual' = c /\ SwitchTo(c)

(* exit_manual_mode asks for CHANNEL_SWITCH again, and the end of the step *)
(* then clears or replaces that request.                                   *)
ManualModeEnds ==
    /\ Selected = {}
    /\ manual # NoChannel
    /\ ~CanWatch(manual, ready)
    /\ \A c \in tracked : SameGame(c, manual) => ~CanWatch(c, ready)
    /\ manual' = NoChannel
    /\ KeepOrIdle

SwitchByPriority ==
    /\ Selected = {}
    /\ manual = NoChannel
    /\ UNCHANGED manual
    /\ LET able == {c \in tracked : CanWatch(c, ready) /\ ShouldSwitch(c, ready)} IN
       IF able = {} THEN KeepOrIdle
       ELSE \E c \in able : (\A d \in able : Rank[c] <= Rank[d]) /\ SwitchTo(c)

StepChannelSwitch ==
    /\ main = "step" /\ state = "CHANNEL_SWITCH"
    /\ selection' = NoChannel
    /\ \/ SwitchToSelected
       \/ SwitchInManualMode
       \/ ManualModeEnds
       \/ SwitchByPriority
    /\ UNCHANGED <<refresh, update, clearCache, loaded, kept, fullCleanup,
                   wanted, mnt, clock, schedule, channels, changing>>

(* The delay is over: watch the channel picked before it, if mining is     *)
(* allowed, and clear _state_change.                                       *)
DelayElapsed ==
    /\ main = "delay"
    /\ watching' = Watch(target)
    /\ target' = NoChannel
    /\ change' = FALSE
    /\ main' = "tail"
    /\ UNCHANGED <<state, refresh, update, clearCache, loaded, kept,
                   fullCleanup, wanted, mnt, clock, schedule, channels, user,
                   changing>>

StepExit ==
    /\ main = "step" /\ state = "EXIT"
    /\ main' = "done"
    /\ UNCHANGED <<control, locals, wanted, mnt, clock, schedule, watching,
                   channels, user, changing>>

(* run() ended: its finally clause and shutdown() stop what is left.       *)
Shutdown ==
    /\ main = "done"
    /\ main' = "stopped"
    /\ sched' = "off" /\ watcher' = FALSE /\ mnt' = FALSE
    /\ watching' = NoChannel
    /\ tracked' = {} /\ checking' = {}
    /\ wanted' = FALSE /\ ready' = {}
    /\ UNCHANGED <<control, locals, clock, signal, wasOpen, user, changing>>

MainStep ==
    \/ LoopHead \/ LoopTail \/ LoopWakes
    \/ StepIdle \/ StepInventoryFetch \/ StepGamesUpdate
    \/ StepChannelsCleanup \/ StepChannelsFetch \/ StepChannelSwitch
    \/ StepExit

MainResumes ==
    \/ InventoryFetched \/ GamesUpdated \/ ChannelsFetched \/ DelayElapsed

-----------------------------------------------------------------------------
(* The schedule task                                                       *)

(* What reopening asks for                                                 *)
ReopenedQuietly(was) ==        \* mutant: the stale inventory is used on
    UNCHANGED <<refresh, clearCache, change>>

Reopened(was) ==
    IF was THEN UNCHANGED <<refresh, clearCache, change>>
    ELSE RequestInventoryRefresh(FALSE)

(* One iteration of _mining_schedule_loop with was_open = was, up to its   *)
(* wait, or to the await that drains the cancelled watch task.  A timed    *)
(* pause that has run out is lifted first.                                 *)
Iterate(was) ==
    IF state = "EXIT"
    THEN sched' = "off" /\ UNCHANGED <<control, paused, signal, wasOpen,
                                       watcher, watching>>
    ELSE /\ paused' \in {p \in BOOLEAN : p => paused}
         /\ paused' # paused => "pause" \in Events /\ (FastToggle \/ ~was)
         /\ signal' = FALSE
         /\ IF ~paused' /\ inWindow
            THEN /\ watcher' = TRUE
                 /\ wasOpen' = TRUE
                 /\ sched' = "wait"
                 /\ Reopened(was)
                 /\ UNCHANGED <<state, update, loaded, watching>>
            ELSE /\ watching' = NoChannel
                 /\ watcher' = FALSE
                 /\ IF watcher
                    THEN /\ sched' = "drain"
                         /\ wasOpen' = was
                         /\ UNCHANGED <<state, change>>
                    ELSE /\ sched' = "wait"
                         /\ wasOpen' = FALSE
                         /\ IF was THEN ChangeState("IDLE")
                            ELSE UNCHANGED <<state, change>>
                 /\ UNCHANGED <<refresh, update, clearCache, loaded>>

ScheduleStarts ==
    /\ sched = "first" /\ Quiet
    /\ Iterate(Open)
    /\ UNCHANGED <<main, locals, wanted, mnt, inWindow, channels, user,
                   changing>>

(* The wait ends by _schedule_changed or by its timeout of at most 60 s.   *)
ScheduleIterates ==
    /\ sched = "wait" /\ Quiet
    /\ Iterate(wasOpen)
    /\ UNCHANGED <<main, locals, wanted, mnt, inWindow, channels, user,
                   changing>>

ScheduleDrained ==
    /\ sched = "drain" /\ Quiet
    /\ sched' = "wait"
    /\ wasOpen' = FALSE
    /\ IF wasOpen THEN ChangeState("IDLE") ELSE UNCHANGED <<state, change>>
    /\ UNCHANGED <<refresh, update, clearCache, loaded, main, locals, wanted,
                   mnt, clock, signal, watcher, watching, channels, user,
                   changing>>

ScheduleStep == ScheduleStarts \/ ScheduleIterates \/ ScheduleDrained

(* watch_loop gives up a channel that is not online any more.              *)
WatchLoopStops ==
    /\ watcher /\ Quiet
    /\ watching # NoChannel
    /\ ~Open \/ watching \notin ready
    /\ watching' = NoChannel
    /\ UNCHANGED <<control, main, locals, wanted, mnt, clock, schedule,
                   channels, user, changing>>

-----------------------------------------------------------------------------
(* Stream messages.  on_channel_update is what they lead to.               *)

(* stream-up, a changed broadcast or a view count of an offline channel:   *)
(* check_online starts a delayed check.                                    *)
StreamChanges(c) ==
    /\ "stream" \in Events /\ Quiet
    /\ c \in tracked \ checking
    /\ checking' = checking \cup {c}
    /\ UNCHANGED <<control, main, locals, wanted, mnt, clock, schedule,
                   watching, tracked, ready, user, changing>>

(* The check found a watchable stream; the object need not be tracked any  *)
(* more.  One that was online already does not replace an object of its    *)
(* own channel.                                                            *)
CheckFindsStream(c) ==
    /\ c \in checking /\ Quiet
    /\ wanted
    /\ checking' = checking \ {c}
    /\ ready' = ready \cup {c}
    /\ watching' \in IF CanWatch(c, ready') /\ ShouldSwitch(c, ready')
                    THEN {Watch(c)} \cup {d \in {watching} : IsWatched(c)}
                    ELSE {watching}
    /\ UNCHANGED <<control, main, locals, wanted, mnt, clock, schedule,
                   tracked, user, changing>>

(* The object is offline or not worth watching: by its check, or by a      *)
(* stream-down message, which finds the tracked object only and cancels a  *)
(* check that is still in its delay.                                       *)
ChannelLost(c) ==
    /\ Quiet
    /\ \/ c \in checking /\ checking' = checking \ {c}
       \/ c \in tracked /\ "stream" \in Events /\ checking' \in {checking, checking \ {c}}
    /\ ready' = ready \ {c}
    /\ IF ~IsWatched(c) THEN UNCHANGED <<state, change>>
       ELSE \/ ChangeState("CHANNEL_SWITCH")
            \/ c \notin ready /\ UNCHANGED <<state, change>>
    /\ UNCHANGED <<refresh, update, clearCache, loaded, main, locals, wanted,
                   mnt, clock, schedule, watching, tracked, user, changing>>

(* A claim ended what could be earned on some channels.                    *)
DropClaimed ==
    /\ "claim" \in Events /\ Quiet /\ loaded
    /\ \E earned \in (SUBSET ready) \ {{}} : ready' = ready \ earned
    /\ RequestGamesUpdate
    /\ UNCHANGED <<state, refresh, clearCache, loaded, main, locals, wanted,
                   mnt, clock, sched, wasOpen, watcher, watching, tracked,
                   checking, user, changing>>

(* watch_loop estimated so many minutes that bump_minutes gives up on a    *)
(* campaign, for whatever object it was earned on.                         *)
EstimateSpentSilently ==       \* mutant: nobody is told
    /\ "estimate" \in Events /\ Quiet /\ watcher
    /\ watching \in ready
    /\ \E spent \in SUBSET ready : watching \in spent /\ ready' = ready \ spent
    /\ UNCHANGED <<control, main, locals, wanted, mnt, clock, schedule,
                   watching, tracked, checking, user, changing>>

EstimateSpent ==
    /\ "estimate" \in Events /\ Quiet /\ watcher
    /\ watching \in ready
    /\ \E spent \in SUBSET ready : watching \in spent /\ ready' = ready \ spent
    /\ ChangeState("CHANNEL_SWITCH")
    /\ UNCHANGED <<refresh, update, clearCache, loaded, main, locals, wanted,
                   mnt, clock, schedule, watching, tracked, checking, user,
                   changing>>

-----------------------------------------------------------------------------
(* The dashboard, the clock and the maintenance task                       *)

SelectChannel(c) ==
    /\ "select" \in Events /\ Quiet
    /\ c \in tracked
    /\ selection' = Id[c]
    /\ ChangeState("CHANNEL_SWITCH")
    /\ UNCHANGED <<refresh, update, clearCache, loaded, main, locals, wanted,
                   mnt, clock, schedule, watching, channels, manual, changing>>

ExitManualMode ==
    /\ "select" \in Events /\ Quiet
    /\ manual # NoChannel
    /\ manual' = NoChannel
    /\ ChangeState("CHANNEL_SWITCH")
    /\ UNCHANGED <<refresh, update, clearCache, loaded, main, locals, wanted,
                   mnt, clock, schedule, watching, channels, selection,
                   changing>>

(* Saved settings, a new game order, an expired ban.                       *)
SettingsChanged ==
    /\ "settings" \in Events /\ Quiet
    /\ RequestGamesUpdate
    /\ UNCHANGED <<state, refresh, clearCache, loaded, main, locals, wanted,
                   mnt, clock, sched, wasOpen, watcher, watching, channels,
                   user, changing>>

(* The dashboard's reload and cache clearing, and Twitch's reminders.      *)
Reload(clear) ==
    /\ (IF clear THEN "clear" ELSE "reload") \in Events /\ Quiet
    /\ RequestInventoryRefresh(clear)
    /\ UNCHANGED <<state, update, loaded, main, locals, wanted, mnt, clock,
                   schedule, watching, channels, user, changing>>

SetPaused ==
    /\ "pause" \in Events /\ Quiet
    /\ FastToggle \/ Settled
    /\ paused' = ~paused
    /\ signal' = TRUE
    /\ UNCHANGED <<control, main, locals, wanted, mnt, inWindow, sched, wasOpen,
                   watcher, watching, channels, user, changing>>

(* The wall clock reaches a boundary of the mining hours.                  *)
WindowBoundary ==
    /\ "window" \in Events /\ Quiet
    /\ FastToggle \/ Settled
    /\ inWindow' = ~inWindow
    /\ UNCHANGED <<control, main, locals, wanted, mnt, paused, schedule,
                   watching, channels, user, changing>>

MaintenanceCleanup ==
    /\ "maintenance" \in Events /\ Quiet /\ mnt
    /\ ChangeState("CHANNELS_CLEANUP")
    /\ UNCHANGED <<refresh, update, clearCache, loaded, main, locals, wanted,
                   mnt, clock, schedule, watching, channels, user, changing>>

(* The periodic reload: the maintenance task requests it and ends.         *)
MaintenanceReload ==
    /\ "maintenance" \in Events /\ Quiet /\ mnt
    /\ mnt' = FALSE
    /\ RequestInventoryRefresh(FALSE)
    /\ UNCHANGED <<state, update, loaded, main, locals, wanted, clock,
                   schedule, watching, channels, user, changing>>

-----------------------------------------------------------------------------
(* Authentication changes and shutdown                                     *)

(* authentication_change: every task is cancelled.                         *)
AuthBegins ==
    /\ "auth" \in Events /\ Quiet /\ ~Ended
    /\ ~changing
    /\ changing' = TRUE
    /\ main' = "off"
    /\ target' = NoChannel /\ kept' = {}
    /\ sched' = "off" /\ watcher' = FALSE /\ mnt' = FALSE
    /\ UNCHANGED <<control, fullCleanup, wanted, clock, signal, wasOpen,
                   watching, channels, user>>

(* The online checks are drained, the account has been replaced, and the   *)
(* finally clause clears what was derived from the old one.                *)
AuthEnds ==
    /\ changing /\ Quiet
    /\ changing' = FALSE
    /\ state' = IF state = "EXIT" THEN state ELSE "IDLE"
    /\ loaded' = FALSE
    /\ watching' = NoChannel
    /\ tracked' = {} /\ ready' = {} /\ checking' = {}
    /\ selection' = NoChannel /\ manual' = NoChannel
    /\ wanted' = FALSE
    /\ UNCHANGED <<change, refresh, update, clearCache, main, locals, mnt,
                   clock, schedule>>

CloseUnnoticed ==              \* mutant: the loop is not woken
    /\ "close" \in Events /\ Quiet
    /\ state' = "EXIT"
    /\ signal' = TRUE
    /\ UNCHANGED <<change, refresh, update, clearCache, loaded, main, locals,
                   wanted, mnt, clock, sched, wasOpen, watcher, watching,
                   channels, user, changing>>

Close ==
    /\ "close" \in Events /\ Quiet
    /\ ChangeState("EXIT")
    /\ signal' = TRUE
    /\ UNCHANGED <<refresh, update, clearCache, loaded, main, locals, wanted,
                   mnt, clock, sched, wasOpen, watcher, watching, channels,
                   user, changing>>

Environment ==
    \/ \E c \in Channel : StreamChanges(c) \/ ChannelLost(c)
                          \/ CheckFindsStream(c) \/ SelectChannel(c)
    \/ DropClaimed \/ EstimateSpent
    \/ ExitManualMode \/ SettingsChanged
    \/ \E clear \in BOOLEAN : Reload(clear)
    \/ SetPaused \/ WindowBoundary
    \/ MaintenanceCleanup \/ MaintenanceReload
    \/ AuthBegins \/ Close

Next ==
    \/ RunBegins \/ RunAuthorized \/ RunStarted \/ RunRaises \/ SocketsReady
    \/ MainStep \/ MainResumes
    \/ Shutdown
    \/ ScheduleStep
    \/ WatchLoopStops
    \/ AuthEnds
    \/ Environment

(* The event loop runs every task that is ready: strong fairness where the *)
(* segments of _run keep taking the turn.  A request or a timer ends, and  *)
(* so does an authentication change.  The user, the clock, Twitch, the     *)
(* login and the websockets that are to connect are under no obligation.   *)
Fairness ==
    /\ WF_vars(RunBegins) /\ WF_vars(RunRaises /\ state = "EXIT")
    /\ WF_vars(MainStep) /\ WF_vars(MainResumes)
    /\ WF_vars(Shutdown)
    /\ SF_vars(ScheduleStep)
    /\ SF_vars(AuthEnds)

Spec == Init /\ [][Next]_vars
FairSpec == Spec /\ Fairness

-----------------------------------------------------------------------------
(* Properties                                                              *)

(* Types.  Between them the locals of _run hold what they held only while  *)
(* its task is at the await that needs them.                               *)
ControlType ==
    /\ state \in States
    /\ change \in BOOLEAN /\ refresh \in BOOLEAN /\ update \in BOOLEAN
    /\ clearCache \in BOOLEAN /\ loaded \in BOOLEAN

RunType ==
    /\ main \in MainPlaces
    /\ target \in MaybeChannel /\ (main # "delay" => target = NoChannel)
    /\ kept \subseteq Channel /\ (main # "gather" => kept = {})
    /\ fullCleanup \in BOOLEAN /\ wanted \in BOOLEAN /\ mnt \in BOOLEAN
    /\ paused \in BOOLEAN /\ inWindow \in BOOLEAN

WorldType ==
    /\ sched \in SchedPlaces
    /\ signal \in BOOLEAN /\ wasOpen \in BOOLEAN /\ watcher \in BOOLEAN
    /\ watching \in MaybeChannel
    /\ tracked \subseteq Channel /\ ready \subseteq Channel
    /\ checking \subseteq Channel
    /\ selection \in MaybeId /\ manual \in MaybeChannel
    /\ changing \in BOOLEAN

TypeOK == ControlType /\ RunType /\ WorldType

(* The main loop sleeps and nothing has woken it.                          *)
Asleep == main = "wait" /\ ~change

(* It sleeps, and the schedule loop has nothing new to see either.         *)
AtRest == Asleep /\ sched = "wait" /\ Settled /\ state # "EXIT"

(* No lost wakeup: while mining is allowed the loop never goes to sleep on *)
(* a pending inventory refresh or a pending games update, whatever step,   *)
(* closing or reopening the request arrived in (client.py:995-1000).       *)
RequestsServed == AtRest /\ Open => ~refresh /\ ~update

(* The periodic reload survives: whenever the miner rests in an open       *)
(* window, an inventory was loaded and the maintenance task, which ends    *)
(* with each reload, is running again.                                     *)
MaintenanceAlive == AtRest /\ Open => loaded /\ mnt

(* Once the schedule loop has seen mining closed, nothing is watched and   *)
(* no watch task exists, although the main loop, stream messages and the   *)
(* switch delay go on setting the watched channel.                         *)
ClosedStopsWatching ==
    sched = "wait" /\ ~wasOpen /\ ~Open => watching = NoChannel /\ ~watcher

(* A run never starts on what an earlier account left behind: although an  *)
(* authentication change interrupts every task at any await, the new run   *)
(* finds no old task, no online check, no inventory, no channel and no     *)
(* watched channel (client.py:250).                                        *)
FreshRun ==
    main \in {"start", "connect"} =>
        /\ sched = "off" /\ ~watcher /\ ~mnt
        /\ ~loaded /\ ~wanted
        /\ tracked = {} /\ ready = {} /\ checking = {}
        /\ watching = NoChannel /\ selection = NoChannel /\ manual = NoChannel

(* The miner does not rest on an object that it knows it cannot earn on:   *)
(* whoever takes away what the watched object can earn, by a message or a  *)
(* check of this object or another of its channel, by a claim, an estimate *)
(* or a fetch, also wakes the loop (message_handlers.py:155).              *)
WatchedIsReady == Asleep /\ Open /\ watching # NoChannel => watching \in ready

(* The miner does not rest idle next to a tracked channel it could watch.  *)
NothingLeftUnwatched ==
    AtRest /\ Open /\ watching = NoChannel => tracked \cap ready = {}

(* What is watched is what the stream messages are about: "this replaces   *)
(* 'self.watching_channel's internal value with the new object"            *)
(* (client.py:881).                                                        *)
WatchedIsCurrent ==
    Asleep => \A c \in tracked : IsWatched(c) => c = watching

(* The watched channel is one whose stream messages are subscribed:        *)
(* "If channel not found, CHANNEL_SWITCH will handle selecting a new one"  *)
(* (client.py:888).                                                        *)
WatchedIsTracked ==
    Asleep /\ watching # NoChannel => \E c \in tracked : IsWatched(c)

(* EXIT is final, and from then on the main loop begins no run, no step    *)
(* and no delay: what was begun before goes on to its next await at most   *)
(* (change_state, close, authentication_change).                           *)
NoWorkAfterExit ==
    [][state = "EXIT" =>
         /\ state' = "EXIT"
         /\ main' # main =>
              main' \notin {"start", "reconnect", "claims", "gather", "delay"}]_vars

(* websocket.start() looks at neither a timeout nor EXIT                   *)
(* (websocket.py:109-113), so _run may stay in it.                         *)
NeverConnected == [](main \in Sockets)

(* A request to exit ends the program, at whatever await it finds the      *)
(* tasks, unless _run waits for a websocket that never connects.           *)
ExitCompletes == state = "EXIT" ~> main = "stopped" \/ NeverConnected

(* "Called when the application is requested to close by the user"         *)
(* (client.py:547): with no websocket that keeps it from ending.           *)
ExitEnds == state = "EXIT" ~> main = "stopped"

(* A refresh requested while the loop runs is fetched, unless mining       *)
(* closes, the account changes, the program ends first, or a websocket     *)
(* never connects.                                                         *)
RefreshServed ==
    refresh ~> \/ ~refresh \/ ~Open
               \/ main \in {"off", "start", "done", "stopped"}
               \/ state = "EXIT"
               \/ NeverConnected

(* "Resuming fetches fresh inventory": a closed period the schedule loop   *)
(* has seen is followed by an inventory fetch when it ends, once the       *)
(* websockets are connected.                                               *)
ReopeningFetches ==
    (sched = "wait" /\ ~wasOpen /\ Open)
        ~> \/ main = "inventory" \/ ~Open
           \/ main \in {"off", "start", "done", "stopped"}
           \/ state = "EXIT"
           \/ NeverConnected

(* What the miner promises as a whole, over every interruption of its      *)
(* tasks: it fetches only what was asked for and while mining is allowed,  *)
(* works only on an inventory of the present account, begins nothing once  *)
(* it is to exit, watches only what was judged able to earn, loses no      *)
(* request for an inventory, and leaves nothing of one account to another. *)
Service == INSTANCE MiningService WITH
    phase <- IF main = "stopped" THEN "ended"
             ELSE IF state = "EXIT" THEN "exiting" ELSE "running",
    open  <- Open,
    asked <- refresh,
    work  <- IF main \in Awaits \cup {"start", "delay"} THEN main
             ELSE IF main = "connect" THEN "start"
             ELSE IF main = "reconnect" THEN "inventory" ELSE "none",
    able  <- ready \cup ({target} \ {NoChannel})

ImplementsService == Service!Spec
=============================================================================
