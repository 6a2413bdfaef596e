---------------------------- MODULE Maintenance -----------------------------
(***************************************************************************)
(* MaintenanceService and the end of fetch_inventory, which gives it its   *)
(* triggers and starts its task anew: when a campaign starts or ends the   *)
(* channels have to be looked at again, and every interval the inventory.  *)
(***************************************************************************)
EXTENDS Naturals, FiniteSets, FiniteSetsExt

CONSTANTS Horizon,   \* bound: the minutes the clock counts
          Hour,      \* how far ahead a fetch looks for campaigns
          Intervals, \* what campaign_reload_interval_minutes may be
          Inventories \* the sets of campaigns a fetch may find

\* When the first drop of a campaign can be earned, and the last no longer can.
Campaign == {c \in [starts : Nat, ends : Nat] : c.starts <= c.ends}

ConstantsOK ==
    /\ Horizon \in Nat /\ Hour \in Nat /\ Intervals \subseteq Nat
    /\ Inventories \subseteq SUBSET Campaign

VARIABLES
    minute,      \* the clock
    auto,        \* auto_reload_campaigns
    interval,    \* campaign_reload_interval_minutes
    reloaded,    \* _last_reload_time
    triggers,    \* _mnt_triggers
    task,        \* the maintenance task: [at, until, period]
    woken,       \* _restart_event
    fetch,       \* the main loop: [at, found, chosen], when it fetches the pictures
    hour,        \* next_hour of the last fetch
    asked,       \* a cleanup or a refresh was asked for and is not served yet
    campaigns,   \* ghost: those of a fetch that has ended
    served,      \* ghost: the last minute at which the miner was told to look again
    interrupted  \* ghost: the boundaries whose wait restart() ended

vars == <<minute, auto, interval, reloaded, triggers, task, woken, fetch, hour, asked,
          campaigns, served, interrupted>>

settings == <<auto, interval>>

\* A year: beyond every minute of the model.
Never == Horizon + 100

NoTask == [at |-> "none", until |-> 0, period |-> 0]
NewTask == [at |-> "new", until |-> 0, period |-> 0]
NotFetching == [at |-> "idle", found |-> {}, chosen |-> {}]

Init ==
    /\ minute = 0 /\ auto \in BOOLEAN /\ interval \in Intervals
    /\ reloaded = 0 /\ triggers = {}
    /\ task = NoTask /\ woken = FALSE
    /\ fetch = NotFetching /\ hour = 0 /\ asked = FALSE
    /\ campaigns = {} /\ served = 0 /\ interrupted = {}

----------------------------------------------------------------------------
(* run_maintenance_task.                                                   *)

NextPeriod == IF auto THEN reloaded + Max({1, interval}) ELSE Never

\* What is due first: the first trigger, unless the reload comes before it.
NextTrigger == Min({NextPeriod} \cup triggers)

\* The reload is due: the task asks for it and ends.
Reload ==
    /\ auto /\ minute >= NextPeriod
    /\ reloaded' = minute /\ task' = NoTask
    /\ asked' = TRUE /\ served' = minute
    /\ UNCHANGED <<triggers, woken>>

\* The trigger is taken from the queue before its time has come.
Sleep ==
    /\ ~(auto /\ minute >= NextPeriod)
    /\ task' = [at |-> "asleep", until |-> NextTrigger, period |-> NextPeriod]
    /\ triggers' = triggers \ {NextTrigger}
    /\ woken' = FALSE
    /\ UNCHANGED reloaded

TaskStarts ==
    /\ task.at = "new"
    /\ Reload \/ (Sleep /\ UNCHANGED <<asked, served>>)
    /\ UNCHANGED <<minute, settings, fetch, hour, campaigns, interrupted>>

IsBoundary == task.until # task.period

\* The wait ends with the time or with restart(); a boundary counts only in the first
\* case. What follows, up to the next wait or the end of the task, is one step.
TaskWakes ==
    /\ task.at = "asleep" /\ (woken \/ minute >= task.until)
    /\ LET cleanup == IsBoundary /\ ~woken IN
       /\ \/ Reload
          \/ /\ Sleep
             /\ asked' = (asked \/ cleanup)
             /\ served' = IF cleanup THEN minute ELSE served
       /\ interrupted' = IF woken THEN interrupted \cup {task.until} ELSE interrupted
    /\ UNCHANGED <<minute, settings, fetch, hour, campaigns>>

----------------------------------------------------------------------------
(* The dashboard: on_settings_change ends with restart_maintenance.        *)

ChangeSettings ==
    /\ auto' \in BOOLEAN /\ interval' \in Intervals
    /\ <<auto', interval'>> # settings
    /\ woken' = TRUE
    /\ UNCHANGED <<minute, reloaded, triggers, task, fetch, hour, asked, campaigns,
                   served, interrupted>>

----------------------------------------------------------------------------
(* The main loop.                                                          *)

\* A cleanup, which looks at the channels and leaves the inventory.
Cleanup ==
    /\ asked /\ task.at # "none" /\ fetch.at = "idle"
    /\ asked' = FALSE
    /\ UNCHANGED <<minute, settings, reloaded, triggers, task, woken, fetch, hour,
                   campaigns, served, interrupted>>

Boundaries(c) == {c.starts, c.ends}

\* can_earn_within the next hour.
Soon(found) == {c \in found : minute < c.ends /\ c.starts < minute + Hour}
Fetching(found) == [at |-> "adding", found |-> found,
                    chosen |-> UNION {Boundaries(c) : c \in Soon(found)}]

\* fetch_inventory replaces the campaigns, forgets the triggers and chooses others: those
\* of the campaigns that can be earned within an hour of now.  The dashboard and many a
\* transition ask for it, so it needs no request of the task.
FetchReplaces ==
    /\ fetch.at = "idle"
    /\ hour' = minute + Hour
    /\ \E found \in Inventories : fetch' = Fetching(found)
    /\ triggers' = {}
    /\ campaigns' = {} /\ interrupted' = {} /\ asked' = FALSE
    /\ UNCHANGED <<minute, settings, reloaded, task, woken, served>>

\* Mutant: a task that still waits is left waiting for what it waited for.
FetchKeepsTask ==
    /\ fetch.at = "adding"
    /\ fetch' = NotFetching
    /\ campaigns' = fetch.found
    /\ triggers' = {b \in fetch.chosen : minute < b}
    /\ reloaded' = minute /\ served' = minute
    /\ task' = IF task.at = "none" THEN NewTask ELSE task
    /\ UNCHANGED <<minute, settings, woken, hour, asked, interrupted>>

\* The pictures are there, which may take long.  Of what was chosen before the triggers
\* that are not past remain, and a new task waits for them.
FetchEnds ==
    /\ fetch.at = "adding"
    /\ fetch' = NotFetching
    /\ campaigns' = fetch.found
    /\ triggers' = {b \in fetch.chosen : minute < b}
    /\ reloaded' = minute /\ served' = minute
    /\ task' = NewTask
    /\ UNCHANGED <<minute, settings, woken, hour, asked, interrupted>>

\* Time passes while the task waits for it, and the event loop is not late.
Tick ==
    /\ minute < Horizon
    /\ task.at # "new"
    /\ task.at = "asleep" => ~woken /\ minute < task.until
    /\ minute' = minute + 1
    /\ UNCHANGED <<settings, reloaded, triggers, task, woken, fetch, hour, asked,
                   campaigns, served, interrupted>>

Next ==
    \/ TaskStarts
    \/ TaskWakes
    \/ ChangeSettings
    \/ Cleanup
    \/ FetchReplaces
    \/ FetchEnds
    \/ Tick

Spec == Init /\ [][Next]_vars

----------------------------------------------------------------------------
(* Properties.                                                             *)

\* The task still has a wait to end or a step to make in this minute.
Settled == task.at = "asleep" /\ fetch.at = "idle" /\ minute < task.until /\ ~woken

\* Each of these was followed by a cleanup or by a reload, once it has passed.
Looked(boundaries) == \A b \in boundaries \ interrupted : b <= minute => served >= b

\* When a campaign of the inventory in use has started or ended, a cleanup or a reload
\* has followed, unless restart() ended the wait for it, or the campaign was further off
\* than an hour when the triggers were chosen, before the pictures were fetched; and the
\* reload itself is never later than its interval.
BoundariesAreServed ==
    Settled =>
        /\ \A c \in campaigns : c.starts < hour => Looked(Boundaries(c))
        /\ auto => minute <= reloaded + Max({1, interval})

\* The same of every campaign that starts within an hour of the end of the fetch, which
\* is when the hour until the next reload begins.  It does not hold: a start that comes
\* within the hour while the pictures are fetched has no trigger.
TheWholeHourIsServed ==
    Settled => \A c \in campaigns : c.starts < reloaded + Hour => Looked(Boundaries(c))
----------------------------------------------------------------------------
(* What the property rests on.                                             *)

Types ==
    /\ minute \in 0..Horizon /\ auto \in BOOLEAN /\ interval \in Intervals
    /\ reloaded \in Nat /\ served \in 0..minute /\ hour \in Nat
    /\ triggers \subseteq Nat /\ campaigns \subseteq Campaign
    /\ task \in [at : {"none", "new", "asleep"}, until : Nat, period : Nat]
    /\ fetch \in [at : {"idle", "adding"}, found : SUBSET Campaign, chosen : SUBSET Nat]

\* The task waits for what comes first, of what it knew when it went to sleep.
WaitsForTheFirst ==
    task.at = "asleep" =>
        /\ task.until <= task.period
        /\ \A b \in triggers : task.until <= b
        /\ ~woken => task.period = NextPeriod

\* While the pictures are fetched, the boundaries that lie ahead are chosen.
Chosen ==
    fetch.at = "adding" =>
        \A c \in fetch.found : c.starts < hour =>
            \A b \in Boundaries(c) : b <= minute \/ b \in fetch.chosen

\* None of them is forgotten: it was served, or still is a trigger or what the task
\* waits for, unless restart() ended the wait for it.
NoneIsForgotten ==
    task.at # "none" =>
        \A c \in campaigns : c.starts < hour =>
            \A b \in Boundaries(c) \ interrupted :
                b <= served \/ b \in triggers \/ (task.at = "asleep" /\ task.until = b)

Inv == Types /\ WaitsForTheFirst /\ Chosen /\ NoneIsForgotten
=============================================================================
