# A verification model of TwitchDropsMiner

TLA+ modules that model the miner of `src/src` (an asyncio program that watches
Twitch channels to earn drops, with a web dashboard), the TLC runs that
model-check them on small instances, and proofs checked by TLAPS that the main
properties hold for any channels, games, topics, sessions, drops and limits.

Contents: [the system](#the-system) – [what makes it hard](#what-makes-it-hard)
– [modules](#modules) – [how `Miner` corresponds to the code](#how-miner-corresponds-to-the-code)
– [the websocket modules](#how-the-websocket-modules-do) – [`Session` and `Drops`](#how-session-and-drops-correspond)
– [the smaller services](#how-the-modules-of-the-smaller-services-correspond)
– [runs](#runs) – [fairness](#fairness) – [proofs](#proofs) – [disagreements found](#disagreements-found) – [not modelled](#not-modelled) –
[plan](#plan).

## The system

One process, one event loop. A coroutine runs from one `await` to the next
without interruption; everything below is a task, or a handler called by one.

| Component | State it keeps | Operations | Correct when |
|---|---|---|---|
| Mining state machine, `core/client.py` | `_state`, `_state_change`, three pending flags, `_inventory_loaded`, `watching_channel`, `channels`, `wanted_games`, pause and mining hours, the tasks themselves | `run`/`_run`, `change_state`, `request_*`, `_mining_schedule_loop`, `set_paused`, `authentication_change`, `close`, `shutdown` | no request is lost, EXIT is final, a closed window watches nothing, a new account sees nothing of the old one |
| Watch service, `services/watch_service.py` | – (works on the client's) | `can_watch`, `should_switch`, `watch`, `stop_watching`, `watch_loop` | never rests on a channel that earns nothing, never idle beside one that would earn |
| Message handlers, `services/message_handlers.py` | – | stream, drop and notification messages, `on_channel_update` | each message updates channel or drop and wakes the machine when its choice is stale |
| Maintenance, `services/maintenance.py` | trigger times, last reload | one task: channel clean-ups and the periodic reload | never dies out, never runs twice |
| Inventory and channel services | campaigns, channel lists, bans | `fetch_inventory`, `clear_cached_state`, ACL and directory searches | what is derived from an old inventory is replaced with it |
| Channel, drop and campaign models, `models/` | stream, pending online check, minutes, claims | `check_online`, `set_offline`, `bump_minutes`, `update_minutes`, `claim` | minutes never run past what Twitch confirms plus the estimate limit |
| Websocket pool and websocket, `websocket/` | topics per socket, submitted topics, connection flags | `add_topics`, `remove_topics`, `start`, `stop`, `_handle` | every topic on exactly one socket, within limits; a connected quiet socket has submitted exactly its topics |
| Imported session and controller, `auth/imported_session.py`, `auth/session_controller.py` | the context (account and proof) in memory and on disk, generation, logout epoch, the renewal worker | login, renewal, logout, `gql`, `authenticate`, restart | replaced as a whole, kept over crashes, never restored by a late result |
| Logins, `auth/container_login.py`, `auth/helper_connection.py` | login attempt, helper offer and ticket, what the dashboard shows of them | enable, cancel, admit, upload, accept a token, logout, shutdown | one way to log in is always offered; a replaced one never installs |
| Renewal, `auth/server_renewal.py`, `auth/session_helper.py` | a browser, its pipe, the proof being issued | acquire, exchange, stop | only a proof of Twitch itself is taken; commands get their own answers |
| Login helper, `auth/login_helper.py` | its browsers, a temporary profile, ticket and receipt | connect, log in, capture, upload | reports the truth and leaves nothing behind |
| API clients and utilities, `api/`, `utils/` | rate limiter counters, backoff, connection flag | `request`, `gql_request`, `RateLimiter`, `ExponentialBackoff`, `AwaitableValue` | concurrency and period limits hold, waiters are always woken |
| Settings, `config/settings.py`, `web/managers/settings.py` | current and saved settings, the computed list of games | validate, apply, save, roll back | a failed save leaves the old settings in force |
| Dashboard authentication, `web/auth.py` | password, sessions, open sockets, lockout | log in and out, change the policy | an open socket has a session; memory is what a restart finds |
| Dashboard server and managers, `web/` | selected channel, what is displayed | HTTP and socket handlers | state changes only through the client's requests |
| Stream selection, `services/stream_selector.py` | – (pure) | the queue and the priority of channels | the queue shown is the queue mined |
| Mining window and ignore policy | a cached evaluation | ignoring drops | what is mined leads to a wanted reward |
| Drop history | the claimed drops on disk | append, prune | no duplicates, bounded |
| Notifications, translations, front end | – | output only | – |

How they interact. The dashboard, the message handlers, the maintenance task,
the schedule loop and the services never do the machine's work themselves: they
set `_state` or a pending flag and set the event `_state_change`. The `_run` loop
serves what it finds, clears flag or event at various points of its steps, and
sleeps on the event. The watched channel is written by four parties: `_run`
(CHANNEL_SWITCH, IDLE), the schedule loop, the watch loop, and
`on_channel_update` when a better channel comes online. `authentication_change`
is wrapped around login, logout and renewal by the session code; it cancels every
task at whatever await it is in, and its `finally` clause resets what they left.

## What makes it hard

- A step that awaits the network ends by overwriting `_state`: what was requested
  during the await must survive in a pending flag.
- `_state_change` is one event for all requests, and it is cleared in four places.
- The schedule loop sends the machine to IDLE from outside, in the middle of any
  step, and itself awaits the watch task it cancels.
- The random switch delay sleeps between choosing and watching a channel.
- Authentication changes cancel tasks between any two of their segments.
- A channel can go offline between its selection, the switch and the watch
  request; checks of it answer late; the dict of tracked channels is replaced
  under a channel that is being watched, by new objects of the same channels.
- A start of the websockets waits for Twitch without a limit, whatever is requested.
- A websocket's handler announces a snapshot of its topics, over several awaits,
  while topics, token and connection change; a stop finds it at any await.
- Topics move between sockets whenever the pool thinks it has one too many.
- The maintenance task ends with every reload it asks for, and only the fetch
  that serves the request brings it back.
- A login, a renewal and a logout overlap, and what was cancelled may still answer;
  a request waits for the session while it becomes another account's.
- A container login, a desktop helper and a pasted token compete; each can be
  replaced inside any of its awaits, and an answer to the helper can be lost.
- Browsers are started, stopped and read across awaits that a signal or a logout
  cancels, some of them shielded, some twice.
- Minutes of a drop come by message, by poll, by estimate and with a new inventory,
  whose objects replace the old ones while tasks still hold those; the same claim is
  made by two tasks.
- A cleanup trigger is popped before the wait for it; bans end while questions fail.
- A broadcast restarts between the requests of one watched minute.
- Settings are applied before they are saved, by opening the file for writing.

`PROJECT.json` lists each of these at its line, with the properties that would be
violated.

## Modules

| Module | What it is |
|---|---|
| `MiningService` | what the miner promises: its work, its watching and its requests over every interruption (abstract) |
| `Miner` | the mining state machine with everything that drives it; implements `MiningService` |
| `MCMiner` | constants for TLC: priorities and games of the channels |
| `MinerProofs` | finality of EXIT, fresh runs, closed windows, served requests, lost channels, nothing forgone; the miner implements `MiningService`, proved |
| `TopicSet` | what the pool promises: one set of topics with a capacity (abstract) |
| `WebsocketPool`, `MCWebsocketPool` | the topics over the sockets; implements `TopicSet` |
| `WebsocketPoolProofs` | topics are on one socket each, within limits, none lost; the pool implements `TopicSet`, proved |
| `Websocket`, `MCWebsocket` | one connection: its handler, its stop, its callers and Twitch |
| `WebsocketProofs` | subscriptions, token renewal and stop, proved |
| `AbstractSession` | what the session promises: replaced as a whole by what Twitch offered (abstract) |
| `Session`, `MCSession` | imported session, controller, renewal worker, callers, file, crashes; implements `AbstractSession` |
| `SessionProofs` | requests are current, late operations install nothing; the session implements `AbstractSession`, proved |
| `Drops`, `MCDrops` | minutes, estimates and claims of drops over messages, polls and fetches |
| `DropsProofs` | drops are claimed once, no answer takes back what was heard, estimates, proved |
| `DropIgnore`, `DropIgnoreCache` | which drops are worth mining, and the cache of that |
| `Logins` | the three ways to log in and what keeps them apart |
| `HelperDelivery` | offer, admission, ticket, upload and receipt between helper and miner |
| `LoginBrowser` | directories, desktop and browser of a login in the container |
| `NativeBrowser` | the browsers and the profile of the helper on the user's computer |
| `DevTools` | one pipe to a browser, its sessions, commands and events |
| `Issuance` | how a proof is issued by a page, and recognised as Twitch's |
| `WebAuth` | password, sessions and open sockets of the dashboard |
| `SettingsManager` | settings in memory, on disk and in force |
| `Maintenance` | triggers, timers and reloads, and the fetch that makes them |
| `Requests` | GQL and HTTP retries in the places of the rate limiter |
| `WatchRequest` | one watched minute: address, playlist, segments |
| `Selection` | the queue of games against the order of channels |
| `Bans`, `BansProofs` | bans by channel object, their questions and their timer, proved |
| `MCServices` | the modules from `DropIgnoreCache` on, each a behaviour of its own |
| `LoginProofs` | its properties of the logins, the helper, their browsers, the dashboard's sockets, the pipe and the issued proof, proved |
| `ServicesProofs` | its properties of maintenance, watched minutes, settings, bans, the rate limiter, the queue of games and the walk over drops, proved |

`WebsocketPool` sees a websocket as its set of topics and whether it was started;
`Websocket` is what one of them does with that. They meet at the websocket's
`add_topics`, `remove_topics`, `start_nowait` and `stop`; their composition is
planned.

## How `Miner` corresponds to the code

**Atomicity.** A segment between two awaits of `_run` may need several actions
(`LoopHead`, a `Step…`, `LoopTail`); while `main` is `head`, `step` or `tail` the
predicate `Running` holds and no action of another task is enabled, so the pieces
stay one segment. Awaits are the values `inventory` (INVENTORY_FETCH), `claims`
(GAMES_UPDATE claims earned drops), `gather` (CHANNELS_FETCH), `delay` (the random
switch delay), `wait` (`_state_change.wait()`), `start` (waiting for the login),
`connect` and `reconnect` (`websocket.start()` at the beginning of a run,
client.py:611, and of INVENTORY_FETCH, 660), and `off` (between runs, waiting for
`_resume_mining`). `done` is the `finally`
clause and `stopped` the end of the program: the model deadlocks there and only
there, hence `CHECK_DEADLOCK FALSE`.

**State.** `state`, `change`, `refresh`, `update`, `clearCache`, `loaded`,
`paused`, `watching`, `tracked`, `selection` and `manual` are the attributes named
in the comments on VARIABLES (`selection` holds an id, as in the code); `target`, `kept`, `fullCleanup` are locals of `_run`;
`wasOpen` is the local of the schedule loop and `signal` the event it waits on;
`watcher`, `mnt`, `sched` say whether (where) the other tasks are; `inWindow` is the
clock's answer to `is_mining_time`; `checking` holds the objects with a pending or
running online check.

**Channel objects.** `Channel` is the set of `Channel` objects, and `Id` says which
channel each stands for: two objects of one channel are equal in the code (`==`
compares ids, `SameChannel`), but have a stream, a check and a ban of their own. Every
CHANNELS_FETCH makes new ones, except for those it keeps. Where the code compares by
`==` the model uses `IsWatched`; where it asks an object it uses the object. So
`ChannelsFetched` replaces the watched object by the new one of its channel only if
that can be watched (client.py:885), otherwise the old object stays watched, no
message updates it any more, and CHANNEL_SWITCH (977) judges the channel by it, as
the code does.

**Data.** What makes a channel watchable (online, right game, drops enabled, an
earnable campaign, not banned) is the one set `ready`: each action that can change
one of these facts changes `ready`. Fetches return nondeterministic results. The
streamed game is the constant `Game`, the mining priority the constant `Rank`;
`ready` is by object, so an object whose stream changes its game leaves `ready`.
Consequences, all of them over-approximations unless said otherwise:

- GAMES_UPDATE may find any set of channels watchable when some game is wanted and
  none otherwise, and may or may not end manual mode.
- ChannelsFetched lists any objects, at most one of a channel, some of them
  watchable, and bans any. The trim to `MAX_CHANNELS` (100) is not modelled:
  instances have three objects of two channels.
- A timed pause that runs out is a nondeterministic lift of the pause in the
  schedule loop. The mining-hours boundary is a flip of `inWindow` at any time.
- A stream-down message may or may not cancel a check: it cancels only a check
  that is still in its delay, and `checking` does not tell the two phases apart.
- A critical task that dies calls `close`: it is one more `Close`.
- Messages are processed in one segment (their handlers await nothing before the
  state change). The progress polling of `watch_loop` is only its outcome,
  `EstimateSpent`.
- Left out, hence not claimed: a fresh socket's subscriptions (`tracked` stands for
  "subscribed"), notifications, display updates.

**The two switches.** `RandomDelay` is the setting that turns the switch delay on.
`FastToggle = FALSE` assumes that pause and mining-hours boundaries are spaced so
that the schedule loop runs between two of them. Mining-hours boundaries are hours
or minutes apart and the loop iterates at least once a minute, so for them this is
the program's reality; for the pause button it is an assumption about the user, and
the configuration `MinerFastPause` shows what happens without it.

**`MiningService`.** Seven variables, each read off `Miner`: `phase` from `state`
and the end of the program, `open` is the mining time, `asked` is `refresh`, `work`
is the await of `_run` that stands for work (login with its `connect`, fetch with its
`reconnect`, claims, channel lists, switch delay), and `able` is `ready` with the channel chosen before a switch delay,
which is watched afterwards even if it was lost meanwhile. `state`, the event, the
schedule loop, `tracked` and manual mode do not show.

`Events` selects the disturbances of an instance, so that a run can afford three
objects, or liveness, without all of them; `control` has all.

## How the websocket modules do

**`WebsocketPool`.** `sockets` is `websockets`, each as the set of its topics, and
`started` says which of them have a handler task. Both `add_topics` and
`remove_topics` run between two awaits, so each is one action. The loops of the
code appear as what they compute: `add_topics` pops topics in arbitrary order, so
`Put` chooses any assignment `f` of topics to sockets that fills the sockets in
order (`Fills`), opening new ones for topics that are left; `remove_topics` pops
sockets while `Spare` holds for those left, so `Keeps` names how many stay, and
their topics are `Put` back. `raised` is the `MinerException` of a pool that is
full; the program ends with it, hence no action after it changes topics. `wanted`
is a history variable: what the miner asked for. `MAX_WEBSOCKETS` and
`WS_TOPICS_LIMIT` are constants (8 and 50 in the code).

**`Websocket`, atomicity.** `handle` is the await where the `_handle` task is:
`login`, `connect` (the backoff loop), `auth` (`get_auth`), `unlisten` and `listen`
(each message is one step), `recv`. `loop` and `topics` are the calls between them;
the code keeps its turn there unless it sends a PING, and the model lets other
tasks in at both, and lets the connection fail there: more behaviours than the
code has. `stop` is the await of the stop task: `asked` (its first step is to
come), `closing` (`ws.close()`), `draining` (waiting for the handler), `cancelling`
(waiting for the callbacks).

**Callers.** The state lock is `Idle`. Only `_run` starts sockets and changes
topics; an authentication change cancels it before it stops the pool, so start,
topic changes and stop of one socket do not overlap, and a caller that waits in
`start` can be gone at any time (`StartEnds`). The pool's stops that matter here
all have `remove=True`. A renewed token asks every socket of the pool to
reconnect, but not one popped from it, which is being stopped.

**Twitch.** `server` is the set of topics Twitch sends on the connection, `stale`
those of them it was asked for with a token replaced since. Its answers to LISTEN are
ignored by the code, and by the model. Twitch may close a connection, ask for a
reconnect, answer a PING on this connection, or not.

**Time.** Only the order of now, `_max_pong` and `_next_ping` matters: before both
with a PONG awaited (`waiting`), past `_max_pong` (`late`), past `_next_ping`
(`due`), before it with nothing awaited (`calm`). The PING itself is one step.

**Data.** A message is its topic, or one of `Control`; several for a topic count
once, and so do their callback tasks. `Chunk` is the ten topics of a LISTEN.
Status texts, logging, diagnostics and nonces are left out, as is what the topics'
callbacks do (`Miner` has that).

## How `Session` and `Drops` correspond

**`Session`.** `mem` and `disk` are the record of `ImportedSession` in memory and in
its file: the context, the generation, and whether the user logged out. A context is
an account and the number of its proof; Twitch issues them in order, and the proofs
1..`expired` no longer work. `op` has the operations of the controller (a login per
member of `Logins`, the renewal, the logout) with the await each is at, the epoch and
generation it saw, and `late`, a history of whether a logout or stop was requested
after it began. `caller` has the tasks that send GQL requests; `keeper` and `holder`
hold the two locks across awaits; `worker`, `wake`, `force` are the renewal worker.
`Restart` is a crash at any of these points: memory is rebuilt from the file.

- `_revision` is what an operation compares before it installs: it changes with every
  installation, so the model compares the record itself with the one seen at the start.
- The first and second half of `stop` are one step. `pair`, `revoke`,
  `renewal_token` and `RenewalLoop`, which the program never calls, are left out.
- Every context comes with its SDK cookie, so the seed of a renewal is the context.
- A writing of the file fails or succeeds as a whole (it is replaced by renaming).
- A request may be retried more often than the code's bound; the account a task
  began with is `user`, in the code the identity it was given.

`AbstractSession` has four actions: an offer, its withdrawal, its use, and a logout.
The mapping takes the context and the flag from `mem`, and the offer from the operation
that has a context in hand.

**`Drops`.** `camps` is the sequence of the campaigns every fetch made, because a task
keeps the objects it began with; the present one is the last. `mail` holds the
messages on their way, `poll` and `main` the awaits of watch loop and main loop,
`claims` the claims under way with the object and the task each belongs to. `twitch`
is what Twitch counts; `seen` is a history of the newest minutes it told. Of
`progress_revision` only "changed since the poll was sent" is kept (`Overtaken`).
There is one campaign, active and of the watched channel; a generation that is not
the present one keeps only what claims can touch. The end of `process_drops`, which
waits for the next drop to show, and the file of the history are left out.

`DropIgnore` is the pure evaluation (the walk over preconditions as a recursive
function over the drops visited), with a reference definition: the least closed,
ordered sets of unclaimed, allowed and watchable drops that lead to a reward.
`DropIgnoreCache` adds the cached result, the claims and the keywords that change
beside it.

## How the modules of the smaller services correspond

Each action is the code between two awaits, as above. What is peculiar to them:

- **`Logins`**: a task that is created takes its first step, and whoever awaits the
  end of another goes on, before anything else happens (asyncio's ready queue is
  empty at those points, or the order makes no difference). A session is asked for
  only without a login. `enable_helper` closes helper and browser, which takes
  seconds, before `enable` asks again whether the dashboard session may
  (client.py:190–196); a request that is refused there leaves no way to log in until
  the next request or the next task that asks. `helper.refused` is a history of that.
  An assumption: a proof expires only once the tasks that waited for it went on. The
  session itself is module `Session`: here a login installs or fails.
- **`HelperDelivery`**: each `Helpers` member is one run of the helper program.
  Answers may be lost or come after the ticket was replaced.
- **`LoginBrowser`**, **`NativeBrowser`**: a process starts, runs and may refuse to
  end; a cancellation takes effect at an await that is not shielded, and one that
  comes during a shielded one waits. In the helper SIGTERM and SIGHUP cancel its
  task, however often (`Terminated`), and so does the first Ctrl-C; the second is a
  `KeyboardInterrupt` out of `asyncio.run`, whose end cancels every task, the clean-up
  too (`Interrupted`), and the third ends that wait (`Abandoned`). Chrome and Firefox
  follow the same protocol. The
  children of a killed process, the Windows branch and the search for an executable
  are left out.
- **`DevTools`**: two sessions (browser and one page) on one pipe; `wire` is what
  the browser wrote and the reader has not seen. The limit of waiting events is in
  bytes in the code, in messages here.
- **`Issuance`**: the page's requests go through their stages independently, and the
  events of them are read in the order the browser sent them.
- **`WebAuth`**: the store is one file, written as a whole. The lockout by address
  (auth.py:118–128) is left out.
- **`SettingsManager`**: of the fields the list of games, the proxy and a token stand
  for the three kinds: applied by a computation, by a connection, masked when shown.
- **`Maintenance`**: the clock is a counter of minutes up to `Horizon`, a campaign
  the minutes of its start and end. A fetch chooses its triggers, and `hour` with
  them, before the pictures are awaited, and trims those that have passed after it.
  A boundary whose wait `restart()` interrupts is lost, so `interrupted` names those
  and the property leaves them out.
- **`Requests`**: `queue` is the waiters of the limiter's condition, woken in order. A
  waiter that is cancelled after it was notified passes the notification on, as
  `asyncio.Condition` does since Python 3.13. The limiter's docstring says "sliding
  window"; its windows are fixed, from the first request to the reset. A request that
  is repeated by `HTTPClient.request` keeps its place.
- **`WatchRequest`**: `seen` is the 256 remembered segments, `Kept` here.
- **`Selection`**: when rewards have a priority, only listed games are mined, and a
  game is only in the list of those with all drops, queue and channels are ordered
  differently; `Told` leaves that case out.
- **`Bans`**: a ban is the time of its end, `Forever` when permanent or not told. An
  answer is per channel rather than per batch of 20, which allows more failures; the
  timer of the event loop may be a little ahead of the clock.

`MCServices` runs them in one instance: `which` names a module, chosen at the start
and never changed, and the slots `s1`… are its variables. Nothing is composed by
that; it only saves starting TLC fourteen times, and the states of one are the sum
of all.

## Runs

| Run | Instance | Shows |
|---|---|---|
| `control` | one object, delay on, every event; 524 000 states | `RequestsServed`, `MaintenanceAlive`, `ClosedStopsWatching`, `FreshRun`, `ImplementsService` |
| `channels` | three objects, two of them of one channel, one game; selection, streams, estimates, pause; 1.7 million states up to symmetry of the two | `WatchedIsReady`, `NothingLeftUnwatched` |
| `live` | one object, `FairSpec`; settings, reload, selection, streams, pause, maintenance, auth, close; 155 000 states | `ExitCompletes`, `RefreshServed`, `ReopeningFetches` |
| `exit_delay` | as `live`, delay on | violates `ExitCompletes` |
| `manual_idle` | two games, two objects of two channels, selections and streams | violates `NothingLeftUnwatched` |
| `pool` | five topics, two sockets of two; 308 states | `PoolInv`, `ImplementsTopicSet` |
| `socket` | two topics, one per message, `FairSpec`; 217 000 states | `QuietIsSubscribed`, `NoStaleToken`, `StopLeavesNothing`, `TopicsReachTwitch`, `ReconnectHappens` |
| `session` | two accounts, two proofs; one login, renewal, logout, request and crash; 598 000 states | `InFlightIsCurrent`, `LateNeverInstalls`, `ImplementsAbstract` |
| `session_live` | one account, `LiveSpec`, no crash; 114 000 states | `RenewalRequestsServed`, `LogoutEnds` |
| `drops` | two drops of one and two minutes, two fetches, one message, one extra minute; 1.4 million states | `ClaimedOnce`, `NeverTakesBack`, `NoEstimateOverNews` |
| `any_bumped` | as `drops`, one fetch | violates `AllAreBumped` |
| `services` | the small modules one beside the other; 1.6 million states | a property or two of each, below |

Why the bounds are enough. The control properties never relate two channels:
one object and "none" give every case (nothing tracked, tracked and ready, lost
while watched, selected, manual), and the theorems below remove the bound for
all of them. The channel properties need an object being watched, another one of its
channel that replaces it or does not, and one of another channel that becomes better,
or stays when the first is lost: three of them. `channels`
keeps the delay off and the channels in one game because the two settings turned
on are the violations `exit_delay`/`manual_idle`; nothing else in it is bounded,
every counter of the code being a flag or a set here. Claims, settings, reloads and
authentication changes are in `control`; with three objects the theorems have them. In `pool` sockets of
two can be empty, partly filled or full, a removal can pop one or both, and five
topics are one more than fit; the invariants are proved for any number of sockets.
In `socket` two topics and messages of one let an announcement be interrupted half
way, with one topic told and one not.

In `session` a context has to be replaced by one of the same account (a renewal) and
of another (a login), with a request, a logout and a crash in between: two accounts,
two proofs and one of each. Liveness does not compare accounts. In `drops` a second
fetch makes old objects, one message in the mail can overtake a poll or an inventory
and be followed by another, and two drops differ in what a minute does to them; one
extra minute makes the limit of the estimate a case. In `services` each module has
two of what it compares (helpers, requests of a page, sockets, channels, addresses,
segments, campaigns per game) and bounds on what only repeats: attempts, runs,
cancellations (three: two can hit one shielded clean-up), broadcasts, updates of the
settings, minutes of the clock (one more than the hour a fetch looks ahead, which is
four minutes here). Three tasks share two places of the rate limiter, so one waits
while another is woken.

What the properties say:

- `RequestsServed`: while mining is allowed and everything sleeps, no refresh or
  update request is pending – no lost wakeup over four parties and two flags.
- `MaintenanceAlive`: in the same situations an inventory was loaded and the
  maintenance task exists.
- `ClosedStopsWatching`: once the schedule loop has seen mining closed nothing is
  watched, though three other parties write the watched channel.
- `FreshRun`: whatever an authentication change interrupted, the next run starts
  without an old task, check, inventory or channel.
- `ImplementsService`: whichever task moves, and wherever an authentication change or
  a failure interrupts one, the miner fetches only what was asked for and only while
  mining is allowed, loses no request, works on one inventory of the present account,
  starts nothing once it is to exit, and watches only what it judged able to earn.
- `WatchedIsReady`, `NothingLeftUnwatched`: the machine never rests on an object it
  knows it cannot earn on, nor idle beside one it could watch. An object that a fetch
  left watched and forgot may be out of date: see `MinerStale` below.
- `PoolInv`: wherever recycling moves them, topics are on one socket each, no socket
  has too many, none is lost, and no socket of a running pool is left unstarted.
- `ImplementsTopicSet`: how topics are spread never shows – a request is refused
  only when all sockets together have no room, and never by a removal.
- `QuietIsSubscribed`: a socket that listens and has no change to announce receives
  exactly its topics, whatever happened between the awaits of the announcement.
- `NoStaleToken`: a subscription with a replaced token lives on only until the
  reconnect that is on its way.
- `StopLeavesNothing`: although the end of the login clears `_closed`, and the
  handler reconnects when it sees Twitch close first, a stop ends it.
- `TopicsReachTwitch`, `ReconnectHappens`: a change or reconnect is carried out,
  unless the handler stays for ever in one of the two awaits that nothing in the code
  ends (`WaitsForEver`): the wait for a login (websocket.py:268), and a receive whose
  messages never leave half a second between them (317).
- `ExitCompletes`: an exit ends the program. `RefreshServed`: a refresh request
  is fetched while mining stays open. `ReopeningFetches`: reopening leads to a
  fetch. All three unless `_run` stays for ever in `websocket.start()`
  (`NeverConnected`), which has no timeout and does not look at EXIT.
- `InFlightIsCurrent`: a request on its way carries the present proof, of the account
  its task began with, although it waited for locks, the dashboard and renewals.
- `LateNeverInstalls`: what a logout or a stop found under way never installs.
- `ImplementsAbstract`: over crashes, failed writes and races the session is what was
  offered last, as a whole, used once; only a logout drops it.
- `RenewalRequestsServed`, `LogoutEnds`: a renewal that was asked for begins, a
  logout ends.
- `ClaimedOnce`: no object is claimed or recorded twice by two tasks, and what was
  told is in the history. `NeverTakesBack`: what Twitch told is never replaced by
  less. `NoEstimateOverNews`: no estimated minute is added on top of news that came
  while the poll was out.
- `LoginOffered`, `StatusIsTrue`, `ReplacedNeverInstalls` (`Logins`): while a
  session is waited for there is a way to log in, except after a request for the
  helper that closed the others and was then refused; what the dashboard says of it
  is so, and a login that was replaced never installs.
- `ReportsAreTrue` (`HelperDelivery`): the helper's success and failure are those of
  the miner, with lost and late answers.
- `NothingOutlivesTheRun` (`LoginBrowser`, and `NothingOutlivesTheHelper` of
  `NativeBrowser`): however often it is cancelled, no process or profile is left
  unless it said so, and nothing is removed under a running browser; of the helper
  this is claimed for any number of SIGTERM and SIGHUP and for one Ctrl-C.
- `ProofIsIssued` (`Issuance`): the proof is the answer of Twitch to this page.
- `AnswersAreTheirOwn` (`DevTools`): commands of two sessions never get each other's
  answers, and none waits when its session is over.
- `OpenSocketsFollow` (`WebAuth`): no change of the policy forgets a socket.
- `SettingsInForce` (`SettingsManager`): what is in force is what was saved; no mask
  becomes a secret.
- `BoundariesAreServed` (`Maintenance`): the start or end of a campaign that starts
  within an hour of the choice of the triggers had its cleanup when it passed, however
  long the pictures took; the reload is never late.
- `MinesWhatLeadsToRewards` (`DropIgnoreCache`): cached walk and reference agree.
- `NoPlaceIsWasted` (`Requests`): nobody waits for a place of the limiter while one is
  free and nobody was woken for it.
- `WatchingIsReal` (`WatchRequest`): a minute counts only if this broadcast's segments
  were served; a rejected address is not asked for again and again.
- `QueueIsMined` (`Selection`): what the queue shows first is mined first.
- `BansHoldUntilTheyEnd` (`Bans`): a ban holds for each object of its channel.

Some configurations are kept beside the runs and are started by hand with
`tlc -config X.cfg M`, some further properties by putting them in place of those of a
configuration; see [disagreements found](#disagreements-found).

## Fairness

In `Miner`, `FairSpec` adds to `Spec`:

- weak fairness of the pieces of `_run` and of the end of its requests and of the
  switch delay (`MainResumes`): the event loop runs every ready task, and a request
  has a timeout and is repeated until it is answered or, once EXIT is set, raises
  `ExitRequest`, as does the wait for the login (`RunRaises` in EXIT);
- strong fairness of the schedule loop: its segments are enabled only between
  those of `_run`, so weak fairness would let `_run` keep the turn for ever, which
  asyncio's FIFO ready queue does not;
- strong fairness of the end of an authentication change, for the same reason (it
  awaits cancelled tasks and requests with timeouts).

It adds none for the end of the login and of `websocket.start()` (`RunAuthorized`,
`RunStarted`, `SocketsReady`): the first waits for a user, the second for a connection,
without a limit and without a look at EXIT (websocket.py:109–113). The liveness
properties therefore end where a run waits for the login (`start`), and except a wait
for a websocket that lasts for ever. What `MainResumes` does assume, and the code does
not guarantee, is that Twitch is there: before EXIT a request that gets no answer is
repeated, with growing delays, for as long as that takes. `RefreshServed` and
`ReopeningFetches` depend on it; `ExitCompletes` does not, because in EXIT the
repetition ends.

`Websocket` has weak fairness of the handler's steps between awaits and of its
sends, of half a second passing without a message (`Silence`, `HandleMessages`), and
of the steps of a stop, for `FairSpec`. It has none for Twitch, the network, the
login – neither the one before the connection nor the one `get_auth` may wait for in
the loop (`AuthReady`; imported_session.py:451) – or the clock: a connection need
never come, and messages may follow each other without a pause of half a second. The
configuration `SocketStarved` shows what such a stream does.

`Session` has, for `LiveSpec`, strong fairness of the steps of operations, requests
and logouts – their locks are given in the order they were asked for, and all their
awaits have a time limit – and weak fairness of the worker's timers. A user need never
log in, log out or call.

Beyond that nothing is assumed of the user, the clock, Twitch, the messages, the watch loop
or the login: nobody need ever log in.

## Proofs

Eight modules hold theorems. Each theorem says of every behaviour, and of every
value of the constants, what a run checks on a small instance. The argument is the
same each time: an inductive invariant, of which the property is a part or a
consequence, shown to hold at first and over each action, one step per action. All
invariants were model-checked on an instance before they were proved.

### The mining loop

`MinerProofs`, for every finite or infinite set of channel objects of any channels,
every ranking, any games and any set of events; with or without the delay unless a hypothesis says otherwise:

| Theorem | Says | Under |
|---|---|---|
| `TypeCorrect` | `[]TypeOK` | – |
| `ExitIsFinal` | `NoWorkAfterExit` | – |
| `MinerImplementsService` | `ImplementsService` | – |
| `RunsStartFresh` | `[]FreshRun` | – |
| `ClosedIsQuiet` | `[]ClosedStopsWatching` | `~FastToggle` |
| `NoRequestIsLost`, `MaintenanceGoesOn` | `[]RequestsServed`, `[]MaintenanceAlive` | `~FastToggle` |
| `LostChannelsAreNoticed` | `[]WatchedIsReady` | `~RandomDelay` |
| `NothingIsForgone` | `[]NothingLeftUnwatched` | `~FastToggle`, `~RandomDelay`, channels of one game |

The hypotheses are there because of the disagreements below: a pause that the schedule
loop never saw leaves a refresh waiting (`MinerFastPause`), a request during the switch
delay is forgotten (`exit_delay`), and manual mode among channels of several games can
end in IDLE beside one that could be watched (`manual_idle`).

- `ExitIsFinal`: every action leaves `state` alone, or writes it through
  `change_state`, or writes it under a guard that excludes EXIT.
- `ServiceInv` says what the steps that begin work rely on: between runs and before
  the login only IDLE and EXIT can be the state; a step other than IDLE and EXIT is
  taken in the segment whose head saw mining allowed; INVENTORY_FETCH is the state
  only while the request for it is pending, its fetch is under way, or the run ended;
  and as long as no inventory is loaded nothing is known that could ask for more –
  no channel, check, selection or maintenance task. With `FreshInv` each action is
  then an action of `MiningService`, or leaves what it shows unchanged.
- `FreshInv` adds what holds between `AuthBegins` and the next run: while a change
  is going on (`changing`) all tasks are off; once it ended and before the run
  begins, what the `finally` clause cleared is still clear – only tasks that are
  off could fill it.
- `ClosedInv` adds the other places of the schedule loop: while it drains the watch
  task none exists and nothing is watched unless mining has reopened; in its wait
  `wasOpen` says whether a watch task exists, and a mining time that differs from
  it is noticed before it flips again (`Settled`). That is where `~FastToggle` is
  needed.
- `ServedInv` follows a request through the loop: in `wait` without `change`, a
  pending refresh implies that mining is closed or the schedule loop has a
  reopening to notice; it also follows the maintenance task and `_inventory_loaded`
  from the request to the fetch.
- `NoticesInv`: at the end of a turn and in the wait, a watched object that is not
  ready, like EXIT, comes with `change` set – also after a fetch that left the old
  object watched.
- `RestInv` follows a channel that could be watched around the loop: at the tail it
  has set `change`, or the next head finds a state other than IDLE or a request;
  CHANNEL_SWITCH leaves it with a channel or with none that could be watched
  (`SwitchOutcome`).

### The websockets

`WebsocketPoolProofs` (any finite set of topics, any limits) and `WebsocketProofs`
(any topics, limit and chunk size):

| Theorem | Says |
|---|---|
| `PoolInvariant`, and from it `SocketsAreDisjoint`, `SocketsAreWithinLimit`, `NoTopicIsLost`, `SocketsAreStarted` | `PoolInv` always holds, hence `Disjoint`, `WithinLimit`, `NothingLost`, `RunningIsStarted` |
| `PoolImplementsTopicSet` | `ImplementsTopicSet`: every step of the pool is one of `TopicSet` or a stutter |
| `SocketTypes`, `SocketListensToItsTopics`, `TokensAreRenewed` | `TypeOK`, `QuietIsSubscribed`, `NoStaleToken` always hold |
| `StopIsThorough` | `StopLeavesNothing` |
| `TwitchIsNotOverfilled` | `TwitchWithinLimit`, for a finite set of topics |

`PoolInv` is inductive as a whole, its parts are not: `PutResult` says what filling
sockets does, `RemainderIsFine` what a removal leaves for it. The refinement has to
count: topics are refused when, and only when, there are more than all sockets can
hold. That needs the size of a union of disjoint sets over a list, which one would
show by induction over the list. The induction theorems of the library cannot be
used here (they take an operator as a parameter), so `RefusedIsTooMuch` and
`TopicsFit` are shown the other way round: if what is claimed of the first n sockets
failed for some n, it would fail for a least n, and neither 0 nor a successor can be
that one.

`SocketInv` adds `Announced`, what Twitch was told at each place of the handler: in
the middle of an announcement it is `_submitted` adjusted by what is still to be
named, and as long as `_topics_changed` is not set the snapshot is the topics; and
without a connection a topic that is there has `_topics_changed` set. `Stopping`
adds that after the handler was awaited or cancelled nothing starts one or spawns
a callback. `NoStaleToken` needs `Announced`: a new connection has no
subscriptions, hence none with an old token.

`TwitchWithinLimit` is in no run; TLC checked it on three topics with a limit of two
before it was proved. Twitch's set lies within the last snapshot while topics are
taken back and within the present one while they are named (`Announced`), and each
snapshot is of topics that fit (`LimitInv`).

### Session and drops

`SessionProofs` (any accounts, callers and logins, and any bounds on what is repeated)
and `DropsProofs` (any drops, required minutes, preconditions and order of the list):

| Theorem | Says |
|---|---|
| `SessionProofs!InductiveInv`, `TypeCorrect` | `[]Inv`, `[]TypeOK` |
| `RequestsAreCurrent` | `[]InFlightIsCurrent` |
| `LateOperationsInstallNothing` | `LateNeverInstalls` |
| `SessionImplementsAbstract` | `ImplementsAbstract`: every step is one of `AbstractSession` or a stutter |
| `DropsProofs!InductiveInv` | `[]Inv` |
| `EachDropIsClaimedOnce` | `[]ClaimedOnce` |
| `AnswersAreNotBehind` | `NeverTakesBack` |
| `EstimatesAreOfTheUnknown` | `NoEstimateOverNews` |

The invariant of the session has, for the operations, `Holding` (only the holder of
the lock has a context that is not installed), `Superseding` (an operation that a logout
or the stop came after began in an older epoch, which it compares before it installs)
and `Renewing` (where the renewal and its worker are together); and `Sending`, for
requests: who asks Twitch holds the session's lock, and memory is what it sent. The
file is what is in memory at every state, since nothing awaits between the two, so a
crash brings nothing back that was not there. The refinement maps the abstract offer to
the one context that is not installed, which by `Holding` belongs to one operation.

That of the drops has `Counts` (nobody has heard of more minutes than Twitch counts,
on whatever way: mail, inventory or answer), `NewsInv` (the answer to a poll is at
least what was reported unless something came after the request, which the poll
notices) and `OnceInv` (a claim that found its drop unclaimed is the only one that will
tell of it, and has marked it).

### The smaller services

The inductive invariant of each is at the end of its module, as `Inv`. `MCServices`
runs the modules one beside the other, each as a behaviour of its own on the same
variables; its theorems therefore hold for every instance that meets
`ServicesAssumption`, the assumptions of the modules one by one.

| Theorem of `LoginProofs` | States | Rests on |
|---|---|---|
| `ReportsAreTrueAlways` | `ReportsAreTrue` | `Uploading`: where the one upload of each helper is, and what it may say of it; `Offering`: whose ticket the miner has |
| `NothingOutlivesTheRunAlways` | `NothingOutlivesTheRun` | in the container `Cleaning` (a clean-up is begun by the stage that waits for it), `Running` and `Left` (what still runs or lies there before it); on the user's computer `Owned` (which browser `NativeChrome` knows at each await), `Cleaning` (no other runs unless the clean-up failed or a second Ctrl-C cut it short) and `Ending` |
| `LoginOfferedAlways`, `StatusIsTrueAlways`, `ReplacedNeverInstallsEver` | `LoginOffered`, `StatusIsTrue`, `ReplacedNeverInstalls` | `Replacing` (a replaced login has lost its right to install), `Showing` (what is said to be verified is so by the login that is waited for), `Offering` (a browser that runs is not counted on, and a refusal that closed everything is remembered) |
| `OpenSocketsFollowAlways` | `OpenSocketsFollow` | the sessions of a switched-off password are gone, and an open socket with a session keeps its timer |
| `AnswersAreTheirOwnAlways` | `AnswersAreTheirOwn` | the number of a message is that of its command, on the wire and in each queue |
| `ProofIsIssuedAlways` | `ProofIsIssued` | `InOrder`: while the connection is open, that a request was answered by a cache reaches the exchange before its response; `AllSent`, `Fetching`, `Proven` |

| Theorem of `ServicesProofs` | States | Rests on |
|---|---|---|
| `BoundariesAreServedAlways` | `BoundariesAreServed` | `WaitsForTheFirst` of what the task knew when it went to sleep; `Chosen`: while the pictures are awaited, what lies ahead is chosen; `NoneIsForgotten`: a boundary was served, is in the triggers or is the one waited for |
| `WatchingIsRealAlways` | `WatchingIsReal` | `Remembered`: what is remembered, and what the loop has come past, was served in this broadcast; `Forgotten`: a rejected address comes back at most once |
| `SettingsInForceAlways` | `SettingsInForce` | nothing is in memory or on disk that was not entered |
| `BansHoldUntilTheyEndAlways` | `BansHoldUntilTheyEnd` | the lemmas of `BansProofs`, below |
| `NoPlaceIsWastedAlways` | `NoPlaceIsWasted` | `Sleepers`: who sleeps on the condition is in its list once; and the cardinalities of the sets of tasks inside, woken and asleep over each step |
| `QueueIsMinedAlways` | `QueueIsMined` | the settings are of their types and `wanted` is the queue of the settings in force; what the keys of games say, below |
| `MinesWhatLeadsToRewardsAlways` | `MinesWhatLeadsToRewards` | `Recalled`: what the campaign keeps is an evaluation of its own drops, for the keywords and claims of its key; and `MineableIs`, below |

`BansProofs` states its theorem of the module `Bans` itself, for any channels:
`BansHold` is `Spec => []BansHoldUntilTheyEnd` if `ConstantsOK`. `BansInv` says where
the truth about a ban is. Between searches it is in
`_banned_channels`; while questions are out it is in the new objects and the watched
one, and in `_banned_channels` only for channels that are neither. Two ends that have
both passed count as the same (`Agree`), which is what lets the clock tick; that the
timer is set at all needs the first of a set of ends to exist, `LeastExists`.

`QueueIsMinedAlways` is about an order and a list that two pieces of code make of the
same settings. `Sorted`: counting, for each of finitely many games, those with a
smaller key puts them in the order of their keys, which are total (`KeysTotal`) and
differ (`QueueKeysDiffer`); so the place of a game in the queue is that of its key
(`QueueIs`). `QueueKeyIs` and `DefaultPriorityIs` say number by number what the keys of
games and the priorities of channels are. `DefaultLess` compares them from the first
number in which two games differ: the rank; the tier, where `SelectedFirst` and
`TierIs` show that the tier of a channel and the place in the Mining list agree; the
rewards, of which those that cannot be earned now count for neither
(`KeyOfCandidates`); and last the place itself.

`MineableIs` says that the recursive walk of `collect_branch` finds what the reference
of `DropIgnoreCache` defines without recursion: the least sets of drops that can be
claimed one by one up to a reward. What a call returns has a form of its own, `Found`:
`Shared`, what all ways to the drop around the visited ones have. `FoundCollects` shows
that it satisfies the equation of the walk: `GoodSplits` takes a way to a drop apart
into ways to its preconditions (in what cannot be claimed without the drop, the first
would be such a precondition or the drop itself), `GoodsJoin` puts them together.
`OneWalk` shows that nothing else satisfies it: of the calls on which two solutions
differ, one has visited most. The passes that ignore drops are counted with
`AllNumbers`, induction for a set of numbers: unlike an operator, a set can be given to
a lemma.

### Assumptions, and what stays with TLC

The only assumptions are the named ones of `Miner` (`NoChannel` is neither a channel
object nor an id, and each object has an id),
`WebsocketPool`, `Websocket` (limits of at least one), `Session`, `Drops` and
`MCServices`: values that stand for "none" are not among what they stand beside,
counters and bounds are numbers, capacities at least one, the tasks of the rate
limiter, the segments of a playlist, the games and the drops of a campaign finitely
many. Further conditions are hypotheses of the theorems that need them.

Only model-checked: everything under fairness (`ExitCompletes`, `RefreshServed`,
`ReopeningFetches`, `TopicsReachTwitch`, `ReconnectHappens`, `RenewalRequestsServed`,
`LogoutEnds`). Liveness is out of the prover's reach.

## Disagreements found

Each is a violation whose property states what the code or its comments say. The
first three are runs.

1. `exit_delay`: a `close` (or any request) that arrives during the random switch
   delay sets `_state_change`; after the delay `_run` clears it (client.py:976) and
   goes to sleep. In EXIT nothing wakes it again.
2. `manual_idle`: manual mode that ends for want of channels requests
   CHANNEL_SWITCH inside CHANNEL_SWITCH; the end of the same step replaces the
   request by IDLE, beside channels of other games that could be watched.
3. `any_bumped`: `bump_minutes` uses `any()` over a generator (campaign.py:291), which
   stops at the first drop that reaches the limit; drops after it do not get their
   minute.

The others are shown by hand:

| Configuration | Module | Property | What happens |
|---|---|---|---|
| `MinerStale`, with this invariant | `MCMiner` | `WatchedIsTracked` | when the inventory update finds no channel any more for a watched one, it survives without being tracked; the comment at client.py:888 relies on CHANNEL_SWITCH to choose another, which happens only if there is one |
| `MinerFastPause` | `MCMiner` | `RequestsServed` | pausing and resuming before the schedule loop ran leaves a pending refresh waiting for the next event |
| `PoolSpares` | `MCWebsocketPool` | `OnlySparesAreStopped` | `remove_topics` counts only the topics of sockets still in the pool, not those it has just recycled, so it stops sockets that are needed (with 0, 2 and 1 topics and a limit of two, all three) and opens new ones; nothing is lost from the pool, but connections are torn down and what Twitch sends in between is missed |
| `MinerStale` | `MCMiner` | `WatchedIsCurrent` | the comment at client.py:881 says that the watched object is replaced by the new one of its channel, but it is only if the new one can be watched (885): otherwise the miner goes on watching the old object, which CHANNEL_SWITCH finds online although the new one is known to be offline, and the channel's messages update the new one |
| `MinerExitOffline` | `MCMiner` | `ExitEnds` | `close` is "called when the application is requested to close by the user" (client.py:547), but a run that waits in `websocket.start()` for a connection does not look at EXIT, and nothing limits that wait |
| `SocketStarved` | `MCWebsocket` | `ReconnectDespiteTraffic` | the timeout of `_gather_recv` restarts with each message: under a steady stream none is processed, no PING sent, no topic announced, no reconnect done |
| `Socket`, with this invariant | `MCWebsocket` | `MissedPongIsItsOwn` | `_max_pong` survives an unexpected close; the next connection is given up at once for a PONG awaited on the last one |
| `SessionWaiters` | `MCSession` | `WaitersResume` | a second task whose request has to be repeated clears `_updated` for a delay of its own, after the update a first task is about to wait for and before it waits; that task then sleeps beside a usable session until the next update |
| `Drops`, with this invariant | `MCDrops` | `ToldOnce` | a fetch replaces a drop while the message's claim of it is under way; the main loop claims the new object too, and both claims are notified; the history has it once |
| `LoginsRefused` | `Logins` | `LoginAlwaysOffered` | "Retry starts a new browser after failure" (docs/authentication.md:20), but a request for the helper whose dashboard session ends while helper and browser are closed for it is refused with everything closed and without Retry; a waiting task has no login until the next request |
| `NativeInterrupted` | `NativeBrowser` | `CleansUpWhateverArrives` | `close` is to "finish bounded owned-resource cleanup even if cancellation arrives here" (login_helper.py:573), but a second Ctrl-C is asyncio's (1006), which cancels the clean-up too: browser and profile stay, and only "cancelled" is said |
| `Services`, with this invariant | `MCServices` | `TheWholeHourIsServed` | "campaign-triggered channel cleanups (when drops start/end)" (maintenance.py:32): a campaign that comes within an hour of its start while the pictures of a fetch are awaited has no trigger, because the hour was computed before (inventory_service.py:194); its start waits for the next reload |
| `DevToolsLate` | `DevTools` | `EndsWithItsTarget` | a page that goes between the reply to its attachment and the registration of its session (session_helper.py:229) leaves the session open until the pipe ends |

## Not modelled

`PROJECT.json` has every component with its status and reason. Notifications,
translations, the display code and the front end only output. In the modelled
components the following is left out, because it keeps no state the properties tell
apart or because it is file and process I/O:

- `bulk_check_online` and the searches for channels beyond their nondeterministic
  result; parsing of GQL answers, page settings and playlists.
- The mining window (it is `inWindow` of `Miner`), expiry and linking of campaigns.
- The file of the drop history and its pruning.
- The lockout by address, the checks of origin and the cookies of the dashboard.
- How Firefox is driven in the helper, preparing a profile for the renewal, the
  command line of the helper, migration of old settings.
- Random breaks of the watch loop and its restart after an error.

Of the websockets, a message that arrives on a popped socket and on the one that
took its topic over needs a composition that has not been made. That an exit waits
while `start` waits for a connection is in `Miner`, where the pool is one await. What a closing connection had received in its
last half second is dropped, in the code as in the model; no property depends on it.

## Plan

Done: the modules above, and theorems about the safety properties of all passing
runs. What is left, in order of importance:

1. The composition of `WebsocketPool` and `Websocket`: a topic that moves between
   sockets, a popped socket that still receives.
2. Pure algorithms against reference definitions: the mining window over midnight.
3. The history's file with its pruning, and the lockout by address.
