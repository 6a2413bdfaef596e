------------------------------ MODULE Websocket ------------------------------
(***************************************************************************)
(* websocket/websocket.py: one connection to Twitch's PubSub service.  Its *)
(* `_handle` task connects, subscribes and receives; the pool starts and   *)
(* stops it and changes its topics in between.                             *)
(*                                                                         *)
(* All of this shares one event loop: an action is the part of a task from *)
(* one await to the next.  Twitch's side is the set of topics it was told  *)
(* to send on this connection.                                             *)
(***************************************************************************)
EXTENDS Naturals, FiniteSets

CONSTANTS
    Topic,
    Limit,   \* WS_TOPICS_LIMIT
    Chunk    \* the number of topics a LISTEN or UNLISTEN message names

ASSUME LimitAssumption == Limit \in Nat \ {0}
ASSUME ChunkAssumption == Chunk \in Nat \ {0}

VARIABLES
    handle,     \* where the _handle task is; "none" if there is none
    connected,  \* _ws.has_value()
    closed,     \* _closed.is_set()
    reconnect,  \* _reconnect_requested.is_set()
    changed,    \* _topics_changed.is_set()
    topics,     \* topics
    submitted,  \* _submitted
    current,    \* _handle_topics' snapshot of topics
    todo,       \* topics it has still to name to Twitch in this round
    pinged,     \* history: was a PING sent on this connection?
    ping,       \* what _next_ping and _max_pong say about the present time
    inbox,      \* _handle_recv's messages: a topic, "PONG" or "RECONNECT"
    silence,    \* was nothing received for the timeout of _gather_recv?
    starting,   \* is start() waiting for the connection?
    stop,       \* where the task of stop() is; "none" if there is none
    callbacks,  \* topics with a running callback task
    doomed,     \* stop's snapshot of _callback_tasks
    server,     \* topics Twitch sends on this connection
    stale       \* those of them Twitch sends to a token replaced since

handler == <<handle, connected, reconnect, submitted, current, todo, ping,
             pinged>>
receive == <<inbox, silence>>
stopper == <<stop, closed, doomed>>
twitch  == <<server, stale>>
vars == <<handler, changed, topics, receive, starting, stopper, callbacks,
          twitch>>

-----------------------------------------------------------------------------
(* "loop" is the head of the receive loop, "topics" the turn of            *)
(* _handle_topics, "auth", "unlisten" and "listen" are its awaits.         *)
InLoop  == {"loop", "topics", "auth", "unlisten", "listen", "recv"}
Places  == InLoop \cup {"none", "login", "connect"}
Control == {"PONG", "RECONNECT"}

(* "calm" before _next_ping; "waiting" for a PONG before _max_pong; "late" *)
(* past _max_pong but before _next_ping; "due" past _next_ping.            *)
PingStates == {"due", "waiting", "late", "calm"}

Init ==
    /\ handle = "none" /\ connected = FALSE /\ closed = FALSE
    /\ reconnect = FALSE /\ changed = FALSE
    /\ topics = {} /\ submitted = {} /\ current = {} /\ todo = {}
    /\ ping = "due" /\ pinged = FALSE
    /\ inbox = {} /\ silence = FALSE
    /\ starting = FALSE /\ stop = "none"
    /\ callbacks = {} /\ doomed = {}
    /\ server = {} /\ stale = {}

-----------------------------------------------------------------------------
(* The receive loop is left: the finally clause, and the locals with it.   *)
LeaveQuietly(next) ==          \* mutant: the next connection is told nothing
    /\ handle' = next
    /\ connected' = FALSE
    /\ submitted' = {} /\ server' = {} /\ stale' = {}
    /\ current' = {} /\ todo' = {} /\ inbox' = {} /\ silence' = FALSE
    /\ UNCHANGED changed

Leave(next) ==
    /\ handle' = next
    /\ connected' = FALSE
    /\ submitted' = {} /\ server' = {} /\ stale' = {}
    /\ changed' = TRUE
    /\ current' = {} /\ todo' = {} /\ inbox' = {} /\ silence' = FALSE

LoggedIn ==
    /\ handle = "login"
    /\ handle' = "connect"
    /\ closed' = FALSE
    /\ UNCHANGED <<connected, reconnect, submitted, current, todo, ping,
                   pinged, changed, topics, receive, starting, stop, doomed,
                   callbacks, twitch>>

(* _backoff_connect retries until it yields a connection.                  *)
Connected ==
    /\ handle = "connect"
    /\ handle' = "loop"
    /\ connected' = TRUE
    /\ reconnect' = FALSE
    /\ pinged' = FALSE
    /\ UNCHANGED <<submitted, current, todo, ping, changed, topics, receive,
                   starting, stopper, callbacks, twitch>>

(* The session is closed under it, at the end of the program: it gives up. *)
SessionClosed ==
    /\ handle = "connect"
    /\ stop # "none"
    /\ handle' = "none"
    /\ UNCHANGED <<connected, reconnect, submitted, current, todo, ping,
                   pinged, changed, topics, receive, starting, stopper,
                   callbacks, twitch>>

Reconnects ==
    /\ handle = "loop"
    /\ reconnect
    /\ Leave("connect")
    /\ UNCHANGED <<reconnect, ping, pinged, topics, starting, stopper,
                   callbacks>>

(* request_reconnect makes the next PING due at once.                      *)
RequestReconnect == reconnect' = TRUE /\ ping' = "due"

(* A PONG counts as missed only while no next PING is due.                 *)
HandlePing ==
    /\ handle = "loop"
    /\ ~reconnect
    /\ handle' = "topics"
    /\ pinged' = (pinged \/ ping = "due")
    /\ \/ ping = "due" /\ ping' = "waiting" /\ UNCHANGED reconnect
       \/ ping = "late" /\ RequestReconnect
       \/ ping \in {"waiting", "calm"} /\ UNCHANGED <<ping, reconnect>>
    /\ UNCHANGED <<connected, submitted, current, todo, changed, topics,
                   receive, starting, stopper, callbacks, twitch>>

-----------------------------------------------------------------------------
(* _handle_topics                                                          *)

NoTopicsChanged ==
    /\ handle = "topics"
    /\ ~changed
    /\ handle' = "recv"
    /\ UNCHANGED <<connected, reconnect, submitted, current, todo, ping,
                   pinged, changed, topics, receive, starting, stopper,
                   callbacks, twitch>>

TopicsChanged ==
    /\ handle = "topics"
    /\ changed
    /\ changed' = FALSE
    /\ handle' = "auth"
    /\ UNCHANGED <<connected, reconnect, submitted, current, todo, ping,
                   pinged, topics, receive, starting, stopper, callbacks,
                   twitch>>

(* get_auth returned.                                                      *)
AuthReady ==
    /\ handle = "auth"
    /\ handle' = "unlisten"
    /\ current' = topics
    /\ todo' = submitted \ topics
    /\ UNCHANGED <<connected, reconnect, submitted, ping, pinged, changed,
                   topics, receive, starting, stopper, callbacks, twitch>>

(* The topics a message names, the first of `rest` in any order            *)
Chunks(rest) ==
    {part \in SUBSET rest :
        \/ Cardinality(part) = Chunk
        \/ part = rest /\ Cardinality(rest) < Chunk}

SendUnlisten ==
    /\ handle = "unlisten"
    /\ todo # {}
    /\ \E part \in Chunks(todo) :
          /\ server' = server \ part
          /\ stale' = stale \ part
          /\ todo' = todo \ part
    /\ UNCHANGED <<handle, connected, reconnect, submitted, current, ping,
                   pinged, changed, topics, receive, starting, stopper,
                   callbacks>>

Unlistened ==
    /\ handle = "unlisten"
    /\ todo = {}
    /\ handle' = "listen"
    /\ submitted' = submitted \cap current
    /\ todo' = current \ submitted
    /\ UNCHANGED <<connected, reconnect, current, ping, pinged, changed,
                   topics, receive, starting, stopper, callbacks, twitch>>

(* Each message carries the access token of the moment it is sent.         *)
SendListen ==
    /\ handle = "listen"
    /\ todo # {}
    /\ \E part \in Chunks(todo) :
          /\ server' = server \cup part
          /\ todo' = todo \ part
    /\ UNCHANGED <<handle, connected, reconnect, submitted, current, ping,
                   pinged, changed, topics, receive, starting, stopper,
                   callbacks, stale>>

ListenedToTopics ==            \* mutant: topics added meanwhile count as sent
    /\ handle = "listen"
    /\ todo = {}
    /\ handle' = "recv"
    /\ submitted' = submitted \cup topics
    /\ current' = {}
    /\ changed' = FALSE
    /\ UNCHANGED <<connected, reconnect, todo, ping, pinged, topics, receive,
                   starting, stopper, callbacks, twitch>>

Listened ==
    /\ handle = "listen"
    /\ todo = {}
    /\ handle' = "recv"
    /\ submitted' = submitted \cup current
    /\ current' = {}
    /\ UNCHANGED <<connected, reconnect, todo, ping, pinged, changed, topics,
                   receive, starting, stopper, callbacks, twitch>>

-----------------------------------------------------------------------------
(* _handle_recv gathers messages, and each one restarts the timeout.       *)

Receive(m) ==
    /\ handle = "recv"
    /\ \/ m \in server
       \/ m = "RECONNECT" /\ m \notin inbox
       \/ m = "PONG" /\ m \notin inbox /\ pinged
    /\ inbox' = inbox \cup {m}
    /\ silence' = FALSE
    /\ UNCHANGED <<handler, changed, topics, starting, stopper, callbacks,
                   twitch>>

Silence ==
    /\ handle = "recv"
    /\ ~silence
    /\ silence' = TRUE
    /\ UNCHANGED <<handler, changed, topics, inbox, starting, stopper,
                   callbacks, twitch>>

PongCallsOff ==                \* mutant: a PONG takes a reconnect back
    /\ handle = "recv"
    /\ silence
    /\ handle' = "loop"
    /\ callbacks' = callbacks \cup (IF closed THEN {} ELSE inbox \cap topics)
    /\ IF "RECONNECT" \in inbox THEN RequestReconnect
       ELSE /\ ping' = IF "PONG" \in inbox THEN "calm" ELSE ping
            /\ reconnect' = (reconnect /\ "PONG" \notin inbox)
    /\ inbox' = {} /\ silence' = FALSE
    /\ UNCHANGED <<pinged, connected, submitted, current, todo, changed,
                   topics, starting, stopper, doomed, twitch>>

(* Nothing came for half a second: process what did come before.  A PONG   *)
(* moves _max_pong to _next_ping.                                          *)
HandleMessages ==
    /\ handle = "recv"
    /\ silence
    /\ handle' = "loop"
    /\ callbacks' = callbacks \cup (IF closed THEN {} ELSE inbox \cap topics)
    /\ IF "RECONNECT" \in inbox THEN RequestReconnect
       ELSE /\ ping' = IF "PONG" \in inbox /\ ping # "due"
                        THEN "calm" ELSE ping
            /\ UNCHANGED reconnect
    /\ inbox' = {} /\ silence' = FALSE
    /\ UNCHANGED <<pinged, connected, submitted, current, todo, changed,
                   topics, starting, stopper, doomed, twitch>>

(* Twitch closed the connection, or any exception ended the loop's body:   *)
(* reconnect, whether or not a stop is under way.                          *)
LoopFails ==
    /\ handle \in InLoop
    /\ Leave("connect")
    /\ UNCHANGED <<reconnect, ping, pinged, topics, starting, stopper,
                   callbacks>>

(* The close of stop() shows when the handler receives.                    *)
ClosedByUs ==
    /\ handle = "recv"
    /\ closed
    /\ Leave("none")
    /\ UNCHANGED <<reconnect, ping, pinged, topics, starting, stopper,
                   callbacks>>

(* Time passes.  A PONG is late before the next PING is due.               *)
TimePasses ==
    /\ \/ ping = "waiting" /\ ping' = "late"
       \/ ping \in {"late", "calm"} /\ ping' = "due"
    /\ UNCHANGED <<pinged, handle, connected, reconnect, submitted, current,
                   todo, changed, topics, receive, starting, stopper,
                   callbacks, twitch>>

CallbackEnds(t) ==
    /\ t \in callbacks
    /\ callbacks' = callbacks \ {t}
    /\ doomed' = doomed \ {t}
    /\ UNCHANGED <<handler, changed, topics, receive, starting, stop, closed,
                   twitch>>

-----------------------------------------------------------------------------
(* What the pool and its callers do.  The one that adds and removes topics *)
(* is the one that starts the websocket, and it is cancelled, if need be,  *)
(* before a stop.                                                          *)

Idle == ~starting /\ stop = "none"

(* start, or start_nowait by a pool that wants to wait for nothing         *)
Start ==
    /\ Idle
    /\ starting' \in BOOLEAN
    /\ handle' = IF handle = "none" THEN "login" ELSE handle
    /\ UNCHANGED <<connected, reconnect, submitted, current, todo, ping,
                   pinged, changed, topics, receive, stopper, callbacks,
                   twitch>>

(* The connection is there, or the caller is cancelled.                    *)
StartEnds ==
    /\ starting
    /\ starting' = FALSE
    /\ UNCHANGED <<handler, changed, topics, receive, stopper, callbacks,
                   twitch>>

AddTopics(added) ==
    /\ Idle
    /\ added # {} /\ added \cap topics = {}
    /\ Cardinality(topics \cup added) <= Limit
    /\ topics' = topics \cup added
    /\ changed' = TRUE
    /\ UNCHANGED <<handler, receive, starting, stopper, callbacks, twitch>>

RemoveTopics(removed) ==
    /\ Idle
    /\ removed # {} /\ removed \subseteq topics
    /\ topics' = topics \ removed
    /\ changed' = TRUE
    /\ UNCHANGED <<handler, receive, starting, stopper, callbacks, twitch>>

(* accept_imported_identity replaced the access token, and asks every      *)
(* websocket of the pool, but not one popped from it, to reconnect.        *)
TokenRenewedOnly ==            \* mutant: the connection is kept
    /\ stale' = server
    /\ UNCHANGED <<handler, changed, topics, receive, starting, stopper,
                   callbacks, server>>

TokenRenewed ==
    /\ stale' = server
    /\ \/ RequestReconnect
       \/ stop # "none" /\ UNCHANGED <<reconnect, ping>>
    /\ UNCHANGED <<pinged, handle, connected, submitted, current, todo,
                   changed, topics, receive, starting, stopper, callbacks,
                   server>>

-----------------------------------------------------------------------------
(* stop(remove=True), as the pool calls it                                 *)

StopRequested ==
    /\ Idle
    /\ stop' = "asked"
    /\ UNCHANGED <<handler, changed, topics, receive, starting, closed,
                   doomed, callbacks, twitch>>

StopBegins ==
    /\ stop = "asked"
    /\ closed' = TRUE
    /\ stop' = IF connected THEN "closing" ELSE "draining"
    /\ UNCHANGED <<handler, changed, topics, receive, starting, doomed,
                   callbacks, twitch>>

SocketClosed ==
    /\ stop = "closing"
    /\ stop' = "draining"
    /\ UNCHANGED <<handler, changed, topics, receive, starting, closed,
                   doomed, callbacks, twitch>>

(* The handler ended, or is cancelled when it does not within two seconds. *)
HandlerForgotten ==            \* mutant: it is not cancelled
    /\ stop = "draining"
    /\ stop' = "cancelling"
    /\ doomed' = callbacks
    /\ UNCHANGED <<handler, changed, topics, receive, starting, closed,
                   callbacks, twitch>>

HandlerStopped ==
    /\ stop = "draining"
    /\ stop' = "cancelling"
    /\ doomed' = callbacks
    /\ IF handle \in InLoop THEN Leave("none")
       ELSE /\ handle' = "none"
            /\ UNCHANGED <<connected, submitted, current, todo, changed,
                           receive, twitch>>
    /\ UNCHANGED <<reconnect, ping, pinged, topics, starting, closed,
                   callbacks>>

(* The cancelled callbacks have ended; remove clears the topics.           *)
StopEnds ==
    /\ stop = "cancelling"
    /\ stop' = "none"
    /\ callbacks' = callbacks \ doomed
    /\ doomed' = {}
    /\ topics' = {}
    /\ changed' = TRUE
    /\ UNCHANGED <<handler, receive, starting, closed, twitch>>

(* What the handler does when it has the turn, or a message was sent       *)
HandlerSteps ==
    \/ Reconnects \/ HandlePing
    \/ NoTopicsChanged \/ TopicsChanged
    \/ SendUnlisten \/ Unlistened \/ SendListen \/ Listened

StopSteps == StopBegins \/ SocketClosed \/ HandlerStopped \/ StopEnds

Next ==
    \/ LoggedIn \/ Connected \/ SessionClosed
    \/ HandlerSteps \/ AuthReady
    \/ \E m \in Topic \cup Control : Receive(m)
    \/ Silence \/ HandleMessages
    \/ LoopFails \/ ClosedByUs \/ TimePasses
    \/ \E t \in Topic : CallbackEnds(t)
    \/ Start \/ StartEnds
    \/ \E S \in SUBSET Topic : AddTopics(S) \/ RemoveTopics(S)
    \/ TokenRenewed
    \/ StopRequested
    \/ StopSteps

(* An await ends when what it waits for does, and the event loop runs what *)
(* is ready.  Twitch, the network, the login that get_auth may wait for,   *)
(* and time are under no obligation: messages may keep coming.             *)
Fairness ==
    /\ WF_vars(HandlerSteps)
    /\ WF_vars(Silence) /\ WF_vars(HandleMessages)
    /\ WF_vars(StopSteps)

Spec == Init /\ [][Next]_vars
FairSpec == Spec /\ Fairness

-----------------------------------------------------------------------------
(* Properties                                                              *)

(* Types; and the locals of the loop hold nothing outside it.              *)
LoopType ==
    /\ handle \in Places
    /\ connected \in BOOLEAN /\ (connected <=> handle \in InLoop)
    /\ reconnect \in BOOLEAN /\ changed \in BOOLEAN
    /\ topics \subseteq Topic
    /\ submitted \subseteq Topic /\ (~connected => submitted = {})
    /\ current \subseteq Topic
    /\ todo \subseteq Topic
    /\ handle \notin {"unlisten", "listen"} => todo = {}
    /\ ping \in PingStates /\ pinged \in BOOLEAN
    /\ inbox \subseteq Topic \cup Control /\ (handle # "recv" => inbox = {})
    /\ silence \in BOOLEAN

StopType ==
    /\ closed \in BOOLEAN /\ starting \in BOOLEAN
    /\ stop \in {"none", "asked", "closing", "draining", "cancelling"}
    /\ callbacks \subseteq Topic /\ doomed \subseteq callbacks
    /\ server \subseteq Topic /\ stale \subseteq server

TypeOK == LoopType /\ StopType

(* A socket that is listening and has no change left to announce receives  *)
(* exactly its topics, whenever they were changed: while it connected,     *)
(* waited for the token, sent or received (websocket.py:261-301).          *)
QuietIsSubscribed == handle = "recv" /\ ~changed => server = topics

(* Once a token is replaced no subscription made with the old one lives on *)
(* without a reconnect on its way (auth_state.py:114-116).                 *)
NoStaleToken == connected /\ stop = "none" /\ ~reconnect => stale = {}

(* Twitch is never told more topics on a connection than it may have: the  *)
(* ones that went are taken back before the new ones are named, although   *)
(* topics change under the snapshot being announced (websocket.py:276-301).*)
TwitchWithinLimit == Cardinality(server) <= Limit

(* A stop leaves no handler, connection or callback behind, whatever the   *)
(* handler was doing and although a login can clear _closed meanwhile.     *)
StopLeavesNothing ==
    [][stop # "none" /\ stop' = "none"
       => handle' = "none" /\ ~connected' /\ callbacks' = {}]_vars

(* The two awaits that nothing in the code ends: get_auth, which may wait  *)
(* for a login (imported_session.py:451), and a receive whose messages     *)
(* never leave half a second between them (websocket.py:317).              *)
WaitsForEver == [](handle = "auth") \/ [](handle = "recv")

(* A topic that is added or removed while the socket is connected reaches  *)
(* Twitch, unless the connection or the change is undone first or the      *)
(* handler waits for ever.                                                 *)
TopicsReachTwitch ==
    \A t \in Topic :
        /\ connected /\ t \in topics
              ~> t \in server \/ t \notin topics \/ ~connected \/ WaitsForEver
        /\ connected /\ t \notin topics
              ~> t \notin server \/ t \in topics \/ WaitsForEver

(* A requested reconnect happens, by Twitch's RECONNECT, by a missed PONG  *)
(* or by a new token (websocket.py:103-107), wherever the handler then is, *)
(* unless it waits for ever there.                                         *)
ReconnectHappens == connected /\ reconnect ~> ~connected \/ WaitsForEver

(* "Request a websocket reconnection" (websocket.py:103): no traffic holds *)
(* it up, once there is a login.                                           *)
ReconnectDespiteTraffic ==
    connected /\ reconnect ~> ~connected \/ [](handle = "auth")

(* "It's been more than 10s and there was no PONG" (websocket.py:257): a   *)
(* connection is given up only for a PING that was sent on it.             *)
MissedPongIsItsOwn ==
    handle = "loop" /\ ~reconnect /\ ping = "late" => pinged
=============================================================================
