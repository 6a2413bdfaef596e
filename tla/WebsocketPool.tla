---------------------------- MODULE WebsocketPool ----------------------------
(***************************************************************************)
(* websocket/pool.py: the topics of the miner spread over websockets, each *)
(* of which takes a limited number.  Only the running `_run` task adds and *)
(* removes topics, and it does so between two awaits.                      *)
(***************************************************************************)
EXTENDS Integers, Sequences, FiniteSets, FiniteSetsExt

CONSTANTS
    Topic,
    Limit,      \* WS_TOPICS_LIMIT
    MaxSockets  \* MAX_WEBSOCKETS

ASSUME TopicAssumption      == IsFiniteSet(Topic)
ASSUME LimitAssumption      == Limit \in Nat \ {0}
ASSUME MaxSocketsAssumption == MaxSockets \in Nat \ {0}

VARIABLES
    sockets,  \* websockets, each as its set of topics
    started,  \* the positions in sockets of those that were started
    running,  \* _running.is_set()
    raised,   \* add_topics raised MinerException, which ends the program
    wanted    \* history: the topics added and not removed since

vars == <<sockets, started, running, raised, wanted>>

Subscribed == UNION {sockets[i] : i \in DOMAIN sockets}

-----------------------------------------------------------------------------
(* Filling sockets: new websockets are appended while topics are left.     *)

Rejected == MaxSockets + 1   \* where a topic goes that fits nowhere

(* What socket i holds once the topics in DOMAIN f went where f says       *)
Held(s, f, i) ==
    (IF i <= Len(s) THEN s[i] ELSE {}) \cup {t \in DOMAIN f : f[t] = i}

RoomForOneMore(held) == Cardinality(held) < Limit + 1  \* mutant: <= for <

Room(held) == Cardinality(held) < Limit

(* A socket takes topics while it has room and passes on the rest; a       *)
(* socket is opened, up to MaxSockets, only for a topic.                   *)
Fills(s, f, n) ==
    /\ \A t \in DOMAIN f :
          /\ f[t] # Rejected => f[t] <= n /\ Room(Held(s, f, f[t]) \ {t})
          /\ \A i \in 1..(f[t] - 1) : ~Room(Held(s, f, i))
    /\ n = Len(s) \/ \E t \in DOMAIN f : f[t] = n

Opened(from, to) == IF running THEN from + 1 .. to ELSE {}

(* Put the topics `new` into the sockets s.                                *)
Put(s, new) ==
    \E f \in [new -> 1..Rejected], n \in Len(s)..(Rejected - 1) :
        /\ Fills(s, f, n)
        /\ sockets' = [i \in 1..n |-> Held(s, f, i)]
        /\ started' = (started \cap 1..Len(s)) \cup Opened(Len(s), n)
        /\ raised' = (\E t \in new : f[t] = Rejected)

-----------------------------------------------------------------------------
Init ==
    /\ sockets = <<>> /\ started = {}
    /\ running = FALSE
    /\ raised = FALSE
    /\ wanted = {}

Start ==
    /\ running' = TRUE
    /\ started' = DOMAIN sockets
    /\ UNCHANGED <<sockets, raised, wanted>>

(* stop(clear_topics): the websockets stay in the pool.                    *)
Stop(clear) ==
    /\ running' = FALSE
    /\ started' = {}
    /\ sockets' = IF clear THEN [i \in DOMAIN sockets |-> {}] ELSE sockets
    /\ wanted' = IF clear THEN {} ELSE wanted
    /\ UNCHANGED raised

AddAgain(topics) == topics       \* mutant: topics of other sockets are kept in

Added(topics) == topics \ Subscribed

AddTopics(topics) ==
    /\ ~raised
    /\ Put(sockets, Added(topics))
    /\ wanted' = wanted \cup topics
    /\ UNCHANGED running

(* The number of topics in the first n of the sockets s                    *)
Count(s, n) == MapThenSumSet(LAMBDA i : Cardinality(s[i]), 1..n)

Spare(s, n) == Count(s, n) <= (n - 1) * Limit

(* The last socket is spare, and is popped, as long as the topics of those *)
(* still in the pool fit without it; `keep` of them stay.                  *)
Keeps(s, keep) ==
    /\ \A n \in keep + 1 .. Len(s) : Spare(s, n)
    /\ ~Spare(s, keep)

Recycled(s, keep) == UNION {s[i] : i \in keep + 1 .. Len(s)}

(* What each socket holds without the topics removed                       *)
Left(topics) == [i \in DOMAIN sockets |-> sockets[i] \ topics]

RemoveTopics(topics) ==
    /\ ~raised
    /\ topics # {}
    /\ \E keep \in 0..Len(sockets) :
          /\ Keeps(Left(topics), keep)
          /\ Put(SubSeq(Left(topics), 1, keep), Recycled(Left(topics), keep))
    /\ wanted' = wanted \ topics
    /\ UNCHANGED running

Next ==
    \/ Start
    \/ \E clear \in BOOLEAN : Stop(clear)
    \/ \E topics \in SUBSET Topic : AddTopics(topics) \/ RemoveTopics(topics)

Spec == Init /\ [][Next]_vars

-----------------------------------------------------------------------------
(* Properties                                                              *)

TypeOK ==
    /\ sockets \in Seq(SUBSET Topic) /\ Len(sockets) <= MaxSockets
    /\ started \subseteq DOMAIN sockets
    /\ running \in BOOLEAN /\ raised \in BOOLEAN
    /\ wanted \subseteq Topic

(* "Ensure no topics end up duplicated" (pool.py:79): through any sequence *)
(* of additions, removals and recycling, no two websockets have a topic in *)
(* common, so no message is handled twice.                                 *)
Disjoint ==
    \A i, j \in DOMAIN sockets : i # j => sockets[i] \cap sockets[j] = {}

(* Twitch's limit of topics per connection holds for every websocket.      *)
WithinLimit == \A i \in DOMAIN sockets : Cardinality(sockets[i]) <= Limit

(* A running pool has no websocket that nobody started, whose topics would *)
(* silently never be received, also after sockets were popped and others   *)
(* opened in their place (pool.py:92-95).                                  *)
RunningIsStarted == running => started = DOMAIN sockets

(* Adding, removing and recycling never lose a topic the miner listens for *)
(* nor keep one it gave up, whichever websockets are stopped on the way.   *)
NothingLost == ~raised => Subscribed = wanted

(* What the pool may rely on before every operation and keeps through it:  *)
(* each topic the miner listens for is on exactly one websocket, which has *)
(* room for it and is started.  It is inductive (WebsocketPoolProofs).     *)
PoolInv == TypeOK /\ Disjoint /\ WithinLimit /\ RunningIsStarted /\ NothingLost

(* Topics are refused exactly when they exceed all websockets together:    *)
(* never because of how they are spread, and never while recycling.        *)
Pool == INSTANCE TopicSet WITH
            Capacity   <- Limit * MaxSockets,
            subscribed <- wanted,
            overflow   <- raised

ImplementsTopicSet == Pool!Spec

(* "If we happen to have more websockets connected than needed, stop the   *)
(* last one [...] repeat until we have enough" (pool.py:121): a topic that *)
(* stays moves only because its websocket was one too many.                *)
OnlySparesAreStopped ==
    [][\A i \in DOMAIN sockets \cap DOMAIN sockets' :
          sockets[i] \cap Subscribed' \subseteq sockets'[i]]_vars
=============================================================================
