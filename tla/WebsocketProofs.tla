--------------------------- MODULE WebsocketProofs ---------------------------
(***************************************************************************)
(* Theorems about Websocket, for any set of topics, limit and chunk size.  *)
(***************************************************************************)
EXTENDS Websocket, FiniteSetTheorems, TLAPS

USE DEF vars, handler, receive, stopper, twitch

(* What Twitch was told, at each place of the handler                      *)
Announced ==
    /\ handle \in {"loop", "topics", "recv"} =>
          server = submitted /\ (~changed => submitted = topics)
    /\ handle = "auth" => server = submitted
    /\ handle = "unlisten" =>
          /\ todo \cap current = {} /\ todo \subseteq submitted
          /\ server = (submitted \cap current) \cup todo
          /\ ~changed => current = topics
    /\ handle = "listen" =>
          /\ submitted \subseteq current
          /\ todo \subseteq current
          /\ server = current \ todo
          /\ ~changed => current = topics
    /\ ~connected => server = {} /\ (~changed => topics = {})

(* Once a stop has got past the handler, nothing of the socket runs.       *)
Stopping ==
    stop = "cancelling" => handle = "none" /\ callbacks \subseteq doomed

SocketInv == TypeOK /\ Announced /\ Stopping /\ NoStaleToken

-----------------------------------------------------------------------------
LEMMA InitInv == Init => SocketInv
  BY DEF Init, SocketInv, TypeOK, LoopType, StopType, Announced, Stopping,
         NoStaleToken, Places, InLoop, PingStates, Control

(* The loop, its locals and Twitch keep their types.                       *)
LEMMA KeepsLoopType ==
    ASSUME SocketInv, [Next]_vars
    PROVE  LoopType'
<1> USE DEF SocketInv, TypeOK, LoopType, StopType, InLoop, Places, Control,
           PingStates
<1>1. ASSUME StartEnds \/ StopRequested \/ StopBegins \/ SocketClosed
      PROVE  LoopType'
  <2>1. UNCHANGED <<handle, connected, reconnect, changed, topics, submitted,
                    current, todo, ping, pinged, inbox, silence>>
    BY <1>1 DEF StartEnds, StopRequested, StopBegins, SocketClosed
  <2> QED
    BY <2>1
<1>2. ASSUME NEW t \in Topic, CallbackEnds(t) PROVE LoopType'
  BY <1>2 DEF CallbackEnds
<1>3. ASSUME LoggedIn PROVE LoopType'
  BY <1>3 DEF LoggedIn
<1>4. ASSUME Connected PROVE LoopType'
  BY <1>4 DEF Connected
<1>5. ASSUME SessionClosed PROVE LoopType'
  BY <1>5 DEF SessionClosed
<1>6. ASSUME Reconnects PROVE LoopType'
  BY <1>6 DEF Reconnects, Leave
<1>7. ASSUME HandlePing PROVE LoopType'
  BY <1>7 DEF HandlePing, RequestReconnect
<1>8. ASSUME NoTopicsChanged PROVE LoopType'
  BY <1>8 DEF NoTopicsChanged
<1>9. ASSUME TopicsChanged PROVE LoopType'
  BY <1>9 DEF TopicsChanged
<1>10. ASSUME AuthReady PROVE LoopType'
  BY <1>10 DEF AuthReady
<1>11. ASSUME SendUnlisten PROVE LoopType'
  BY <1>11 DEF SendUnlisten, Chunks
<1>12. ASSUME Unlistened PROVE LoopType'
  BY <1>12 DEF Unlistened
<1>13. ASSUME SendListen PROVE LoopType'
  BY <1>13 DEF SendListen, Chunks
<1>14. ASSUME Listened PROVE LoopType'
  BY <1>14 DEF Listened
<1>15. ASSUME Silence PROVE LoopType'
  BY <1>15 DEF Silence
<1>16. ASSUME HandleMessages PROVE LoopType'
  BY <1>16 DEF HandleMessages, RequestReconnect
<1>17. ASSUME LoopFails PROVE LoopType'
  BY <1>17 DEF LoopFails, Leave
<1>18. ASSUME ClosedByUs PROVE LoopType'
  BY <1>18 DEF ClosedByUs, Leave
<1>19. ASSUME TimePasses PROVE LoopType'
  BY <1>19 DEF TimePasses
<1>20. ASSUME Start PROVE LoopType'
  BY <1>20 DEF Start, Idle
<1>21. ASSUME TokenRenewed PROVE LoopType'
  BY <1>21 DEF TokenRenewed, RequestReconnect
<1>22. ASSUME HandlerStopped PROVE LoopType'
  BY <1>22 DEF HandlerStopped, Leave
<1>23. ASSUME StopEnds PROVE LoopType'
  BY <1>23 DEF StopEnds
<1>24. ASSUME NEW m \in Topic \cup Control, Receive(m) PROVE LoopType'
  BY <1>24 DEF Receive
<1>25. ASSUME NEW S \in SUBSET Topic, AddTopics(S) PROVE LoopType'
  BY <1>25 DEF AddTopics, Idle
<1>26. ASSUME NEW S \in SUBSET Topic, RemoveTopics(S) PROVE LoopType'
  BY <1>26 DEF RemoveTopics, Idle
<1>27. CASE UNCHANGED vars
  BY <1>27
<1> QED
  BY <1>1, <1>2, <1>3, <1>4, <1>5, <1>6, <1>7, <1>8, <1>9, <1>10, <1>11,
     <1>12, <1>13, <1>14, <1>15, <1>16, <1>17, <1>18, <1>19, <1>20, <1>21,
     <1>22, <1>23, <1>24, <1>25, <1>26, <1>27
     DEF Next, HandlerSteps, StopSteps

(* So do the stop and the callbacks; only Twitch was told is renewed.      *)
LEMMA KeepsStopType ==
    ASSUME SocketInv, [Next]_vars
    PROVE  StopType'
<1> USE DEF SocketInv, TypeOK, LoopType, StopType, InLoop, Places
<1>1. ASSUME Connected \/ SessionClosed \/ HandlePing \/ NoTopicsChanged \/
              TopicsChanged \/ AuthReady \/ Unlistened \/ Listened \/
              Silence \/ TimePasses
      PROVE  StopType'
  <2>1. UNCHANGED <<closed, starting, stop, callbacks, doomed, server, stale>>
    BY <1>1 DEF Connected, SessionClosed, HandlePing, NoTopicsChanged,
                TopicsChanged, AuthReady, Unlistened, Listened, Silence,
                TimePasses
  <2> QED
    BY <2>1
<1>2. ASSUME NEW m \in Topic \cup Control, Receive(m) PROVE StopType'
  BY <1>2 DEF Receive
<1>3. ASSUME NEW S \in SUBSET Topic, AddTopics(S) PROVE StopType'
  BY <1>3 DEF AddTopics
<1>4. ASSUME NEW S \in SUBSET Topic, RemoveTopics(S) PROVE StopType'
  BY <1>4 DEF RemoveTopics
<1>5. ASSUME LoggedIn PROVE StopType'
  BY <1>5 DEF LoggedIn
<1>6. ASSUME Reconnects PROVE StopType'
  BY <1>6 DEF Reconnects, Leave
<1>7. ASSUME SendUnlisten PROVE StopType'
  BY <1>7 DEF SendUnlisten, Chunks
<1>8. ASSUME SendListen PROVE StopType'
  BY <1>8 DEF SendListen, Chunks
<1>9. ASSUME HandleMessages PROVE StopType'
  BY <1>9 DEF HandleMessages, RequestReconnect
<1>10. ASSUME LoopFails PROVE StopType'
  BY <1>10 DEF LoopFails, Leave
<1>11. ASSUME ClosedByUs PROVE StopType'
  BY <1>11 DEF ClosedByUs, Leave
<1>12. ASSUME Start PROVE StopType'
  BY <1>12 DEF Start, Idle
<1>13. ASSUME StartEnds PROVE StopType'
  BY <1>13 DEF StartEnds
<1>14. ASSUME TokenRenewed PROVE StopType'
  BY <1>14 DEF TokenRenewed, RequestReconnect
<1>15. ASSUME StopRequested PROVE StopType'
  BY <1>15 DEF StopRequested, Idle
<1>16. ASSUME StopBegins PROVE StopType'
  BY <1>16 DEF StopBegins
<1>17. ASSUME SocketClosed PROVE StopType'
  BY <1>17 DEF SocketClosed
<1>18. ASSUME HandlerStopped PROVE StopType'
  BY <1>18 DEF HandlerStopped, Leave
<1>19. ASSUME StopEnds PROVE StopType'
  BY <1>19 DEF StopEnds
<1>20. ASSUME NEW t \in Topic, CallbackEnds(t) PROVE StopType'
  BY <1>20 DEF CallbackEnds
<1>21. CASE UNCHANGED vars
  BY <1>21
<1> QED
  BY <1>1, <1>2, <1>3, <1>4, <1>5, <1>6, <1>7, <1>8, <1>9, <1>10, <1>11,
     <1>12, <1>13, <1>14, <1>15, <1>16, <1>17, <1>18, <1>19, <1>20, <1>21
     DEF Next, HandlerSteps, StopSteps

(* What Twitch was told keeps up with what the socket has submitted.       *)
LEMMA KeepsAnnounced ==
    ASSUME SocketInv, [Next]_vars
    PROVE  Announced'
<1> USE DEF SocketInv, TypeOK, LoopType, StopType, Announced, InLoop, Places
<1>1. ASSUME Silence \/ TimePasses \/ StartEnds \/ TokenRenewed \/
              StopRequested \/ StopBegins \/ SocketClosed
      PROVE  Announced'
  <2>1. UNCHANGED <<handle, connected, changed, topics, submitted, current,
                    todo, server>>
    BY <1>1 DEF Silence, TimePasses, StartEnds, TokenRenewed, StopRequested,
                StopBegins, SocketClosed
  <2> QED
    BY <2>1
<1>2. ASSUME NEW m \in Topic \cup Control, Receive(m) PROVE Announced'
  BY <1>2 DEF Receive
<1>3. ASSUME NEW t \in Topic, CallbackEnds(t) PROVE Announced'
  BY <1>3 DEF CallbackEnds
<1>4. ASSUME LoggedIn PROVE Announced'
  BY <1>4 DEF LoggedIn
<1>5. ASSUME Connected PROVE Announced'
  BY <1>5 DEF Connected
<1>6. ASSUME SessionClosed PROVE Announced'
  BY <1>6 DEF SessionClosed
<1>7. ASSUME Reconnects PROVE Announced'
  BY <1>7 DEF Reconnects, Leave
<1>8. ASSUME HandlePing PROVE Announced'
  BY <1>8 DEF HandlePing, RequestReconnect
<1>9. ASSUME NoTopicsChanged PROVE Announced'
  BY <1>9 DEF NoTopicsChanged
<1>10. ASSUME TopicsChanged PROVE Announced'
  BY <1>10 DEF TopicsChanged
<1>11. ASSUME AuthReady PROVE Announced'
  BY <1>11 DEF AuthReady
<1>12. ASSUME SendUnlisten PROVE Announced'
  BY <1>12 DEF SendUnlisten, Chunks
<1>13. ASSUME Unlistened PROVE Announced'
  BY <1>13 DEF Unlistened
<1>14. ASSUME SendListen PROVE Announced'
  BY <1>14 DEF SendListen, Chunks
<1>15. ASSUME Listened PROVE Announced'
  BY <1>15 DEF Listened
<1>16. ASSUME HandleMessages PROVE Announced'
  BY <1>16 DEF HandleMessages, RequestReconnect
<1>17. ASSUME LoopFails PROVE Announced'
  BY <1>17 DEF LoopFails, Leave
<1>18. ASSUME ClosedByUs PROVE Announced'
  BY <1>18 DEF ClosedByUs, Leave
<1>19. ASSUME Start PROVE Announced'
  BY <1>19 DEF Start, Idle
<1>20. ASSUME HandlerStopped PROVE Announced'
  BY <1>20 DEF HandlerStopped, Leave
<1>21. ASSUME StopEnds PROVE Announced'
  BY <1>21 DEF StopEnds
<1>22. ASSUME NEW S \in SUBSET Topic, AddTopics(S) PROVE Announced'
  BY <1>22 DEF AddTopics, Idle
<1>23. ASSUME NEW S \in SUBSET Topic, RemoveTopics(S) PROVE Announced'
  BY <1>23 DEF RemoveTopics, Idle
<1>24. CASE UNCHANGED vars
  BY <1>24
<1> QED
  BY <1>1, <1>2, <1>3, <1>4, <1>5, <1>6, <1>7, <1>8, <1>9, <1>10, <1>11,
     <1>12, <1>13, <1>14, <1>15, <1>16, <1>17, <1>18, <1>19, <1>20, <1>21,
     <1>22, <1>23, <1>24
     DEF Next, HandlerSteps, StopSteps

(* Nothing is started or spawned behind the back of a stop.                *)
LEMMA KeepsStopping ==
    ASSUME SocketInv, [Next]_vars
    PROVE  Stopping'
<1> USE DEF SocketInv, TypeOK, LoopType, StopType, Stopping, InLoop
<1>1. ASSUME SendUnlisten \/ SendListen \/ Silence \/ TimePasses \/
              StartEnds \/ TokenRenewed
      PROVE  Stopping'
  <2>1. UNCHANGED <<stop, handle, callbacks, doomed>>
    BY <1>1 DEF SendUnlisten, SendListen, Silence, TimePasses, StartEnds,
                TokenRenewed
  <2> QED
    BY <2>1
<1>2. ASSUME NEW m \in Topic \cup Control, Receive(m) PROVE Stopping'
  BY <1>2 DEF Receive
<1>3. ASSUME NEW S \in SUBSET Topic, AddTopics(S) PROVE Stopping'
  BY <1>3 DEF AddTopics
<1>4. ASSUME NEW S \in SUBSET Topic, RemoveTopics(S) PROVE Stopping'
  BY <1>4 DEF RemoveTopics
<1>5. ASSUME LoggedIn PROVE Stopping'
  BY <1>5 DEF LoggedIn
<1>6. ASSUME Connected PROVE Stopping'
  BY <1>6 DEF Connected
<1>7. ASSUME SessionClosed PROVE Stopping'
  BY <1>7 DEF SessionClosed
<1>8. ASSUME Reconnects PROVE Stopping'
  BY <1>8 DEF Reconnects, Leave
<1>9. ASSUME HandlePing PROVE Stopping'
  BY <1>9 DEF HandlePing, RequestReconnect
<1>10. ASSUME NoTopicsChanged PROVE Stopping'
  BY <1>10 DEF NoTopicsChanged
<1>11. ASSUME TopicsChanged PROVE Stopping'
  BY <1>11 DEF TopicsChanged
<1>12. ASSUME AuthReady PROVE Stopping'
  BY <1>12 DEF AuthReady
<1>13. ASSUME Unlistened PROVE Stopping'
  BY <1>13 DEF Unlistened
<1>14. ASSUME Listened PROVE Stopping'
  BY <1>14 DEF Listened
<1>15. ASSUME HandleMessages PROVE Stopping'
  BY <1>15 DEF HandleMessages, RequestReconnect
<1>16. ASSUME LoopFails PROVE Stopping'
  BY <1>16 DEF LoopFails, Leave
<1>17. ASSUME ClosedByUs PROVE Stopping'
  BY <1>17 DEF ClosedByUs, Leave
<1>18. ASSUME Start PROVE Stopping'
  BY <1>18 DEF Start, Idle
<1>19. ASSUME StopRequested PROVE Stopping'
  BY <1>19 DEF StopRequested, Idle
<1>20. ASSUME StopBegins PROVE Stopping'
  BY <1>20 DEF StopBegins
<1>21. ASSUME SocketClosed PROVE Stopping'
  BY <1>21 DEF SocketClosed
<1>22. ASSUME HandlerStopped PROVE Stopping'
  BY <1>22 DEF HandlerStopped, Leave
<1>23. ASSUME StopEnds PROVE Stopping'
  BY <1>23 DEF StopEnds
<1>24. ASSUME NEW t \in Topic, CallbackEnds(t) PROVE Stopping'
  BY <1>24 DEF CallbackEnds
<1>25. CASE UNCHANGED vars
  BY <1>25
<1> QED
  BY <1>1, <1>2, <1>3, <1>4, <1>5, <1>6, <1>7, <1>8, <1>9, <1>10, <1>11,
     <1>12, <1>13, <1>14, <1>15, <1>16, <1>17, <1>18, <1>19, <1>20, <1>21,
     <1>22, <1>23, <1>24, <1>25
     DEF Next, HandlerSteps, StopSteps

(* A new connection starts without subscriptions, hence without stale ones. *)
LEMMA KeepsTokens ==
    ASSUME SocketInv, [Next]_vars
    PROVE  NoStaleToken'
<1> USE DEF SocketInv, TypeOK, LoopType, StopType, Announced, Stopping,
           NoStaleToken, InLoop
<1>1. ASSUME LoggedIn \/ SessionClosed \/ NoTopicsChanged \/ TopicsChanged \/
              AuthReady \/ Unlistened \/ SendListen \/ Listened \/ Silence \/
              TimePasses \/ Start \/ StartEnds
      PROVE  NoStaleToken'
  <2>1. UNCHANGED <<connected, stop, reconnect, stale>>
    BY <1>1 DEF LoggedIn, SessionClosed, NoTopicsChanged, TopicsChanged,
                AuthReady, Unlistened, SendListen, Listened, Silence,
                TimePasses, Start, StartEnds
  <2> QED
    BY <2>1
<1>2. ASSUME NEW m \in Topic \cup Control, Receive(m) PROVE NoStaleToken'
  BY <1>2 DEF Receive
<1>3. ASSUME NEW t \in Topic, CallbackEnds(t) PROVE NoStaleToken'
  BY <1>3 DEF CallbackEnds
<1>4. ASSUME NEW S \in SUBSET Topic, AddTopics(S) PROVE NoStaleToken'
  BY <1>4 DEF AddTopics
<1>5. ASSUME NEW S \in SUBSET Topic, RemoveTopics(S) PROVE NoStaleToken'
  BY <1>5 DEF RemoveTopics
<1>6. ASSUME Connected PROVE NoStaleToken'
  BY <1>6 DEF Connected
<1>7. ASSUME Reconnects PROVE NoStaleToken'
  BY <1>7 DEF Reconnects, Leave
<1>8. ASSUME HandlePing PROVE NoStaleToken'
  BY <1>8 DEF HandlePing, RequestReconnect
<1>9. ASSUME SendUnlisten PROVE NoStaleToken'
  BY <1>9 DEF SendUnlisten, Chunks
<1>10. ASSUME HandleMessages PROVE NoStaleToken'
  BY <1>10 DEF HandleMessages, RequestReconnect
<1>11. ASSUME LoopFails PROVE NoStaleToken'
  BY <1>11 DEF LoopFails, Leave
<1>12. ASSUME ClosedByUs PROVE NoStaleToken'
  BY <1>12 DEF ClosedByUs, Leave
<1>13. ASSUME TokenRenewed PROVE NoStaleToken'
  BY <1>13 DEF TokenRenewed, RequestReconnect
<1>14. ASSUME StopRequested PROVE NoStaleToken'
  BY <1>14 DEF StopRequested, Idle
<1>15. ASSUME StopBegins PROVE NoStaleToken'
  BY <1>15 DEF StopBegins
<1>16. ASSUME SocketClosed PROVE NoStaleToken'
  BY <1>16 DEF SocketClosed
<1>17. ASSUME HandlerStopped PROVE NoStaleToken'
  BY <1>17 DEF HandlerStopped, Leave
<1>18. ASSUME StopEnds PROVE NoStaleToken'
  BY <1>18 DEF StopEnds
<1>19. CASE UNCHANGED vars
  BY <1>19
<1> QED
  BY <1>1, <1>2, <1>3, <1>4, <1>5, <1>6, <1>7, <1>8, <1>9, <1>10, <1>11,
     <1>12, <1>13, <1>14, <1>15, <1>16, <1>17, <1>18, <1>19
     DEF Next, HandlerSteps, StopSteps

-----------------------------------------------------------------------------
THEOREM SocketInvariant == Spec => []SocketInv
<1>1. SocketInv /\ [Next]_vars => SocketInv'
  BY KeepsLoopType, KeepsStopType, KeepsAnnounced, KeepsStopping, KeepsTokens
     DEF SocketInv, TypeOK
<1> QED
  BY <1>1, InitInv, PTL DEF Spec

(* The types hold throughout: of the loop, its locals, the stop and what   *)
(* Twitch was told.                                                        *)
THEOREM SocketTypes == Spec => []TypeOK
  BY SocketInvariant, PTL DEF SocketInv

(* For any topics, limit and chunk size: a socket that listens and has no  *)
(* change to announce receives exactly its topics.                         *)
THEOREM SocketListensToItsTopics == Spec => []QuietIsSubscribed
<1>1. SocketInv => QuietIsSubscribed
  BY DEF SocketInv, Announced, QuietIsSubscribed
<1> QED
  BY <1>1, SocketInvariant, PTL

(* No subscription made with a replaced token outlives the reconnect.      *)
THEOREM TokensAreRenewed == Spec => []NoStaleToken
  BY SocketInvariant, PTL DEF SocketInv

(* A stop that ends has ended the handler, its connection and callbacks.   *)
THEOREM StopIsThorough == Spec => StopLeavesNothing
<1>1. SocketInv /\ [Next]_vars =>
          (stop # "none" /\ stop' = "none"
           => handle' = "none" /\ ~connected' /\ callbacks' = {})
  <2> SUFFICES ASSUME SocketInv, [Next]_vars, stop # "none", stop' = "none"
               PROVE  handle' = "none" /\ ~connected' /\ callbacks' = {}
    OBVIOUS
  <2>1. StopEnds
    BY DEF Next, HandlerSteps, StopSteps, LoggedIn, Connected, SessionClosed,
       Reconnects, HandlePing, NoTopicsChanged, TopicsChanged, AuthReady,
       SendUnlisten, Unlistened, SendListen, Listened, Receive, Silence,
       HandleMessages, LoopFails, ClosedByUs, TimePasses, CallbackEnds,
       Start, StartEnds, AddTopics, RemoveTopics, TokenRenewed,
       StopRequested, StopBegins, SocketClosed, HandlerStopped
  <2> QED
    BY <2>1 DEF StopEnds, SocketInv, Stopping, TypeOK, LoopType, InLoop
<1> QED
  BY <1>1, SocketInvariant, PTL DEF Spec, StopLeavesNothing

-----------------------------------------------------------------------------
(* What is announced is a snapshot of the topics, and they never are too   *)
(* many; what Twitch was told lies within the last snapshot or this one.   *)
Fits(S) == Cardinality(S) <= Limit

LimitInv == Fits(topics) /\ Fits(submitted) /\ Fits(current)

(* A part of what fits does too.                                           *)
LEMMA PartFits ==
    ASSUME IsFiniteSet(Topic), NEW S \in SUBSET Topic, Fits(S), NEW R \in SUBSET S
    PROVE  Fits(R)
<1>1. IsFiniteSet(S) /\ IsFiniteSet(R) /\ Cardinality(R) <= Cardinality(S)
  BY FS_Subset
<1>2. Cardinality(R) \in Nat /\ Cardinality(S) \in Nat
  BY <1>1, FS_CardinalityType
<1> QED
  BY <1>1, <1>2, LimitAssumption DEF Fits

LEMMA NothingFits == Fits({})
  BY FS_EmptySet, LimitAssumption DEF Fits

(* Topics are added within the limit, and the snapshots are of them.       *)
LEMMA KeepsLimit ==
    ASSUME IsFiniteSet(Topic), SocketInv, LimitInv, [Next]_vars
    PROVE  LimitInv'
<1> USE DEF LimitInv
<1>0. topics \in SUBSET Topic /\ submitted \in SUBSET Topic /\ current \in SUBSET Topic
  BY DEF SocketInv, TypeOK, LoopType
<1>1. ASSUME UNCHANGED topics, UNCHANGED submitted, UNCHANGED current
      PROVE  LimitInv'
  BY <1>1
<1>2. CASE UNCHANGED <<topics, submitted, current>>
  BY <1>1, <1>2
<1>3. ASSUME NEW next, Leave(next), UNCHANGED topics PROVE LimitInv'
  BY <1>3, NothingFits DEF Leave
<1>4. CASE Reconnects \/ LoopFails \/ ClosedByUs
  BY <1>3, <1>4 DEF Reconnects, LoopFails, ClosedByUs
<1>5. CASE HandlerStopped
  BY <1>1, <1>3, <1>5 DEF HandlerStopped
<1>6. CASE AuthReady
  BY <1>6 DEF AuthReady
<1>7. CASE Unlistened
  <2>1. Fits(submitted \cap current)
    BY <1>0, PartFits
  <2> QED
    BY <1>7, <2>1 DEF Unlistened
<1>8. CASE Listened
  <2>1. submitted \subseteq current
    BY <1>8 DEF Listened, SocketInv, Announced
  <2>2. submitted \cup current = current
    BY <2>1
  <2> QED
    BY <1>8, <2>2, NothingFits DEF Listened
<1>9. ASSUME NEW S \in SUBSET Topic, AddTopics(S) PROVE LimitInv'
  BY <1>9 DEF AddTopics, Fits
<1>10. ASSUME NEW S \in SUBSET Topic, RemoveTopics(S) PROVE LimitInv'
  <2>1. Fits(topics \ S)
    BY <1>0, PartFits
  <2> QED
    BY <1>10, <2>1 DEF RemoveTopics
<1>11. CASE StopEnds
  BY <1>11, NothingFits DEF StopEnds
<1>12. ASSUME [Next]_vars,
              ~(\/ Reconnects \/ LoopFails \/ ClosedByUs \/ HandlerStopped
                \/ AuthReady \/ Unlistened \/ Listened \/ StopEnds
                \/ \E S \in SUBSET Topic : AddTopics(S) \/ RemoveTopics(S))
       PROVE  UNCHANGED <<topics, submitted, current>>
  BY <1>12
  DEF Next, HandlerSteps, StopSteps, LoggedIn, Connected, SessionClosed,
      HandlePing, NoTopicsChanged, TopicsChanged, SendUnlisten, SendListen,
      Receive, Silence, HandleMessages, TimePasses, CallbackEnds, Start,
      StartEnds, TokenRenewed, StopRequested, StopBegins, SocketClosed
<1> QED
  BY <1>2, <1>4, <1>5, <1>6, <1>7, <1>8, <1>9, <1>10, <1>11, <1>12

(* Twitch is told no more topics than a connection may have, for any       *)
(* finite set of topics, limit and chunk size: the removed ones go first,  *)
(* and both lists are of one snapshot (websocket.py:276-301).              *)
THEOREM TwitchIsNotOverfilled ==
    ASSUME IsFiniteSet(Topic)
    PROVE  Spec => []TwitchWithinLimit
<1>1. Init => LimitInv
  BY NothingFits DEF Init, LimitInv
<1>2. SocketInv /\ LimitInv /\ [Next]_vars => LimitInv'
  BY KeepsLimit
<1>3. SocketInv /\ LimitInv => TwitchWithinLimit
  <2> SUFFICES ASSUME SocketInv, LimitInv PROVE Fits(server)
    BY DEF TwitchWithinLimit, Fits
  <2>1. topics \in SUBSET Topic /\ submitted \in SUBSET Topic /\ current \in SUBSET Topic
    BY DEF SocketInv, TypeOK, LoopType
  <2>2. server \subseteq submitted \/ server \subseteq current
    BY DEF SocketInv, TypeOK, LoopType, InLoop, Places, Announced
  <2> QED
    BY <2>1, <2>2, PartFits DEF LimitInv
<1> QED
  BY <1>1, <1>2, <1>3, SocketInvariant, PTL DEF Spec
=============================================================================
